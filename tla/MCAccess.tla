------------------------------ MODULE MCAccess ------------------------------
(***************************************************************************)
(* Two officers, and enough tokens for two calls at once.                  *)
(***************************************************************************)
EXTENDS Access
=============================================================================
