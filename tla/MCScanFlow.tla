----------------------------- MODULE MCScanFlow -----------------------------
(***************************************************************************)
(* One container, two cars.                                                *)
(***************************************************************************)
EXTENDS ScanFlow, TLC

CONSTANTS c1, v1, v2
=============================================================================
