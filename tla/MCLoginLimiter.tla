--------------------------- MODULE MCLoginLimiter ---------------------------
(***************************************************************************)
(* One address, three identifiers and room for two of them.                *)
(***************************************************************************)
EXTENDS LoginLimiter, TLC

CONSTANTS p1, u1, u2, u3

Interchangeable == Permutations(Ids)
=============================================================================
