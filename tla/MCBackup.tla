------------------------------ MODULE MCBackup ------------------------------
(***************************************************************************)
(* Two keys: one copied while the other is still to come.                  *)
(***************************************************************************)
EXTENDS Backup, TLC

Symmetry == Permutations(Keys)
=============================================================================
