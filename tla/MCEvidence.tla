----------------------------- MODULE MCEvidence -----------------------------
(***************************************************************************)
(* One capture with one photograph, three attempts to deliver it and two   *)
(* deaths of either program.                                               *)
(***************************************************************************)
EXTENDS Evidence

CONSTANT s1

MCSessionOf == [i \in Images |-> s1]
=============================================================================
