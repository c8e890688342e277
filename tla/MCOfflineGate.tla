--------------------------- MODULE MCOfflineGate ---------------------------
(***************************************************************************)
(* One box.  Two captures of car v1, the second made where the officer has *)
(* been taken off since.  Either the amended report swaps v1 for v2, or    *)
(* both reports list both cars.                                            *)
(***************************************************************************)
EXTENDS OfflineGate, TLC

CONSTANTS v1, v2, box, s1, s2

MCConfidence == [v \in Vins |-> [w \in Vins |-> IF v = w THEN 100 ELSE 0]]

MCPairs == {<<box, v1>>}

Report(listed) == [lines |-> [v \in Vins |-> IF v \in listed THEN box ELSE None],
                   over |-> FALSE]

Swapped == <<Report({v1}), Report({v2})>>
Reissued == <<Report({v1, v2}), Report({v1, v2})>>
=============================================================================
