---------------------------- MODULE MCSyncServer ----------------------------
(***************************************************************************)
(* A yard with two containers and two cars, v1 and v2; m is a misread of   *)
(* v1 that is on no report.  The first manifest puts both cars in boxA,    *)
(* the amended one moves v1 to boxB.                                       *)
(***************************************************************************)
EXTENDS Dossier, TLC

CONSTANTS v1, v2, m, boxA, boxB, yard, depot

MCConfidence ==
    [v \in Vins |-> [w \in Vins |->
        IF v = w THEN 100 ELSE IF {v, w} = {v1, m} THEN 90 ELSE 0]]

MCDeliveries ==
    {[ref |-> "do1", location |-> yard, lines |-> lines] :
        lines \in {v1 :> boxA @@ v2 :> boxA @@ m :> None,
                   v1 :> boxB @@ v2 :> boxA @@ m :> None}}

Scan(location, container, vin, paired) ==
    [location |-> location, container |-> container, vin |-> vin,
     paired |-> paired, device |-> "MATCH"]

\* Each car at its box, v1 at the other box too, and the misread of v1.
Pairings ==
    {Scan(yard, boxA, v1, TRUE), Scan(yard, boxA, v2, TRUE),
     Scan(yard, boxB, v1, TRUE), Scan(yard, boxA, m, TRUE)}

\* Two passes, a session with one scan, one from where nobody is assigned.
Oddments ==
    {Scan(yard, boxA, v1, TRUE), Scan(yard, boxA, v2, TRUE),
     Scan(yard, boxA, v1, FALSE), Scan(depot, boxA, v1, TRUE)}

MCSubscribed == {"MATCH"}

Symmetry == Permutations(Sessions) \union Permutations(Handlers)
=============================================================================
