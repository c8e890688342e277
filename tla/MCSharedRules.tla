--------------------------- MODULE MCSharedRules ---------------------------
(***************************************************************************)
(* The rules package asked one question at a time: a pairing to judge, or  *)
(* a text to read.                                                         *)
(*                                                                         *)
(* For the engine: four VINs, spelt out so that they are alike in every    *)
(* grade the engine tells apart (v1 and v2 two edits, v1 and v3 a suffix)  *)
(* and a reading (m) that two listed VINs fit equally well.  For the       *)
(* identifiers: two owners, serials of 0, 6 and 8 (all in or next to the   *)
(* class the check digit leaves weak), every misread of every place by one *)
(* of eleven characters, and every pair of texts over two letters.         *)
(***************************************************************************)
EXTENDS ReconTable, Identifiers

SerialPart == <<"9", "7", "K", "P", "3", "0", "0", "4", "5", "1", "2", "6">>
v1 == <<"J", "T", "D", "B", "R">> \o SerialPart
v2 == [v1 EXCEPT ![9] = "E", ![17] = "8"]
v3 == <<"N", "M", "0", "K", "S">> \o SerialPart
m == [v1 EXCEPT ![9] = "E"]

MCVins == {v1, v2, v3, m}
MCConfidence == [v \in MCVins |-> [w \in MCVins |-> Likeness(v, w)]]

Owners == {<<"M", "S", "K", "U">>, <<"C", "A", "O", "J">>}
Serials == {<<"6", "6", "6", p, q, r>> : p, q, r \in {"0", "6", "8"}}
Plates == {n \in {o \o s \o <<d>> : o \in Owners, s \in Serials, d \in Digits} : IsValidContainerNo(n)}
Misreads == {"0", "6", "8", "9", "O", "D", "G", "B", "K", "L", "X"}

\* The plate in one piece, or as it is painted; the size code beside it.
Cuts == {<<0, 11>>, <<0, 4, 10, 11>>}
Beside == {<<>>, <<<<"2", "2", "G", "1">>>>}

Words == UNION {[1..n -> {"A", "B"}] : n \in 0..4}

ReadPlate ==
    \E plate \in Plates, at \in 1..11, as \in Misreads, cuts \in Cuts, after \in Beside :
        AskPlate(plate, at, as, cuts, after)

ReadDistance == \E a, b \in Words, max \in 0..3 : AskDistance(a, b, max)

SharedInit == Init /\ text = <<>> /\ read = <<>>

SharedNext ==
    \/ text = <<>> /\ Next /\ UNCHANGED <<text, read>>
    \/ /\ asked = None /\ lines = NoLines
       /\ ReadDistance \/ ReadPlate
       /\ UNCHANGED vars

SharedSpec == SharedInit /\ [][SharedNext]_<<vars, text, read>>
=============================================================================
