----------------------------- MODULE ReconRules -----------------------------
(***************************************************************************)
(* The reconciliation rules engine (packages/shared-rules): the pure       *)
(* function that judges one container/VIN pairing against a pickup report. *)
(* The phone runs it offline and the API runs it again; both read the      *)
(* verdict off the same table.                                             *)
(*                                                                         *)
(* A reading, a VIN and a container number stand for their NORMALISED      *)
(* text (normalize.ts), so two raw spellings of one number are one value   *)
(* here; None is the text that normalises to the empty string.  How alike  *)
(* two VINs are is the constant table Confidence, in percent: 100 for the  *)
(* same VIN, 90 one edit apart, 85 a shared 12-character suffix, 70 two    *)
(* edits apart, 0 otherwise.                                               *)
(***************************************************************************)
EXTENDS Naturals, FiniteSets

CONSTANTS
    Vins,        \* every VIN that is printed on a car, misread or listed
    Containers,  \* container numbers
    Confidence,  \* [Vins -> [Vins -> 0..100]], see above
    None         \* SQL NULL, an absent line, an empty reading

ASSUME RulesAssumption ==
    /\ None \notin Vins \union Containers
    /\ Confidence \in [Vins -> [Vins -> {0, 70, 85, 90, 100}]]
    /\ \A v, w \in Vins : Confidence[v][w] = 100 <=> v = w

FuzzyThreshold == 85

(***************************************************************************)
(* A report's lines.  UNIQUE (report_id, vin) makes a line the same thing  *)
(* as its VIN within one report: lines[v] is the container v is assigned   *)
(* to, None when the report does not list v.                               *)
(***************************************************************************)
Lines == [Vins -> Containers \union {None}]
NoLines == [v \in Vins |-> None]
Listed(lines) == {v \in Vins : lines[v] # None}
LinesFor(container, lines) == {v \in Vins : lines[v] = container}

Outcomes ==
    {"PENDING", "EXPIRED_REPORT", "DUPLICATE_VIN", "CONTAINER_NOT_IN_REPORT",
     "MATCH", "WRONG_CONTAINER", "CONTAINER_FULL", "VIN_NOT_IN_REPORT"}

(***************************************************************************)
(* The line a reading stands for among the lines vs, or None.  The single  *)
(* best candidate wins when it clears the threshold; a tie is never broken *)
(* by guessing.  An exact hit scores 100, which nothing can tie with.      *)
(***************************************************************************)
BestFits(vin, vs) ==
    {v \in vs : \A w \in vs : Confidence[vin][v] >= Confidence[vin][w]}

\* Mutant: a tie between two equally good lines is broken by picking one.
FindVinLine_TieBroken(vin, vs) ==
    LET fits == {v \in BestFits(vin, vs) : Confidence[vin][v] >= FuzzyThreshold}
    IN  IF fits = {} THEN None ELSE CHOOSE v \in fits : TRUE

FindVinLine(vin, vs) ==
    LET fits == {v \in BestFits(vin, vs) :
                    /\ Confidence[vin][v] >= FuzzyThreshold
                    /\ BestFits(vin, vs) = {v}}
    IN  IF fits = {} THEN None ELSE CHOOSE v \in fits : TRUE

Remaining(container, lines, loaded) == LinesFor(container, lines) \ loaded

\* Mutant: the vehicle just matched is not counted as loaded.
ProgressFor_Late(container, lines, loaded, justLoaded) ==
    [loaded   |-> Cardinality(LinesFor(container, lines) \intersect loaded),
     expected |-> Cardinality(LinesFor(container, lines)),
     remaining |-> Remaining(container, lines, loaded)]

ProgressFor(container, lines, loaded, justLoaded) ==
    LET done == loaded \union ({justLoaded} \ {None})
    IN  [loaded   |-> Cardinality(LinesFor(container, lines) \intersect done),
         expected |-> Cardinality(LinesFor(container, lines)),
         remaining |-> Remaining(container, lines, done)]

\* The server's own test for "every vehicle of this container is aboard".
IsContainerComplete(container, lines, loaded) ==
    /\ LinesFor(container, lines) # {}
    /\ LinesFor(container, lines) \subseteq loaded

(***************************************************************************)
(* The verdict: its outcome, the line it matched (MATCH) and the line it   *)
(* names as the right one (WRONG_CONTAINER).  First hit wins.              *)
(***************************************************************************)
Verdict(outcome, line, expected) ==
    [outcome |-> outcome, line |-> line, expected |-> expected]

Verdicts == [outcome : Outcomes,
             line : Vins \union {None}, expected : Vins \union {None}]

\* Mutant: the search for the right container runs before the duplicate check.
Reconcile_DuplicateLast(container, vin, lines, loaded, expired) ==
    LET inContainer == FindVinLine(vin, LinesFor(container, lines))
        elsewhere   == FindVinLine(vin, Listed(lines))
    IN  IF container = None \/ vin = None THEN Verdict("PENDING", None, None)
        ELSE IF expired THEN Verdict("EXPIRED_REPORT", None, None)
        ELSE IF LinesFor(container, lines) = {}
             THEN Verdict("CONTAINER_NOT_IN_REPORT", None, None)
        ELSE IF inContainer # None THEN Verdict("MATCH", inContainer, None)
        ELSE IF elsewhere # None THEN Verdict("WRONG_CONTAINER", None, elsewhere)
        ELSE IF vin \in loaded THEN Verdict("DUPLICATE_VIN", None, None)
        ELSE IF Remaining(container, lines, loaded) = {}
             THEN Verdict("CONTAINER_FULL", None, None)
        ELSE Verdict("VIN_NOT_IN_REPORT", None, None)

\* Mutant: only lines still to be loaded are candidates for a match.
Reconcile_OpenLinesOnly(container, vin, lines, loaded, expired) ==
    LET inContainer == FindVinLine(vin, Remaining(container, lines, loaded))
        elsewhere   == FindVinLine(vin, Listed(lines))
    IN  IF container = None \/ vin = None THEN Verdict("PENDING", None, None)
        ELSE IF expired THEN Verdict("EXPIRED_REPORT", None, None)
        ELSE IF vin \in loaded THEN Verdict("DUPLICATE_VIN", None, None)
        ELSE IF LinesFor(container, lines) = {}
             THEN Verdict("CONTAINER_NOT_IN_REPORT", None, None)
        ELSE IF inContainer # None THEN Verdict("MATCH", inContainer, None)
        ELSE IF elsewhere # None THEN Verdict("WRONG_CONTAINER", None, elsewhere)
        ELSE IF Remaining(container, lines, loaded) = {}
             THEN Verdict("CONTAINER_FULL", None, None)
        ELSE Verdict("VIN_NOT_IN_REPORT", None, None)

Reconcile(container, vin, lines, loaded, expired) ==
    LET inContainer == FindVinLine(vin, LinesFor(container, lines))
        elsewhere   == FindVinLine(vin, Listed(lines))
    IN  IF container = None \/ vin = None THEN Verdict("PENDING", None, None)
        ELSE IF expired THEN Verdict("EXPIRED_REPORT", None, None)
        ELSE IF vin \in loaded THEN Verdict("DUPLICATE_VIN", None, None)
        ELSE IF LinesFor(container, lines) = {}
             THEN Verdict("CONTAINER_NOT_IN_REPORT", None, None)
        ELSE IF inContainer # None THEN Verdict("MATCH", inContainer, None)
        ELSE IF elsewhere # None THEN Verdict("WRONG_CONTAINER", None, elsewhere)
        ELSE IF Remaining(container, lines, loaded) = {}
             THEN Verdict("CONTAINER_FULL", None, None)
        ELSE Verdict("VIN_NOT_IN_REPORT", None, None)
=============================================================================
