-------------------------- MODULE ReconRules_proofs --------------------------
(***************************************************************************)
(* Facts about the rules engine's operators, for every table of VINs,      *)
(* every report and every likeness of readings.                            *)
(***************************************************************************)
EXTENDS ReconRules, TLAPS

\* What findVinLine returns is a line it was given that clears the threshold
\* and beats every other line it was given, or None.
LEMMA FindVinLineFits ==
    ASSUME NEW vin \in Vins, NEW vs \in SUBSET Vins,
           FindVinLine(vin, vs) # None
    PROVE  /\ FindVinLine(vin, vs) \in vs
           /\ Confidence[vin][FindVinLine(vin, vs)] >= FuzzyThreshold
           /\ BestFits(vin, vs) = {FindVinLine(vin, vs)}
<1> DEFINE fits == {v \in BestFits(vin, vs) :
                       /\ Confidence[vin][v] >= FuzzyThreshold
                       /\ BestFits(vin, vs) = {v}}
<1>1. fits # {}
  BY DEF FindVinLine
<1>2. FindVinLine(vin, vs) = CHOOSE v \in fits : TRUE
  BY <1>1 DEF FindVinLine
<1>3. FindVinLine(vin, vs) \in fits
  BY <1>1, <1>2
<1> QED
  BY <1>3 DEF BestFits

\* findVinLine always gives an answer of the right kind.
LEMMA FindVinLineType ==
    ASSUME NEW vin \in Vins, NEW vs \in SUBSET Vins
    PROVE  FindVinLine(vin, vs) \in vs \union {None}
BY FindVinLineFits

\* A line read letter for letter is always found, whatever else resembles it.
LEMMA FindVinLineExact ==
    ASSUME NEW vin \in Vins, NEW vs \in SUBSET Vins, vin \in vs
    PROVE  FindVinLine(vin, vs) = vin
<1> DEFINE fits == {v \in BestFits(vin, vs) :
                       /\ Confidence[vin][v] >= FuzzyThreshold
                       /\ BestFits(vin, vs) = {v}}
<1>1. \A w \in Vins : /\ Confidence[vin][w] \in {0, 70, 85, 90, 100}
                      /\ Confidence[vin][w] = 100 <=> vin = w
  BY RulesAssumption
<1>2. BestFits(vin, vs) = {vin}
  BY <1>1 DEF BestFits
<1>3. fits = {vin}
  BY <1>1, <1>2 DEF FuzzyThreshold
<1> QED
  BY <1>3 DEF FindVinLine

\* The verdict is a MATCH exactly when it carries a line, and the line is one
\* that findVinLine found among the scanned container's.
LEMMA ReconcileMatch ==
    ASSUME NEW c \in Containers \union {None}, NEW vin \in Vins \union {None},
           NEW lines \in Lines, NEW loaded, NEW expired \in BOOLEAN,
           Reconcile(c, vin, lines, loaded, expired).outcome = "MATCH"
    PROVE  /\ c \in Containers
           /\ vin \in Vins
           /\ ~expired
           /\ vin \notin loaded
           /\ LinesFor(c, lines) # {}
           /\ FindVinLine(vin, LinesFor(c, lines)) # None
           /\ Reconcile(c, vin, lines, loaded, expired) =
                Verdict("MATCH", FindVinLine(vin, LinesFor(c, lines)), None)
BY DEF Reconcile, Verdict

\* Conversely, a reading that no earlier rule stops and that fits a line of the
\* scanned container is passed on that line.
LEMMA ReconcileMatches ==
    ASSUME NEW c \in Containers, NEW vin \in Vins, NEW lines \in Lines, NEW loaded,
           vin \notin loaded,
           FindVinLine(vin, LinesFor(c, lines)) # None
    PROVE  Reconcile(c, vin, lines, loaded, FALSE) =
             Verdict("MATCH", FindVinLine(vin, LinesFor(c, lines)), None)
<1>1. c # None /\ vin # None
  BY RulesAssumption
<1>2. FindVinLine(vin, LinesFor(c, lines)) \in LinesFor(c, lines)
  BY FindVinLineFits DEF LinesFor
<1> QED
  BY <1>1, <1>2 DEF Reconcile

\* Every answer is a verdict, and only a pass carries a line.
LEMMA ReconcileType ==
    ASSUME NEW c \in Containers \union {None}, NEW vin \in Vins \union {None},
           NEW lines \in Lines, NEW loaded, NEW expired \in BOOLEAN
    PROVE  LET v == Reconcile(c, vin, lines, loaded, expired)
           IN  /\ v \in Verdicts
               /\ v.outcome = "MATCH" <=> v.line # None
<1> DEFINE v == Reconcile(c, vin, lines, loaded, expired)
           here == FindVinLine(vin, LinesFor(c, lines))
           there == FindVinLine(vin, Listed(lines))
<1>1. vin # None => here \in Vins \union {None} /\ there \in Vins \union {None}
  BY FindVinLineType DEF LinesFor, Listed
<1>2. v \in Verdicts
  BY <1>1 DEF Reconcile, Verdict, Verdicts, Outcomes
<1>3. v.outcome = "MATCH" <=> v.line # None
  BY DEF Reconcile, Verdict
<1> QED
  BY <1>2, <1>3
=============================================================================
