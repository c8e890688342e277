----------------------------- MODULE ReconTable -----------------------------
(***************************************************************************)
(* Every question the rules engine can be asked over a small yard: any     *)
(* report, any set of vehicles taken to be loaded, any pairing.  Judge is  *)
(* one call of reconcile(); the properties relate its answer to the answer *)
(* another caller (a stale phone, the API, a second scan) would get.       *)
(***************************************************************************)
EXTENDS ReconRules

\* Progress counts lines: the VINs of one report and of the scans made against
\* it are finitely many.
ASSUME YardAssumption == IsFiniteSet(Vins)

VARIABLES
    lines,    \* the report judged against
    asked,    \* the arguments of the call, None before it
    verdict   \* what it returned

vars == <<lines, asked, verdict>>

Questions == [container : Containers \union {None}, vin : Vins \union {None},
              loaded : SUBSET Vins, expired : BOOLEAN]

Init ==
    /\ lines \in Lines
    /\ asked = None
    /\ verdict = None

Judge(q) ==
    /\ asked = None
    /\ asked' = q
    /\ verdict' = Reconcile(q.container, q.vin, lines, q.loaded, q.expired)
    /\ UNCHANGED lines

Next == \E q \in Questions : Judge(q)

Spec == Init /\ [][Next]_vars

Matched == asked # None /\ verdict.outcome = "MATCH"

(***************************************************************************)
(* A pass names one line of the scanned container that the reading fits    *)
(* well enough, and no other line of that container fits as well: "an      *)
(* ambiguous fuzzy match must never be auto-resolved" (reconcile.ts).      *)
(***************************************************************************)
MatchIsUnambiguous ==
    Matched =>
        /\ lines[verdict.line] = asked.container
        /\ Confidence[asked.vin][verdict.line] >= FuzzyThreshold
        /\ \A v \in LinesFor(asked.container, lines) \ {verdict.line} :
              Confidence[asked.vin][v] < Confidence[asked.vin][verdict.line]

(***************************************************************************)
(* The officer's "n of n loaded" (progressFor, inside reconcile) and the   *)
(* API's "container complete" e-mail (isContainerComplete, after it) are   *)
(* computed by two functions; after a pass they agree on whether anything  *)
(* is still to be loaded.                                                  *)
(***************************************************************************)
ProgressAgreesWithComplete ==
    Matched =>
        LET p == ProgressFor(asked.container, lines, asked.loaded, verdict.line)
        IN  /\ p.remaining = {} <=>
                 IsContainerComplete(asked.container, lines,
                                     asked.loaded \union {verdict.line})
            /\ p.loaded + Cardinality(p.remaining) = p.expected

(***************************************************************************)
(* A phone whose loaded set lags behind the server's can only be too       *)
(* optimistic: where the two verdicts on one pairing differ, the server's  *)
(* is a block that knowing of more loaded vehicles explains, and whatever  *)
(* the server passes the stale phone passed too, on the same line.         *)
(***************************************************************************)
StaleLoadedIsOptimistic ==
    asked # None =>
        \A known \in SUBSET asked.loaded :
            \/ verdict.outcome \in {"DUPLICATE_VIN", "CONTAINER_FULL"}
            \/ Reconcile(asked.container, asked.vin, lines, known, asked.expired)
                 = verdict

(***************************************************************************)
(* Once an exactly read vehicle has been passed and recorded, scanning it  *)
(* again against any container of the report is reported as a duplicate    *)
(* (or the container is not on the report at all), never as a pass.        *)
(***************************************************************************)
ExactRescanIsCaught ==
    Matched /\ verdict.line = asked.vin =>
        \A c \in Containers :
            Reconcile(c, asked.vin, lines, asked.loaded \union {verdict.line},
                      FALSE).outcome = "DUPLICATE_VIN"
=============================================================================
