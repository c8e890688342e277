---------------------------- MODULE LoadingBoard ----------------------------
(***************************************************************************)
(* What the reconciliation server promises, without requests, retries,     *)
(* mails, crashes or versions: a board on which reports are pinned, every  *)
(* scan session gets one verdict for good, a vehicle line is crossed off   *)
(* once, and a container is declared complete once, with every line of it  *)
(* crossed off.                                                            *)
(***************************************************************************)
EXTENDS ReconRules, Sequences

CONSTANT Sessions

VARIABLES
    manifests,  \* the reports' line tables, in the order published
    verdict,    \* the outcome each session got, None before
    loaded,     \* <<report, vin>> crossed off
    sealed      \* <<report, container>> declared complete

board == <<manifests, verdict, loaded, sealed>>

Init ==
    /\ manifests = <<>>
    /\ verdict = [s \in Sessions |-> None]
    /\ loaded = {}
    /\ sealed = {}

Publish ==
    /\ Len(manifests') = Len(manifests) + 1
    /\ \E lines \in Lines : manifests' = Append(manifests, lines)
    /\ UNCHANGED <<verdict, loaded, sealed>>

Refuse(s) ==
    /\ \E outcome \in Outcomes \ {"MATCH"} :
          verdict' = [verdict EXCEPT ![s] = outcome]
    /\ UNCHANGED <<manifests, loaded, sealed>>

Load(s) ==
    /\ verdict' = [verdict EXCEPT ![s] = "MATCH"]
    /\ \E r \in 1..Len(manifests) : \E v \in Listed(manifests[r]) :
          /\ <<r, v>> \notin loaded
          /\ loaded' = loaded \union {<<r, v>>}
    /\ UNCHANGED <<manifests, sealed>>

Seal(r, c) ==
    /\ LinesFor(c, manifests[r]) # {}
    /\ \A v \in LinesFor(c, manifests[r]) : <<r, v>> \in loaded
    /\ sealed' = sealed \union {<<r, c>>}
    /\ UNCHANGED <<manifests, verdict, loaded>>

Next ==
    \/ Publish
    \/ \E s \in Sessions : verdict[s] = None /\ (Refuse(s) \/ Load(s))
    \/ \E r \in 1..Len(manifests), c \in Containers :
          <<r, c>> \notin sealed /\ Seal(r, c)

Spec == Init /\ [][Next]_board
=============================================================================
