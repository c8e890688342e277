------------------------------ MODULE Dossier -------------------------------
(***************************************************************************)
(* The container dossier (documents.ts, buildDossier): which vehicles of a *)
(* container the office is told are aboard, put together from the active   *)
(* reports and the newest verdict on each vehicle.  It keeps no state of   *)
(* its own; what it says is compared with what the gate's own test for a   *)
(* complete container says.  Photographs and paperwork are left out.       *)
(***************************************************************************)
EXTENDS SyncServer

Active == {r \in 1..Len(reports) : reports[r].status = "active"}

\* The vehicles due in a container, on whichever active report.
Vehicles(c) == UNION {LinesFor(c, LinesOf(r)) : r \in Active}

\* Mutant: a supervisor's override counts as the newest verdict.
VerdictRows_Overrides(v) == {i \in 1..Len(recon) : recon[i].vin = v}

VerdictRows(v) == {i \in 1..Len(recon) : recon[i].vin = v /\ recon[i].supersedes = 0}

\* "The live verdict for this vehicle": the newest, from any report.
ShownAsMatch(v) ==
    \E i \in VerdictRows(v) :
        (\A j \in VerdictRows(v) : j <= i) /\ recon[i].outcome = "MATCH"

DossierLoaded(c) == {v \in Vehicles(c) : ShownAsMatch(v)}

DossierComplete(c) == Vehicles(c) # {} /\ DossierLoaded(c) = Vehicles(c)

-----------------------------------------------------------------------------
(***************************************************************************)
(* While there is one active report and every verdict was given on it, the *)
(* dossier never calls a container complete before the gate does: each     *)
(* vehicle due carries a live match of that report, overrides and repeated *)
(* scans notwithstanding.                                                  *)
(***************************************************************************)
OneReportUsed(r) ==
    Active = {r} /\ \A i \in 1..Len(recon) : recon[i].report \in {0, r}

DossierNeverEarly ==
    \A r \in Active, c \in Containers :
        OneReportUsed(r) /\ DossierComplete(c) =>
            IsContainerComplete(c, LinesOf(r), LoadedVinsFor(r))
=============================================================================
