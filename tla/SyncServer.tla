----------------------------- MODULE SyncServer -----------------------------
(***************************************************************************)
(* The API's authoritative side: pickup reports and their amendments, the  *)
(* scan sessions phones upload (POST /v1/sync/scans), the reconciliation   *)
(* each one gets, supervisor overrides, and the e-mails they raise.        *)
(*                                                                         *)
(* The API is one Node process over SQLite.  The code between two awaits   *)
(* runs without interleaving, so one such section is one action; a request *)
(* in flight is a Handler, whose state says which await it is parked on.   *)
(* Every statement commits by itself (only commitReport opens a            *)
(* transaction), so a crash may fall between two statements of a section:  *)
(* the Crash... actions leave the rows written so far and no handler.      *)
(*                                                                         *)
(* A phone uploads the same session until it is told the server has it, so *)
(* an upload may arrive again at any time, also while the first is being   *)
(* handled.  One request carries a batch of sessions, handled in a loop    *)
(* one after the other: a Handler here is one turn of that loop.           *)
(***************************************************************************)
EXTENDS ReconRules, Sequences

CONSTANTS
    Sessions,      \* client-generated session ids
    Handlers,      \* requests that can be in flight at once
    Locations,     \* gates and yards
    Assigned,      \* locations the officers may act at
    References,    \* the delivery orders' report reference numbers
    Deliveries,    \* reports an admin may commit: reference, location, lines
    Payloads,      \* what a session may carry
    Subscribed,    \* events somebody is configured to be mailed about
    MaxCrashes,    \* bound: process crashes
    MaxEvents      \* bound: commits, expiries, overrides and crashes together

PayloadType ==
    [location : Locations,
     container : Containers \union {None}, vin : Vins \union {None},
     paired : BOOLEAN,      \* has both a container and a VIN scan
     device : Outcomes]     \* the verdict the phone showed

ASSUME ServerAssumption ==
    /\ None \notin Sessions \union PayloadType
    /\ Assigned \subseteq Locations
    /\ Deliveries \subseteq [ref : References, location : Locations, lines : Lines]
    /\ Payloads \subseteq PayloadType
    /\ {MaxCrashes, MaxEvents} \subseteq Nat

VARIABLES
    reports,    \* pickup_reports, in the order committed
    expired,    \* indices of reports whose validity has ended
    payload,    \* what each session carries, None until it first arrives
    sessions,   \* scan_sessions: ids with a row
    recon,      \* reconciliations, in the order inserted
    notes,      \* notifications, in the order inserted
    presigned,  \* sessions whose images are declared and have upload URLs
    handler,    \* requests in flight
    answered,   \* statuses the server has computed for each session
    crashes

vars == <<reports, expired, payload, sessions, recon, notes, presigned,
          handler, answered, crashes>>

Events == Outcomes \union {"OVERRIDE_APPLIED", "CONTAINER_COMPLETE"}
HighPriority == {"WRONG_CONTAINER", "DUPLICATE_VIN", "CONTAINER_FULL",
                 "OVERRIDE_APPLIED", "EXPIRED_REPORT"}
NoteStatus == {"queued", "sent", "failed", "skipped", "batched"}
Statuses == {"accepted", "duplicate", "incomplete", "failed", "rejected"}

ReportRow == [ref : References, version : Nat \ {0}, location : Locations,
              status : {"active", "superseded"}, lines : Lines]

ReconRow == [session : Sessions, report : Nat, line : Vins \union {None},
             container : Containers \union {None}, vin : Vins \union {None},
             outcome : Outcomes, differs : BOOLEAN,
             overridden : BOOLEAN, supersedes : Nat]

NoteRow == [recon : Nat, event : Events, location : Locations \union {None},
            status : NoteStatus]

HandlerState ==
    [at : {"idle", "verdictMail", "sealMail", "presign", "overrideMail"},
     recon : Nat,              \* the row this request inserted
     note : Nat,               \* the notification it is sending
     snapshot : SUBSET Vins]   \* loadedVins as read before that row

Idle == [at |-> "idle", recon |-> 0, note |-> 0, snapshot |-> {}]

Busy(h) == handler[h].at # "idle"

TypeOK ==
    /\ reports \in Seq(ReportRow)
    /\ expired \subseteq 1..Len(reports)
    /\ payload \in [Sessions -> PayloadType \union {None}]
    /\ sessions \subseteq Sessions
    /\ recon \in Seq(ReconRow)
    /\ notes \in Seq(NoteRow)
    /\ presigned \subseteq Sessions
    /\ handler \in [Handlers -> HandlerState]
    /\ answered \in [Sessions -> SUBSET Statuses]
    /\ crashes \in 0..MaxCrashes

Init ==
    /\ reports = <<>>
    /\ expired = {}
    /\ payload = [s \in Sessions |-> None]
    /\ sessions = {}
    /\ recon = <<>>
    /\ notes = <<>>
    /\ presigned = {}
    /\ handler = [h \in Handlers |-> Idle]
    /\ answered = [s \in Sessions |-> {}]
    /\ crashes = 0

Overrides == {i \in 1..Len(recon) : recon[i].overridden}

\* Everything but uploads is bounded, by one common budget.
EventLeft ==
    Len(reports) + Cardinality(expired) + Cardinality(Overrides) + crashes < MaxEvents

-----------------------------------------------------------------------------
(***************************************************************************)
(* Reports: POST /v1/admin/reports/commit, commitReport.                   *)
(***************************************************************************)

\* The newest version committed under a reference, 0 when there is none.
LatestVersion(ref) ==
    {i \in 1..Len(reports) :
        /\ reports[i].ref = ref
        /\ \A j \in 1..Len(reports) :
              reports[j].ref = ref => reports[j].version <= reports[i].version}

Previous(ref) ==
    IF LatestVersion(ref) = {} THEN 0 ELSE CHOOSE i \in LatestVersion(ref) : TRUE

Superseded(i) ==
    [j \in 1..Len(reports) |->
        IF j = i THEN [reports[j] EXCEPT !.status = "superseded"] ELSE reports[j]]

\* Mutant: an amendment leaves the version it replaces active.
CommitReport_KeepsOld(d) ==
    LET previous == Previous(d.ref)
    IN  /\ EventLeft
        /\ Listed(d.lines) # {}
        /\ reports' = Append(reports,
               [ref |-> d.ref, location |-> d.location, status |-> "active",
                version |-> IF previous = 0 THEN 1 ELSE reports[previous].version + 1,
                lines |-> d.lines])
        /\ UNCHANGED <<expired, payload, sessions, recon, notes, presigned,
                       handler, answered, crashes>>

CommitReport(d) ==
    LET previous == Previous(d.ref)
    IN  /\ EventLeft
        /\ Listed(d.lines) # {}   \* a report with no valid rows is refused
        /\ reports' = Append(Superseded(previous),
               [ref |-> d.ref, location |-> d.location, status |-> "active",
                version |-> IF previous = 0 THEN 1 ELSE reports[previous].version + 1,
                lines |-> d.lines])
        /\ UNCHANGED <<expired, payload, sessions, recon, notes, presigned,
                       handler, answered, crashes>>

\* The clock passes the end of a report's last valid day.
ReportExpires(r) ==
    /\ EventLeft
    /\ r \in 1..Len(reports) \ expired
    /\ expired' = expired \union {r}
    /\ UNCHANGED <<reports, payload, sessions, recon, notes, presigned,
                   handler, answered, crashes>>

-----------------------------------------------------------------------------
(***************************************************************************)
(* Judging a session: submitReconciliation up to its first await.          *)
(***************************************************************************)

\* ORDER BY version DESC LIMIT 1: any of the highest, 0 when there is none.
LoadActiveReport(location) ==
    LET active == {i \in 1..Len(reports) :
                      /\ reports[i].location = location
                      /\ reports[i].status = "active"}
    IN  IF active = {} THEN {0}
        ELSE {i \in active :
                 \A j \in active : reports[j].version <= reports[i].version}

LinesOf(r) == IF r = 0 THEN NoLines ELSE reports[r].lines

\* The rows the partial unique index idx_recon_one_live_match covers.
LiveMatch(row) ==
    /\ row.outcome = "MATCH"
    /\ row.supersedes = 0
    /\ ~row.overridden

\* Mutant: the set of loaded vehicles is read as empty (a stale read).
LoadedVinsFor_Stale(r) == {}

LoadedVinsFor(r) ==
    {recon[i].vin : i \in {j \in 1..Len(recon) :
                              LiveMatch(recon[j]) /\ recon[j].report = r}}

VerdictOn(p, r) ==
    Reconcile(p.container, p.vin, LinesOf(r), LoadedVinsFor(r), r \in expired)

SubmittedRow(s, p, r) ==
    LET v == VerdictOn(p, r)
        matched == v.line # None
    IN  [session |-> s, report |-> r, line |-> v.line,
         container |-> IF matched THEN LinesOf(r)[v.line] ELSE p.container,
         vin |-> IF matched THEN v.line ELSE p.vin,
         outcome |-> v.outcome, differs |-> p.device # v.outcome,
         overridden |-> FALSE, supersedes |-> 0]

\* Mutant: the unique index is missing.
IndexRefuses_Never(row) == FALSE

\* Mutant: the index forgets which report a line belongs to.
IndexRefuses_AcrossReports(row) ==
    /\ row.line # None
    /\ \E i \in 1..Len(recon) : LiveMatch(recon[i]) /\ recon[i].line = row.line

\* INSERT fails: the line already carries a live MATCH.
IndexRefuses(row) ==
    /\ row.line # None
    /\ LiveMatch(row)
    /\ \E i \in 1..Len(recon) :
          /\ LiveMatch(recon[i])
          /\ recon[i].report = row.report
          /\ recon[i].line = row.line

(***************************************************************************)
(* sendNotification up to sendMail: how the new row may come out.  Whether *)
(* an earlier mail of the same kind is inside the 15-minute window is left *)
(* open; that there was one is not.                                        *)
(***************************************************************************)
WithinCooldown(event, location) ==
    \E i \in 1..Len(notes) :
        /\ notes[i].event = event
        /\ notes[i].location = location
        /\ notes[i].status \in {"sent", "failed"}

Queueable(event, location) ==
    IF event \notin Subscribed THEN {"skipped"}
    ELSE {"queued"} \union
         (IF event \notin HighPriority /\ WithinCooldown(event, location)
          THEN {"batched"} ELSE {})

NewNote(row, event, location) ==
    {[recon |-> row, event |-> event, location |-> location, status |-> st] :
        st \in Queueable(event, location)}

\* The await on sendMail is over: a queued row becomes sent or failed.
Settled(n) ==
    IF notes[n].status = "queued"
    THEN {[notes EXCEPT ![n].status = st] : st \in {"sent", "failed"}}
    ELSE {notes}
-----------------------------------------------------------------------------
(***************************************************************************)
(* POST /v1/sync/scans, one session of the batch.                          *)
(***************************************************************************)

\* A session's content is fixed on the phone before its first upload.
Carries(s, p) == payload[s] \in {None, p}

Answer(s, st) == answered' = [answered EXCEPT ![s] = @ \union {st}]

UploadRejected(s, p) ==
    /\ p.location \notin Assigned
    /\ payload' = [payload EXCEPT ![s] = p]
    /\ Answer(s, "rejected")
    /\ UNCHANGED <<reports, expired, sessions, recon, notes, presigned, handler,
                   crashes>>

\* The session row exists: answered from whatever was recorded for it.
UploadDuplicate(s, p) ==
    /\ p.location \in Assigned
    /\ s \in sessions
    /\ Answer(s, "duplicate")
    /\ UNCHANGED <<reports, expired, payload, sessions, recon, notes, presigned,
                   handler, crashes>>

\* Mutant: the lookup of an existing session is missing.
NewSession_Unchecked(s, p) ==
    /\ p.location \in Assigned
    /\ payload' = [payload EXCEPT ![s] = p]
    /\ sessions' = sessions \union {s}

NewSession(s, p) ==
    /\ p.location \in Assigned
    /\ s \notin sessions
    /\ payload' = [payload EXCEPT ![s] = p]
    /\ sessions' = sessions \union {s}

UploadIncomplete(s, p) ==
    /\ NewSession(s, p)
    /\ ~p.paired
    /\ Answer(s, "incomplete")
    /\ UNCHANGED <<reports, expired, recon, notes, presigned, handler, crashes>>

\* The session and scan rows are in, the reconciliation's INSERT throws.
UploadConflict(s, p) ==
    /\ NewSession(s, p)
    /\ p.paired
    /\ \E r \in LoadActiveReport(p.location) : IndexRefuses(SubmittedRow(s, p, r))
    /\ Answer(s, "failed")
    /\ UNCHANGED <<reports, expired, recon, notes, presigned, handler, crashes>>

\* Up to the await on the verdict's e-mail.
UploadJudged(h, s, p) ==
    /\ ~Busy(h)
    /\ NewSession(s, p)
    /\ p.paired
    /\ \E r \in LoadActiveReport(p.location) :
          LET row == SubmittedRow(s, p, r)
          IN  /\ ~IndexRefuses(row)
              /\ recon' = Append(recon, row)
              /\ \E n \in NewNote(Len(recon) + 1, row.outcome, p.location) :
                    notes' = Append(notes, n)
              /\ handler' = [handler EXCEPT ![h] =
                     [at |-> "verdictMail", recon |-> Len(recon) + 1,
                      note |-> Len(notes) + 1, snapshot |-> LoadedVinsFor(r)]]
    /\ UNCHANGED <<reports, expired, presigned, answered, crashes>>

(***************************************************************************)
(* The rest of submitReconciliation: the container is announced complete   *)
(* on the loaded set read before the await, plus the vehicle just matched. *)
(***************************************************************************)
\* Mutant: completeness is asked of the loaded set as it is after the await.
Completes_Reread(h) ==
    LET row == recon[handler[h].recon]
    IN  /\ row.outcome = "MATCH"
        /\ IsContainerComplete(payload[row.session].container, LinesOf(row.report),
                               LoadedVinsFor(row.report))

Completes(h) ==
    LET row == recon[handler[h].recon]
    IN  /\ row.outcome = "MATCH"
        /\ IsContainerComplete(payload[row.session].container, LinesOf(row.report),
                               handler[h].snapshot \union {row.line})

\* Mutant: the mail is fired without recording what became of it.
VerdictMailed_Unrecorded(h) ==
    /\ handler[h].at = "verdictMail"
    /\ ~Completes(h)
    /\ handler' = [handler EXCEPT ![h].at = "presign"]
    /\ UNCHANGED <<reports, expired, payload, sessions, recon, notes, presigned,
                   answered, crashes>>

VerdictMailed(h) ==
    /\ handler[h].at = "verdictMail"
    /\ ~Completes(h)
    /\ notes' \in Settled(handler[h].note)
    /\ handler' = [handler EXCEPT ![h].at = "presign"]
    /\ UNCHANGED <<reports, expired, payload, sessions, recon, presigned,
                   answered, crashes>>

ContainerSealed(h) ==
    LET row == recon[handler[h].recon]
        location == payload[row.session].location
    IN  /\ handler[h].at = "verdictMail"
        /\ Completes(h)
        /\ \E settled \in Settled(handler[h].note),
              n \in NewNote(handler[h].recon, "CONTAINER_COMPLETE", location) :
              notes' = Append(settled, n)
        /\ handler' = [handler EXCEPT ![h] =
               [at |-> "sealMail", recon |-> handler[h].recon,
                note |-> Len(notes) + 1, snapshot |-> handler[h].snapshot]]
        /\ UNCHANGED <<reports, expired, payload, sessions, recon, presigned,
                       answered, crashes>>

\* Mutant: the request resumes only when a mail really went out.
SealMailed_OnlySent(h) ==
    /\ handler[h].at = "sealMail"
    /\ notes[handler[h].note].status = "queued"
    /\ notes' \in Settled(handler[h].note)
    /\ handler' = [handler EXCEPT ![h].at = "presign"]
    /\ UNCHANGED <<reports, expired, payload, sessions, recon, presigned,
                   answered, crashes>>

SealMailed(h) ==
    /\ handler[h].at = "sealMail"
    /\ notes' \in Settled(handler[h].note)
    /\ handler' = [handler EXCEPT ![h].at = "presign"]
    /\ UNCHANGED <<reports, expired, payload, sessions, recon, presigned,
                   answered, crashes>>

\* Upload URLs for the session's images, then the answer.
Accept(h) ==
    LET s == recon[handler[h].recon].session
    IN  /\ handler[h].at = "presign"
        /\ presigned' = presigned \union {s}
        /\ Answer(s, "accepted")
        /\ handler' = [handler EXCEPT ![h] = Idle]
        /\ UNCHANGED <<reports, expired, payload, sessions, recon, notes, crashes>>

-----------------------------------------------------------------------------
(***************************************************************************)
(* POST /v1/reconciliations/:id/override.                                  *)
(***************************************************************************)
\* Mutant: an override is recorded as an ordinary live MATCH.
OverrideRow_Live(i) == [recon[i] EXCEPT !.outcome = "MATCH", !.differs = FALSE]

OverrideRow(i) == [recon[i] EXCEPT !.outcome = "MATCH", !.overridden = TRUE,
                                   !.supersedes = i, !.differs = FALSE]

Override(h, i) ==
    /\ ~Busy(h)
    /\ i \in 1..Len(recon)
    /\ EventLeft
    /\ recon' = Append(recon, OverrideRow(i))
    /\ \E n \in NewNote(Len(recon) + 1, "OVERRIDE_APPLIED", None) :
          notes' = Append(notes, n)
    /\ handler' = [handler EXCEPT ![h] =
           [at |-> "overrideMail", recon |-> Len(recon) + 1,
            note |-> Len(notes) + 1, snapshot |-> {}]]
    /\ UNCHANGED <<reports, expired, payload, sessions, presigned, answered, crashes>>

OverrideMailed(h) ==
    /\ handler[h].at = "overrideMail"
    /\ notes' \in Settled(handler[h].note)
    /\ handler' = [handler EXCEPT ![h] = Idle]
    /\ UNCHANGED <<reports, expired, payload, sessions, recon, presigned,
                   answered, crashes>>

-----------------------------------------------------------------------------
(***************************************************************************)
(* Crashes: the process dies and comes back with the database as it was.   *)
(***************************************************************************)
Restart ==
    /\ EventLeft
    /\ crashes < MaxCrashes
    /\ crashes' = crashes + 1
    /\ handler' = [h \in Handlers |-> Idle]

\* While requests are parked on an await.
Crash ==
    /\ Restart
    /\ \E h \in Handlers : Busy(h)
    /\ UNCHANGED <<reports, expired, payload, sessions, recon, notes, presigned,
                   answered>>

\* After the session's rows, before its reconciliation.
CrashAfterSession(s, p) ==
    /\ Restart
    /\ NewSession(s, p)
    /\ UNCHANGED <<reports, expired, recon, notes, presigned, answered>>

\* After the reconciliation, before the row of its notification.
CrashAfterVerdict(s, p) ==
    /\ Restart
    /\ NewSession(s, p)
    /\ p.paired
    /\ \E r \in LoadActiveReport(p.location) :
          /\ ~IndexRefuses(SubmittedRow(s, p, r))
          /\ recon' = Append(recon, SubmittedRow(s, p, r))
    /\ UNCHANGED <<reports, expired, notes, presigned, answered>>

CrashAfterOverride(i) ==
    /\ Restart
    /\ recon' = Append(recon, OverrideRow(i))
    /\ UNCHANGED <<reports, expired, payload, sessions, notes, presigned, answered>>

\* After the outcome of a mail is recorded, before what the request does next.
CrashAfterMail(h) ==
    /\ Restart
    /\ handler[h].at \in {"verdictMail", "sealMail", "overrideMail"}
    /\ notes' \in Settled(handler[h].note)
    /\ UNCHANGED <<reports, expired, payload, sessions, recon, presigned, answered>>

\* After the images are declared, before the answer is written.
CrashAfterPresign(h) ==
    /\ Restart
    /\ handler[h].at = "presign"
    /\ presigned' = presigned \union {recon[handler[h].recon].session}
    /\ UNCHANGED <<reports, expired, payload, sessions, recon, notes, answered>>

-----------------------------------------------------------------------------
Upload(s, p) ==
    /\ Carries(s, p)
    /\ \/ UploadRejected(s, p)
       \/ UploadDuplicate(s, p)
       \/ UploadIncomplete(s, p)
       \/ UploadConflict(s, p)
       \/ \E h \in Handlers : UploadJudged(h, s, p)
       \/ CrashAfterSession(s, p)
       \/ CrashAfterVerdict(s, p)

Proceed(h) ==
    \/ VerdictMailed(h)
    \/ ContainerSealed(h)
    \/ SealMailed(h)
    \/ Accept(h)
    \/ OverrideMailed(h)

Next ==
    \/ \E d \in Deliveries : CommitReport(d)
    \/ \E r \in 1..Len(reports) : ReportExpires(r)
    \/ \E s \in Sessions, p \in Payloads : Upload(s, p)
    \/ \E h \in Handlers : Proceed(h)
    \/ \E h \in Handlers, i \in 1..Len(recon) : Override(h, i)
    \/ Crash
    \/ \E i \in 1..Len(recon) : CrashAfterOverride(i)
    \/ \E h \in Handlers : CrashAfterMail(h) \/ CrashAfterPresign(h)

Spec == Init /\ [][Next]_vars

\* sendMail and the local presign settle; Node runs what they unblock.
FairSpec == Spec /\ \A h \in Handlers : WF_vars(Proceed(h))
-----------------------------------------------------------------------------
(***************************************************************************)
(* Safety.                                                                 *)
(***************************************************************************)
Originals == {i \in 1..Len(recon) : recon[i].supersedes = 0}
VerdictsOf(s) == {i \in Originals : recon[i].session = s}

(***************************************************************************)
(* However often a session is uploaded, concurrently, again after a crash  *)
(* or again after an answer, it is judged at most once (server.ts: "a      *)
(* retry must not create a second reconciliation").                        *)
(***************************************************************************)
OneVerdictPerSession ==
    \A i, j \in Originals : recon[i].session = recon[j].session => i = j

(***************************************************************************)
(* A report line is matched by at most one row that counts, also when a    *)
(* misread VIN fits a line that is loaded already and so slips past the    *)
(* duplicate check.                                                        *)
(***************************************************************************)
OneLiveMatchPerLine ==
    \A i, j \in 1..Len(recon) :
        /\ LiveMatch(recon[i]) /\ LiveMatch(recon[j])
        /\ recon[i].report = recon[j].report
        /\ recon[i].line = recon[j].line
        => i = j

(***************************************************************************)
(* The log of verdicts can be replayed: every verdict, whatever happened   *)
(* after it (amendments, overrides, expiry, crashes), is what the rules    *)
(* give on the report version it cites and the vehicles matched by the     *)
(* rows before it.  Only an expiry may have come since.                    *)
(***************************************************************************)
LoadedBefore(i) ==
    {recon[j].line : j \in {k \in 1..(i - 1) :
        LiveMatch(recon[k]) /\ recon[k].report = recon[i].report}}

VerdictsReplay ==
    \A i \in Originals :
        LET p == payload[recon[i].session]
            r == recon[i].report
        IN  \E e \in {x \in BOOLEAN : x => r \in expired} :
              LET v == Reconcile(p.container, p.vin, LinesOf(r), LoadedBefore(i), e)
              IN  recon[i].outcome = v.outcome /\ recon[i].line = v.line

(***************************************************************************)
(* Amendments form one chain per reference: versions rise in commit order, *)
(* and exactly the newest one of each reference is active.                 *)
(***************************************************************************)
ActiveIsLatest ==
    \A i, j \in 1..Len(reports) : reports[i].ref = reports[j].ref =>
        /\ i < j => reports[i].version < reports[j].version
        /\ i < j => reports[i].status = "superseded"
        /\ (\A k \in 1..Len(reports) : reports[k].ref = reports[i].ref => k <= i)
             => reports[i].status = "active"

(***************************************************************************)
(* A container is announced complete at most once per report, and only     *)
(* when every vehicle the report lists for it carries a live MATCH; the    *)
(* test runs on a loaded set read before an await.                         *)
(***************************************************************************)
Seals == {n \in 1..Len(notes) : notes[n].event = "CONTAINER_COMPLETE"}

SealedOnceAndTruly ==
    /\ \A n, k \in Seals :
          /\ recon[notes[n].recon].report = recon[notes[k].recon].report
          /\ recon[notes[n].recon].container = recon[notes[k].recon].container
          => n = k
    /\ \A n \in Seals :
          LET row == recon[notes[n].recon]
          IN  LinesFor(row.container, LinesOf(row.report))
                 \subseteq LoadedVinsFor(row.report)

(***************************************************************************)
(* "Metadata is committed and the email has fired. Only now do we hand     *)
(* back upload URLs" (server.ts): a session answered 'accepted' has its    *)
(* verdict, the verdict's mail is past sending, and its images can be      *)
(* delivered.                                                              *)
(***************************************************************************)
AcceptedMeansDelivered ==
    \A s \in Sessions : "accepted" \in answered[s] =>
        /\ s \in presigned
        /\ \E i \in VerdictsOf(s), n \in 1..Len(notes) :
              /\ notes[n].recon = i
              /\ notes[n].event = recon[i].outcome
              /\ notes[n].status # "queued"

(***************************************************************************)
(* A stored session with both scans but no verdict comes from two causes   *)
(* only: a crash in the middle of the upload, or a misread VIN close to a  *)
(* vehicle that is already loaded.  Any exception after the session's row  *)
(* would do it too; of those the statements can throw, a scan id that is   *)
(* there already does not come from the phone, which makes fresh ones      *)
(* (capture.ts).                                                           *)
(***************************************************************************)
Stranded(s) == s \in sessions /\ payload[s].paired /\ VerdictsOf(s) = {}

StrandedOnlyByCrashOrMisread ==
    \A s \in Sessions : Stranded(s) =>
        \/ crashes > 0
        \/ \E i \in Originals :
              /\ LiveMatch(recon[i])
              /\ recon[i].line # payload[s].vin
              /\ Confidence[payload[s].vin][recon[i].line] >= FuzzyThreshold

(***************************************************************************)
(* "'duplicate' means the server already had it — that is success from the *)
(* queue's point of view" (sync.ts): a session with both scans that is     *)
(* answered 'duplicate', which the phone then stops sending, was judged.   *)
(***************************************************************************)
DuplicateMeansJudged ==
    \A s \in Sessions :
        "duplicate" \in answered[s] /\ payload[s].paired => VerdictsOf(s) # {}

(***************************************************************************)
(* Liveness, while the process stays up: a mail that was queued is sent or *)
(* recorded as failed, and every request in flight is answered.            *)
(***************************************************************************)
NotesSettle ==
    [](crashes = 0) =>
        \A n \in 1..(2 * Cardinality(Sessions) + MaxEvents) :
            (n <= Len(notes) /\ notes[n].status = "queued")
                ~> (n <= Len(notes) /\ notes[n].status # "queued")

RequestsFinish == \A h \in Handlers : Busy(h) ~> ~Busy(h)

(***************************************************************************)
(* What the server promises a loading gang: see LoadingBoard.              *)
(***************************************************************************)
Board == INSTANCE LoadingBoard WITH
    manifests <- [i \in 1..Len(reports) |-> reports[i].lines],
    verdict <- [s \in Sessions |->
                  IF VerdictsOf(s) = {} THEN None
                  ELSE recon[CHOOSE i \in VerdictsOf(s) : TRUE].outcome],
    loaded <- {<<recon[i].report, recon[i].line>> :
                  i \in {j \in 1..Len(recon) : LiveMatch(recon[j])}},
    sealed <- {<<recon[notes[n].recon].report, recon[notes[n].recon].container>> :
                  n \in Seals}

ImplementsBoard == Board!Spec
=============================================================================
