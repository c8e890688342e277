------------------------- MODULE SyncServer_proofs -------------------------
(***************************************************************************)
(* The server's records are consistent for any number of sessions,         *)
(* requests, reports and VINs, and without the bounds of the TLC runs.     *)
(*                                                                         *)
(* TypeOK is not inductive: that a loaded vehicle is a VIN at all, that a  *)
(* parked request knows its row, and that a mail has a location rest on    *)
(* what the rows say of each other.  Consistent adds just that; the safety *)
(* properties are then proved from Consistent and the kinds of step that   *)
(* StepKinds tells apart.                                                  *)
(*                                                                         *)
(* What a request read before an await and uses after it is the matter of  *)
(* MailsFollowVerdicts, behind the sealing of containers and the promise   *)
(* of 'accepted'; the last section shows that the server implements the    *)
(* loading board.                                                          *)
(***************************************************************************)
EXTENDS Dossier, ReconRules_proofs, SequenceTheorems

-----------------------------------------------------------------------------
(***************************************************************************)
(* Lemmas about the operators.                                             *)
(***************************************************************************)

\* What appending an element does, in the terms the proofs below use.
LEMMA AppendFacts ==
    ASSUME NEW S, NEW q \in Seq(S), NEW e \in S
    PROVE  /\ Append(q, e) \in Seq(S)
           /\ Len(q) \in Nat
           /\ Len(Append(q, e)) = Len(q) + 1
           /\ Append(q, e)[Len(q) + 1] = e
           /\ \A i \in 1..Len(q) : Append(q, e)[i] = q[i]
BY AppendProperties, LenProperties

\* The report an amendment replaces is at most a report there is.
LEMMA PreviousType ==
    ASSUME TypeOK, NEW ref
    PROVE  /\ Previous(ref) \in 0..Len(reports)
           /\ Previous(ref) # 0 => Previous(ref) \in LatestVersion(ref)
<1>1. LatestVersion(ref) \subseteq 1..Len(reports)
  BY DEF LatestVersion
<1>2. Len(reports) \in Nat
  BY LenProperties DEF TypeOK
<1> QED
  BY <1>1, <1>2 DEF Previous

\* Superseding changes a report's status and nothing else.
LEMMA SupersededFacts ==
    ASSUME TypeOK, NEW i
    PROVE  /\ Superseded(i) \in Seq(ReportRow)
           /\ Len(Superseded(i)) = Len(reports)
           /\ \A j \in 1..Len(reports) :
                 Superseded(i)[j] =
                   IF j = i THEN [reports[j] EXCEPT !.status = "superseded"]
                   ELSE reports[j]
<1>1. Len(reports) \in Nat /\ \A j \in 1..Len(reports) : reports[j] \in ReportRow
  BY LenProperties, ElementOfSeq DEF TypeOK
<1>2. Superseded(i) \in [1..Len(reports) -> ReportRow]
  BY <1>1 DEF Superseded, ReportRow
<1>3. Superseded(i) \in Seq(ReportRow) /\ Len(Superseded(i)) = Len(reports)
  BY <1>1, <1>2, SeqDef
<1> QED
  BY <1>3 DEF Superseded

\* loadActiveReport answers no report, or one there is.
LEMMA LoadActiveReportType ==
    ASSUME TypeOK, NEW location, NEW r \in LoadActiveReport(location)
    PROVE  /\ r \in 0..Len(reports)
           /\ LinesOf(r) \in Lines
           /\ r = 0 => LinesOf(r) = NoLines
<1>1. Len(reports) \in Nat /\ \A j \in 1..Len(reports) : reports[j] \in ReportRow
  BY LenProperties, ElementOfSeq DEF TypeOK
<1>2. r \in 0..Len(reports)
  BY <1>1 DEF LoadActiveReport
<1>3. NoLines \in Lines
  BY DEF NoLines, Lines
<1> QED
  BY <1>1, <1>2, <1>3 DEF LinesOf, ReportRow

\* A notification row is of the right kind.
LEMMA NewNoteType ==
    ASSUME NEW row \in Nat, NEW event \in Events,
           NEW location \in Locations \union {None},
           NEW n \in NewNote(row, event, location)
    PROVE  /\ n \in NoteRow
           /\ n.recon = row /\ n.event = event
BY DEF NewNote, Queueable, NoteRow, NoteStatus

\* The end of a mail changes the status of its row, and only a queued one's.
LEMMA SettledFacts ==
    ASSUME TypeOK, NEW n \in 1..Len(notes), NEW settled \in Settled(n)
    PROVE  /\ settled \in Seq(NoteRow)
           /\ Len(settled) = Len(notes)
           /\ settled[n].status # "queued"
           /\ \A k \in 1..Len(notes) :
                /\ settled[k].recon = notes[k].recon
                /\ settled[k].event = notes[k].event
                /\ k # n => settled[k] = notes[k]
<1>1. Len(notes) \in Nat /\ notes \in Seq(NoteRow)
      /\ \A k \in 1..Len(notes) : notes[k] \in NoteRow
  BY LenProperties, ElementOfSeq DEF TypeOK
<1>2. CASE notes[n].status = "queued"
  <2>1. PICK st \in {"sent", "failed"} :
             settled = [notes EXCEPT ![n] = [notes[n] EXCEPT !.status = st]]
    BY <1>2 DEF Settled
  <2>2. [notes[n] EXCEPT !.status = st] \in NoteRow
    BY <1>1 DEF NoteRow, NoteStatus
  <2>3. /\ settled \in Seq(NoteRow)
        /\ Len(settled) = Len(notes)
        /\ \A j \in 1 .. Len(notes) :
              settled[j] = IF j = n THEN [notes[n] EXCEPT !.status = st] ELSE notes[j]
    BY <1>1, <2>1, <2>2, ExceptSeq
  <2> QED
    BY <1>1, <2>3 DEF NoteRow
<1>3. CASE notes[n].status # "queued"
  BY <1>1, <1>3 DEF Settled
<1> QED
  BY <1>2, <1>3

-----------------------------------------------------------------------------
(***************************************************************************)
(* Type correctness, with what it rests on.                                *)
(***************************************************************************)

\* A session is stored with what it carries.
SessionsHavePayloads == \A s \in sessions : payload[s] # None

\* A row belongs to a stored session and cites a report there is, or none.
RowsHaveSessions ==
    \A i \in 1..Len(recon) :
        /\ recon[i].session \in sessions
        /\ recon[i].report \in 0..Len(reports)

\* A match that counts names a line of the container it was made at.
MatchesNameLines ==
    \A i \in 1..Len(recon) : LiveMatch(recon[i]) =>
        /\ recon[i].report # 0
        /\ recon[i].line \in Vins
        /\ recon[i].vin = recon[i].line
        /\ recon[i].container \in Containers
        /\ LinesOf(recon[i].report)[recon[i].line] = recon[i].container

\* A parked request has its row and the mail it waits for.
HandlersHaveRows ==
    \A h \in Handlers : Busy(h) =>
        /\ handler[h].recon \in 1..Len(recon)
        /\ handler[h].note \in 1..Len(notes)

Consistent ==
    /\ TypeOK
    /\ SessionsHavePayloads
    /\ RowsHaveSessions
    /\ MatchesNameLines
    /\ HandlersHaveRows

\* The sets and rows the state is made of, element by element.
LEMMA TypeElements ==
    ASSUME TypeOK
    PROVE  /\ Len(reports) \in Nat /\ Len(recon) \in Nat /\ Len(notes) \in Nat
           /\ \A i \in 1..Len(reports) : reports[i] \in ReportRow
           /\ \A i \in 1..Len(recon) : recon[i] \in ReconRow
           /\ \A i \in 1..Len(notes) : notes[i] \in NoteRow
BY LenProperties, ElementOfSeq DEF TypeOK

\* The loaded vehicles are VINs.
LEMMA LoadedVinsType ==
    ASSUME Consistent, NEW r
    PROVE  LoadedVinsFor(r) \subseteq Vins
BY DEF LoadedVinsFor, Consistent, MatchesNameLines

\* What submitReconciliation inserts: a row of the session on the report it was
\* judged on, and, when it is a match, one that names a line of that report
\* which is assigned to the scanned container and not loaded yet under the
\* scanned VIN.
LEMMA SubmittedRowFacts ==
    ASSUME TypeOK, NEW s \in Sessions, NEW p \in Payloads,
           NEW r \in LoadActiveReport(p.location)
    PROVE  LET row == SubmittedRow(s, p, r)
           IN  /\ row \in ReconRow
               /\ row.session = s /\ row.report = r
               /\ row.supersedes = 0 /\ ~row.overridden
               /\ row.outcome = VerdictOn(p, r).outcome
               /\ row.line = VerdictOn(p, r).line
               /\ row.outcome = "MATCH" <=> row.line # None
               /\ LiveMatch(row) <=> row.outcome = "MATCH"
               /\ row.outcome = "MATCH" =>
                    /\ r # 0
                    /\ p.container \in Containers /\ p.vin \in Vins
                    /\ row.line \in Vins /\ row.vin = row.line
                    /\ row.container = p.container
                    /\ LinesOf(r)[row.line] = p.container
                    /\ Confidence[p.vin][row.line] >= FuzzyThreshold
                    /\ p.vin \notin LoadedVinsFor(r)
<1> DEFINE v == VerdictOn(p, r)
           row == SubmittedRow(s, p, r)
<1>1. /\ p \in PayloadType
      /\ p.container \in Containers \union {None}
      /\ p.vin \in Vins \union {None}
      /\ p.device \in Outcomes
  BY ServerAssumption DEF PayloadType
<1>2. r \in Nat /\ LinesOf(r) \in Lines /\ (r = 0 => LinesOf(r) = NoLines)
  BY LoadActiveReportType, TypeElements
<1>3. (r \in expired) \in BOOLEAN
  OBVIOUS
<1>4. v \in Verdicts /\ (v.outcome = "MATCH" <=> v.line # None)
  <2> DEFINE judged(e) == Reconcile(p.container, p.vin, LinesOf(r), LoadedVinsFor(r), e)
  <2>1. ASSUME NEW e \in BOOLEAN
        PROVE  judged(e) \in Verdicts /\ (judged(e).outcome = "MATCH" <=> judged(e).line # None)
    BY <1>1, <1>2, ReconcileType
  <2>2. v = judged(r \in expired)
    BY DEF VerdictOn
  <2> HIDE DEF v, judged
  <2> QED
    BY <1>3, <2>1, <2>2
<1>5. v.outcome = "MATCH" =>
        /\ p.container \in Containers /\ p.vin \in Vins
        /\ p.vin \notin LoadedVinsFor(r)
        /\ LinesFor(p.container, LinesOf(r)) # {}
        /\ v.line \in LinesFor(p.container, LinesOf(r))
        /\ Confidence[p.vin][v.line] >= FuzzyThreshold
  <2> SUFFICES ASSUME v.outcome = "MATCH"
               PROVE  /\ p.container \in Containers /\ p.vin \in Vins
                      /\ p.vin \notin LoadedVinsFor(r)
                      /\ LinesFor(p.container, LinesOf(r)) # {}
                      /\ v.line \in LinesFor(p.container, LinesOf(r))
                      /\ Confidence[p.vin][v.line] >= FuzzyThreshold
    OBVIOUS
  <2> DEFINE vs == LinesFor(p.container, LinesOf(r))
  <2>1. /\ p.container \in Containers /\ p.vin \in Vins
        /\ p.vin \notin LoadedVinsFor(r)
        /\ vs # {}
        /\ FindVinLine(p.vin, vs) # None
        /\ v = Verdict("MATCH", FindVinLine(p.vin, vs), None)
    <3> DEFINE judged(e) == Reconcile(p.container, p.vin, LinesOf(r),
                                      LoadedVinsFor(r), e)
    <3>1. ASSUME NEW e \in BOOLEAN, judged(e).outcome = "MATCH"
          PROVE  /\ p.container \in Containers /\ p.vin \in Vins
                 /\ p.vin \notin LoadedVinsFor(r)
                 /\ vs # {}
                 /\ FindVinLine(p.vin, vs) # None
                 /\ judged(e) = Verdict("MATCH", FindVinLine(p.vin, vs), None)
      BY <1>1, <1>2, <3>1, ReconcileMatch
    <3>2. v = judged(r \in expired)
      BY DEF VerdictOn
    <3> QED
      BY <1>3, <3>1, <3>2
  <2>2. vs \in SUBSET Vins
    BY DEF LinesFor
  <2>3. v.line = FindVinLine(p.vin, vs)
    BY <2>1 DEF Verdict
  <2> QED
    BY <2>1, <2>2, <2>3, FindVinLineFits
<1>6. v.outcome = "MATCH" => v.line \in Vins /\ LinesOf(r)[v.line] = p.container
  BY <1>5 DEF LinesFor
<1>7. v.outcome = "MATCH" => r # 0
  BY <1>2, <1>5, RulesAssumption DEF LinesFor, NoLines
<1>8. /\ row.session = s /\ row.report = r
      /\ row.supersedes = 0 /\ row.overridden = FALSE
      /\ row.outcome = v.outcome /\ row.line = v.line
      /\ row.container = IF v.line # None THEN LinesOf(r)[v.line] ELSE p.container
      /\ row.vin = IF v.line # None THEN v.line ELSE p.vin
  BY DEF SubmittedRow
<1>9. row \in ReconRow
  BY <1>1, <1>2, <1>4, <1>5, <1>6 DEF SubmittedRow, ReconRow, Verdicts
<1>10. LiveMatch(row) <=> row.outcome = "MATCH"
  BY <1>8 DEF LiveMatch
<1> HIDE DEF v, row
<1>11. row.outcome = "MATCH" =>
         /\ row.line \in Vins /\ row.vin = row.line
         /\ row.container = p.container
         /\ LinesOf(r)[row.line] = p.container
         /\ Confidence[p.vin][row.line] >= FuzzyThreshold
  BY <1>4, <1>5, <1>6, <1>8
<1> QED
  BY <1>4, <1>5, <1>7, <1>8, <1>9, <1>10, <1>11 DEF row, v

-----------------------------------------------------------------------------
(***************************************************************************)
(* What a step may do to the reports and to the rows: publish a report,    *)
(* judge a session, override a row, or leave both alone.                   *)
(***************************************************************************)
Judges(s, p, r) ==
    /\ Carries(s, p)
    /\ NewSession(s, p)
    /\ r \in LoadActiveReport(p.location)
    /\ ~IndexRefuses(SubmittedRow(s, p, r))
    /\ recon' = Append(recon, SubmittedRow(s, p, r))
    /\ UNCHANGED <<reports, expired>>

Replaces(i) ==
    /\ i \in 1..Len(recon)
    /\ recon' = Append(recon, OverrideRow(i))
    /\ UNCHANGED <<reports, expired, payload, sessions>>

Publishes(d) ==
    /\ CommitReport(d)
    /\ UNCHANGED <<recon, expired, payload, sessions>>

\* A session, once stored, stays, with what it carries.
SessionsKept ==
    /\ sessions \subseteq sessions'
    /\ payload' \in [Sessions -> PayloadType \union {None}]
    /\ sessions' \subseteq Sessions
    /\ \A s \in Sessions : payload[s] # None => payload'[s] = payload[s]
    /\ \A s \in sessions' \ sessions : payload'[s] # None
    /\ expired \subseteq expired'

\* Storing what an upload carries keeps every session.
LEMMA StoringKeepsSessions ==
    ASSUME TypeOK, NEW s \in Sessions, NEW p \in Payloads, Carries(s, p),
           payload' = [payload EXCEPT ![s] = p],
           sessions' = sessions \union {s} \/ sessions' = sessions,
           expired \subseteq expired'
    PROVE  SessionsKept
<1>1. p \in PayloadType /\ p # None
  BY ServerAssumption
<1> QED
  BY <1>1 DEF TypeOK, SessionsKept, Carries

\* Every step is one of these.
LEMMA StepKinds ==
    ASSUME TypeOK, [Next]_vars
    PROVE  /\ SessionsKept
           /\ \/ \E s \in Sessions, p \in Payloads, r \in 0..Len(reports) : Judges(s, p, r)
              \/ \E i \in 1..Len(recon) : Replaces(i)
              \/ \E d \in Deliveries : Publishes(d)
              \/ UNCHANGED <<reports, recon>>
<1> DEFINE Goal == /\ SessionsKept
                   /\ \/ \E s \in Sessions, p \in Payloads, r \in 0..Len(reports) :
                            Judges(s, p, r)
                      \/ \E i \in 1..Len(recon) : Replaces(i)
                      \/ \E d \in Deliveries : Publishes(d)
                      \/ UNCHANGED <<reports, recon>>
           Same == /\ UNCHANGED <<payload, sessions>>
                   /\ expired \subseteq expired'
<1>1. Same => SessionsKept
  BY DEF TypeOK, SessionsKept
<1>2. ASSUME NEW d \in Deliveries, CommitReport(d) PROVE Goal
  BY <1>1, <1>2 DEF CommitReport, Publishes
<1>3. ASSUME NEW r \in 1..Len(reports), ReportExpires(r) PROVE Goal
  BY <1>1, <1>3 DEF ReportExpires
<1>4. ASSUME NEW s \in Sessions, NEW p \in Payloads, Upload(s, p) PROVE Goal
  <2>1. Carries(s, p)
    BY <1>4 DEF Upload
  <2>2. CASE UploadRejected(s, p)
    BY <2>1, <2>2, StoringKeepsSessions DEF UploadRejected
  <2>3. CASE UploadDuplicate(s, p)
    BY <1>1, <2>3 DEF UploadDuplicate
  <2>4. CASE UploadIncomplete(s, p)
    BY <2>1, <2>4, StoringKeepsSessions DEF UploadIncomplete, NewSession
  <2>5. CASE UploadConflict(s, p)
    BY <2>1, <2>5, StoringKeepsSessions DEF UploadConflict, NewSession
  <2>6. ASSUME NEW h \in Handlers, UploadJudged(h, s, p) PROVE Goal
    <3>1. SessionsKept
      BY <2>1, <2>6, StoringKeepsSessions DEF UploadJudged, NewSession
    <3>2. PICK r \in LoadActiveReport(p.location) : Judges(s, p, r)
      BY <2>1, <2>6 DEF UploadJudged, Judges
    <3>3. r \in 0..Len(reports)
      BY LoadActiveReportType
    <3> QED
      BY <3>1, <3>2, <3>3
  <2>7. CASE CrashAfterSession(s, p)
    BY <2>1, <2>7, StoringKeepsSessions DEF CrashAfterSession, NewSession
  <2>8. CASE CrashAfterVerdict(s, p)
    <3>1. SessionsKept
      BY <2>1, <2>8, StoringKeepsSessions DEF CrashAfterVerdict, NewSession
    <3>2. PICK r \in LoadActiveReport(p.location) : Judges(s, p, r)
      BY <2>1, <2>8 DEF CrashAfterVerdict, Judges
    <3>3. r \in 0..Len(reports)
      BY LoadActiveReportType
    <3> QED
      BY <3>1, <3>2, <3>3
  <2> QED
    BY <1>4, <2>2, <2>3, <2>4, <2>5, <2>6, <2>7, <2>8 DEF Upload
<1>5. ASSUME NEW h \in Handlers, Proceed(h) PROVE Goal
  BY <1>1, <1>5 DEF Proceed, VerdictMailed, ContainerSealed, SealMailed, Accept,
                    OverrideMailed
<1>6. ASSUME NEW h \in Handlers, NEW i \in 1..Len(recon), Override(h, i) PROVE Goal
  BY <1>1, <1>6 DEF Override, Replaces
<1>7. CASE Crash
  BY <1>1, <1>7 DEF Crash
<1>8. ASSUME NEW i \in 1..Len(recon), CrashAfterOverride(i) PROVE Goal
  BY <1>1, <1>8 DEF CrashAfterOverride, Replaces
<1>9. ASSUME NEW h \in Handlers, CrashAfterMail(h) \/ CrashAfterPresign(h) PROVE Goal
  BY <1>1, <1>9 DEF CrashAfterMail, CrashAfterPresign
<1>10. CASE UNCHANGED vars
  BY <1>1, <1>10 DEF vars
<1> QED
  BY <1>2, <1>3, <1>4, <1>5, <1>6, <1>7, <1>8, <1>9, <1>10 DEF Next

\* A report, once published, keeps everything but its status.
LEMMA ReportsKept ==
    ASSUME TypeOK, [Next]_vars
    PROVE  /\ Len(reports) \in Nat /\ Len(reports') \in Nat
           /\ Len(reports) <= Len(reports')
           /\ reports' \in Seq(ReportRow)
           /\ \A r \in 0..Len(reports) : LinesOf(r)' = LinesOf(r)
           /\ \A r \in 1..Len(reports) :
                 /\ reports'[r].lines = reports[r].lines
                 /\ reports'[r].ref = reports[r].ref
                 /\ reports'[r].version = reports[r].version
<1>1. CASE UNCHANGED reports
  BY <1>1, TypeElements DEF TypeOK, LinesOf
<1>2. ASSUME NEW d \in Deliveries, Publishes(d)
      PROVE  /\ reports' \in Seq(ReportRow)
             /\ Len(reports') = Len(reports) + 1
             /\ \A r \in 1..Len(reports) : /\ reports'[r].lines = reports[r].lines
                                           /\ reports'[r].ref = reports[r].ref
                                           /\ reports'[r].version = reports[r].version
  <2> DEFINE previous == Previous(d.ref)
             row == [ref |-> d.ref, location |-> d.location, status |-> "active",
                     version |-> IF previous = 0 THEN 1
                                 ELSE reports[previous].version + 1,
                     lines |-> d.lines]
  <2>1. reports' = Append(Superseded(previous), row)
    BY <1>2 DEF Publishes, CommitReport
  <2>2. /\ Superseded(previous) \in Seq(ReportRow)
        /\ Len(Superseded(previous)) = Len(reports)
        /\ \A j \in 1..Len(reports) :
              Superseded(previous)[j] =
                 IF j = previous THEN [reports[j] EXCEPT !.status = "superseded"]
                 ELSE reports[j]
    BY SupersededFacts
  <2>3. row \in ReportRow
    <3>1. previous # 0 => reports[previous] \in ReportRow
      BY PreviousType, TypeElements
    <3>2. d.ref \in References /\ d.location \in Locations /\ d.lines \in Lines
      BY ServerAssumption
    <3> QED
      BY <3>1, <3>2 DEF ReportRow
  <2>4. /\ reports' \in Seq(ReportRow)
        /\ Len(reports') = Len(reports) + 1
        /\ \A j \in 1..Len(reports) : reports'[j] = Superseded(previous)[j]
    BY <2>1, <2>2, <2>3, AppendFacts
  <2>5. ASSUME NEW j \in 1..Len(reports)
        PROVE  /\ reports'[j].lines = reports[j].lines
               /\ reports'[j].ref = reports[j].ref
               /\ reports'[j].version = reports[j].version
    <3>1. reports[j] \in ReportRow
      BY TypeElements
    <3>2. reports'[j] \in {reports[j], [reports[j] EXCEPT !.status = "superseded"]}
      BY <2>2, <2>4
    <3> QED
      BY <3>1, <3>2 DEF ReportRow
  <2> QED
    BY <2>4, <2>5
<1>3. ASSUME NEW d \in Deliveries, Publishes(d)
      PROVE  \A r \in 0..Len(reports) : LinesOf(r)' = LinesOf(r)
  BY <1>2, <1>3, TypeElements DEF LinesOf
<1>4. UNCHANGED reports \/ \E d \in Deliveries : Publishes(d)
  BY StepKinds DEF Judges, Replaces
<1> QED
  BY <1>1, <1>2, <1>3, <1>4, TypeElements

\* The row an override adds.
LEMMA OverrideRowFacts ==
    ASSUME TypeOK, NEW i \in 1..Len(recon)
    PROVE  /\ OverrideRow(i) \in ReconRow
           /\ OverrideRow(i).session = recon[i].session
           /\ OverrideRow(i).report = recon[i].report
           /\ OverrideRow(i).supersedes = i
           /\ i # 0
           /\ ~LiveMatch(OverrideRow(i))
<1>1. recon[i] \in ReconRow /\ i \in Nat
  BY TypeElements
<1>2. OverrideRow(i) \in ReconRow
  BY <1>1 DEF OverrideRow, ReconRow, Outcomes
<1>3. /\ OverrideRow(i).session = recon[i].session
      /\ OverrideRow(i).report = recon[i].report
      /\ OverrideRow(i).supersedes = i
      /\ OverrideRow(i).overridden = TRUE
  BY <1>1 DEF OverrideRow, ReconRow
<1> QED
  BY <1>1, <1>2, <1>3 DEF LiveMatch

\* Rows are only ever added, one at a time and at the end.
LEMMA RowsKept ==
    ASSUME Consistent, [Next]_vars
    PROVE  /\ recon' \in Seq(ReconRow)
           /\ Len(recon) \in Nat /\ Len(recon') \in {Len(recon), Len(recon) + 1}
           /\ \A i \in 1..Len(recon) : recon'[i] = recon[i]
<1> USE DEF Consistent
<1>1. ASSUME NEW row \in ReconRow, recon' = Append(recon, row)
      PROVE  /\ recon' \in Seq(ReconRow)
             /\ Len(recon) \in Nat /\ Len(recon') = Len(recon) + 1
             /\ \A i \in 1..Len(recon) : recon'[i] = recon[i]
  BY <1>1, AppendFacts DEF TypeOK
<1>2. ASSUME NEW s \in Sessions, NEW p \in Payloads, NEW r \in 0..Len(reports), Judges(s, p, r)
      PROVE  \E row \in ReconRow : recon' = Append(recon, row)
  BY <1>2, SubmittedRowFacts DEF Judges
<1>3. ASSUME NEW i \in 1..Len(recon), Replaces(i)
      PROVE  \E row \in ReconRow : recon' = Append(recon, row)
  BY <1>3, OverrideRowFacts DEF Replaces
<1>4. CASE UNCHANGED recon
  BY <1>4, TypeElements DEF TypeOK
<1> QED
  BY <1>1, <1>2, <1>3, <1>4, StepKinds DEF Publishes

\* The rows, the reports they cite and the sessions they judge stay consistent.
LEMMA RowsStayConsistent ==
    ASSUME Consistent, [Next]_vars
    PROVE  SessionsHavePayloads' /\ RowsHaveSessions' /\ MatchesNameLines'
<1> USE DEF Consistent
<1>1. SessionsHavePayloads'
  BY StepKinds DEF SessionsKept, SessionsHavePayloads, TypeOK
<1>2. /\ sessions \subseteq sessions'
      /\ Len(reports) \in Nat /\ Len(reports') \in Nat
      /\ Len(reports) <= Len(reports')
      /\ \A r \in 0..Len(reports) : LinesOf(r)' = LinesOf(r)
  BY StepKinds, ReportsKept DEF SessionsKept
\* A row is sound when it says of itself what the invariant says of every row.
<1> DEFINE Sound(row) ==
             /\ row.session \in sessions'
             /\ row.report \in 0..Len(reports)
             /\ LiveMatch(row) =>
                  /\ row.report # 0
                  /\ row.line \in Vins
                  /\ row.vin = row.line
                  /\ row.container \in Containers
                  /\ LinesOf(row.report)[row.line] = row.container
<1>3. \A i \in 1..Len(recon) : Sound(recon[i])
  BY <1>2 DEF RowsHaveSessions, MatchesNameLines
<1>4. ASSUME NEW s \in Sessions, NEW p \in Payloads, NEW r \in 0..Len(reports), Judges(s, p, r)
      PROVE  \E row \in ReconRow : recon' = Append(recon, row) /\ Sound(row)
  <2>1. /\ SubmittedRow(s, p, r) \in ReconRow
        /\ SubmittedRow(s, p, r).session = s
        /\ SubmittedRow(s, p, r).report = r
        /\ LiveMatch(SubmittedRow(s, p, r)) =>
             LET row == SubmittedRow(s, p, r)
             IN  /\ r # 0
                 /\ p.container \in Containers
                 /\ row.line \in Vins /\ row.vin = row.line
                 /\ row.container = p.container
                 /\ LinesOf(r)[row.line] = p.container
    BY <1>4, SubmittedRowFacts DEF Judges
  <2>2. s \in sessions' /\ recon' = Append(recon, SubmittedRow(s, p, r))
    BY <1>4 DEF Judges, NewSession
  <2> QED
    BY <2>1, <2>2
<1>5. ASSUME NEW i \in 1..Len(recon), Replaces(i)
      PROVE  \E row \in ReconRow : recon' = Append(recon, row) /\ Sound(row)
  BY <1>3, <1>5, OverrideRowFacts DEF Replaces
<1>6. \A i \in 1..Len(recon') : Sound(recon'[i])
  <2>1. ASSUME NEW row \in ReconRow, recon' = Append(recon, row), Sound(row)
        PROVE  \A i \in 1..Len(recon') : Sound(recon'[i])
    BY <1>3, <2>1, AppendFacts DEF TypeOK
  <2>2. CASE UNCHANGED recon
    BY <1>3, <2>2
  <2> QED
    BY <1>4, <1>5, <2>1, <2>2, StepKinds DEF Publishes
<1>7. ASSUME NEW i \in 1..Len(recon')
      PROVE  /\ (recon[i].report \in 0..Len(reports))'
             /\ (LinesOf(recon[i].report))' = LinesOf(recon'[i].report)
  <2>1. /\ recon'[i].report \in 0..Len(reports)
        /\ \A r \in 1..Len(reports) : reports'[r].lines = reports[r].lines
    BY <1>6, ReportsKept
  <2> QED
    BY <1>2, <2>1 DEF LinesOf
<1>8. RowsHaveSessions'
  BY <1>6, <1>7 DEF RowsHaveSessions
<1>9. MatchesNameLines'
  BY <1>6, <1>7 DEF MatchesNameLines, LiveMatch
<1> QED
  BY <1>1, <1>8, <1>9

\* The mails, the requests in flight and the answers, action by action.
MailsTyped ==
    /\ notes \in Seq(NoteRow)
    /\ presigned \subseteq Sessions
    /\ handler \in [Handlers -> HandlerState]
    /\ answered \in [Sessions -> SUBSET Statuses]
    /\ crashes \in 0..MaxCrashes
    /\ expired \subseteq 1..Len(reports)
    /\ HandlersHaveRows

LEMMA MailsStayTyped ==
    ASSUME Consistent, [Next]_vars
    PROVE  MailsTyped'
<1> USE DEF Consistent
<1>1. /\ Len(recon) \in Nat /\ Len(notes) \in Nat /\ Len(reports) \in Nat
      /\ Len(recon') \in {Len(recon), Len(recon) + 1}
      /\ \A i \in 1..Len(recon) : recon[i] \in ReconRow
      /\ \A i \in 1..Len(recon) : recon[i].session \in Sessions
  BY TypeElements, RowsKept DEF ReconRow
<1>2. /\ Len(reports') \in Nat
      /\ Len(reports) <= Len(reports')
  BY ReportsKept
<1>3. /\ notes \in Seq(NoteRow)
      /\ presigned \subseteq Sessions
      /\ handler \in [Handlers -> HandlerState]
      /\ answered \in [Sessions -> SUBSET Statuses]
      /\ crashes \in 0..MaxCrashes /\ MaxCrashes \in Nat
      /\ expired \subseteq 1..Len(reports)
  BY ServerAssumption DEF TypeOK
<1>4. \A h \in Handlers : Busy(h) =>
        /\ handler[h].recon \in 1..Len(recon)
        /\ handler[h].note \in 1..Len(notes)
  BY DEF HandlersHaveRows
\* Adding a mail.
<1>5. ASSUME NEW n \in NoteRow, NEW old \in Seq(NoteRow),
             Len(old) = Len(notes), notes' = Append(old, n)
      PROVE  notes' \in Seq(NoteRow) /\ Len(notes') = Len(notes) + 1
  BY <1>5, AppendFacts
<1>6. ASSUME NEW s \in Sessions, NEW st \in Statuses, Answer(s, st)
      PROVE  answered' \in [Sessions -> SUBSET Statuses]
  BY <1>3, <1>6 DEF Answer
<1>7. Idle \in HandlerState /\ Idle.at = "idle"
  BY DEF Idle, HandlerState
\* The steps that touch only reports, payloads, sessions and answers.
<1>8. ASSUME UNCHANGED <<notes, presigned, handler, crashes>>,
             answered' \in [Sessions -> SUBSET Statuses],
             expired' \subseteq 1..Len(reports)
      PROVE  MailsTyped'
  BY <1>1, <1>2, <1>3, <1>4, <1>8 DEF MailsTyped, HandlersHaveRows, Busy
\* The steps that leave no request in flight.
<1>9. ASSUME handler' = [h \in Handlers |-> Idle], notes' \in Seq(NoteRow),
             presigned' \subseteq Sessions, UNCHANGED <<answered, expired>>,
             crashes' \in 0..MaxCrashes
      PROVE  MailsTyped'
  BY <1>2, <1>3, <1>7, <1>9 DEF MailsTyped, HandlersHaveRows, Busy
<1>10. ASSUME Restart
       PROVE  handler' = [h \in Handlers |-> Idle] /\ crashes' \in 0..MaxCrashes
  BY <1>3, <1>10 DEF Restart
\* The steps that park a request.
<1>11. ASSUME NEW h \in Handlers, NEW parked \in HandlerState,
              handler' = [handler EXCEPT ![h] = parked],
              parked.at # "idle" => /\ parked.recon \in 1..Len(recon')
                                    /\ parked.note \in 1..Len(notes'),
              notes' \in Seq(NoteRow), Len(notes') \in {Len(notes), Len(notes) + 1},
              presigned' \subseteq Sessions,
              answered' \in [Sessions -> SUBSET Statuses],
              UNCHANGED <<expired, crashes>>
       PROVE  MailsTyped'
  <2>1. handler' \in [Handlers -> HandlerState]
    BY <1>3, <1>11
  <2>2. HandlersHaveRows'
    BY <1>1, <1>3, <1>4, <1>11 DEF HandlersHaveRows, Busy
  <2> QED
    BY <1>2, <1>3, <1>11, <2>1, <2>2 DEF MailsTyped
<1>12. ASSUME NEW d \in Deliveries, CommitReport(d) PROVE MailsTyped'
  BY <1>3, <1>8, <1>12 DEF CommitReport
<1>13. ASSUME NEW r \in 1..Len(reports), ReportExpires(r) PROVE MailsTyped'
  BY <1>3, <1>8, <1>13 DEF ReportExpires
<1>14. ASSUME NEW s \in Sessions, NEW p \in Payloads, Upload(s, p) PROVE MailsTyped'
  <2> USE DEF Statuses
  <2>1. CASE UploadRejected(s, p)
    BY <1>3, <1>6, <1>8, <2>1 DEF UploadRejected
  <2>2. CASE UploadDuplicate(s, p)
    BY <1>3, <1>6, <1>8, <2>2 DEF UploadDuplicate
  <2>3. CASE UploadIncomplete(s, p)
    BY <1>3, <1>6, <1>8, <2>3 DEF UploadIncomplete
  <2>4. CASE UploadConflict(s, p)
    BY <1>3, <1>6, <1>8, <2>4 DEF UploadConflict
  <2>5. ASSUME NEW h \in Handlers, UploadJudged(h, s, p) PROVE MailsTyped'
    <3> DEFINE parked(r) == [at |-> "verdictMail", recon |-> Len(recon) + 1,
                             note |-> Len(notes) + 1, snapshot |-> LoadedVinsFor(r)]
    <3>1. PICK r \in LoadActiveReport(p.location) :
            /\ recon' = Append(recon, SubmittedRow(s, p, r))
            /\ \E n \in NewNote(Len(recon) + 1, SubmittedRow(s, p, r).outcome, p.location) :
                  notes' = Append(notes, n)
            /\ handler' = [handler EXCEPT ![h] = parked(r)]
      BY <2>5 DEF UploadJudged
    <3>2. /\ SubmittedRow(s, p, r) \in ReconRow
          /\ SubmittedRow(s, p, r).outcome \in Events
          /\ p.location \in Locations
      BY SubmittedRowFacts, ServerAssumption DEF ReconRow, Events, PayloadType
    <3>3. notes' \in Seq(NoteRow) /\ Len(notes') = Len(notes) + 1
      <4>1. PICK n \in NewNote(Len(recon) + 1, SubmittedRow(s, p, r).outcome, p.location) :
               notes' = Append(notes, n)
        BY <3>1
      <4>2. n \in NoteRow
        BY <1>1, <3>2, NewNoteType
      <4> QED
        BY <1>3, <1>5, <4>1, <4>2
    <3>4. Len(recon') = Len(recon) + 1
      BY <3>1, <3>2, AppendFacts DEF TypeOK
    <3>5. parked(r) \in HandlerState
      BY <1>1, LoadedVinsType DEF HandlerState
    <3>6. parked(r).recon \in 1..Len(recon') /\ parked(r).note \in 1..Len(notes')
      BY <1>1, <3>3, <3>4
    <3>7. UNCHANGED <<expired, crashes, presigned, answered>>
      BY <2>5 DEF UploadJudged
    <3> HIDE DEF parked
    <3> QED
      BY <1>3, <1>11, <3>1, <3>3, <3>5, <3>6, <3>7
  <2>6. CASE CrashAfterSession(s, p)
    BY <1>3, <1>9, <1>10, <2>6 DEF CrashAfterSession
  <2>7. CASE CrashAfterVerdict(s, p)
    BY <1>3, <1>9, <1>10, <2>7 DEF CrashAfterVerdict
  <2> QED
    BY <1>14, <2>1, <2>2, <2>3, <2>4, <2>5, <2>6, <2>7 DEF Upload
<1>15. ASSUME NEW h \in Handlers, Proceed(h) PROVE MailsTyped'
  <2>1. Busy(h)
    BY <1>15 DEF Proceed, VerdictMailed, ContainerSealed, SealMailed, Accept,
                 OverrideMailed, Busy
  <2>2. /\ handler[h] \in HandlerState
        /\ handler[h].recon \in 1..Len(recon)
        /\ handler[h].note \in 1..Len(notes)
        /\ Len(recon') = Len(recon) /\ recon' = recon
    BY <1>3, <1>4, <1>15, <2>1 DEF Proceed, VerdictMailed, ContainerSealed, SealMailed,
                                   Accept, OverrideMailed
  <2>3. \A settled \in Settled(handler[h].note) :
           settled \in Seq(NoteRow) /\ Len(settled) = Len(notes)
    BY <2>2, SettledFacts
  <2>4. ASSUME NEW at \in {"presign", "idle"},
               notes' \in Settled(handler[h].note),
               handler' = [handler EXCEPT ![h].at = at],
               UNCHANGED <<expired, presigned, answered, crashes>>
        PROVE  MailsTyped'
    <3>1. handler' = [handler EXCEPT ![h] = [handler[h] EXCEPT !.at = at]]
      BY <1>3, <2>4
    <3>2. /\ [handler[h] EXCEPT !.at = at] \in HandlerState
          /\ [handler[h] EXCEPT !.at = at].recon \in 1..Len(recon')
          /\ [handler[h] EXCEPT !.at = at].note \in 1..Len(notes)
      BY <2>2 DEF HandlerState
    <3> QED
      BY <1>1, <1>3, <1>11, <2>3, <2>4, <3>1, <3>2
  <2>5. CASE VerdictMailed(h)
    BY <2>4, <2>5 DEF VerdictMailed
  <2>6. CASE SealMailed(h)
    BY <2>4, <2>6 DEF SealMailed
  <2>7. CASE OverrideMailed(h)
    <3>1. /\ handler' = [handler EXCEPT ![h] = Idle]
          /\ notes' \in Seq(NoteRow) /\ Len(notes') = Len(notes)
          /\ UNCHANGED <<expired, presigned, answered, crashes>>
      BY <2>3, <2>7 DEF OverrideMailed
    <3> QED
      BY <1>3, <1>7, <1>11, <3>1
  <2>8. CASE Accept(h)
    <3>1. recon[handler[h].recon].session \in Sessions
      BY <1>1, <2>2
    <3>2. answered' \in [Sessions -> SUBSET Statuses]
      BY <1>6, <2>8, <3>1 DEF Accept, Statuses
    <3>3. /\ handler' = [handler EXCEPT ![h] = Idle]
          /\ presigned' \subseteq Sessions
          /\ UNCHANGED <<expired, notes, crashes>>
      BY <1>3, <2>8, <3>1 DEF Accept
    <3> QED
      BY <1>3, <1>7, <1>11, <3>2, <3>3
  <2>9. CASE ContainerSealed(h)
    <3> DEFINE s == recon[handler[h].recon].session
               parked == [at |-> "sealMail", recon |-> handler[h].recon,
                          note |-> Len(notes) + 1, snapshot |-> handler[h].snapshot]
    <3>1. s \in sessions /\ s \in Sessions
      BY <2>2 DEF RowsHaveSessions, TypeOK
    <3>2. payload[s].location \in Locations
      BY <3>1 DEF TypeOK, SessionsHavePayloads, PayloadType
    <3>3. PICK settled \in Settled(handler[h].note),
               n \in NewNote(handler[h].recon, "CONTAINER_COMPLETE", payload[s].location) :
             notes' = Append(settled, n)
      BY <2>9 DEF ContainerSealed
    <3>4. notes' \in Seq(NoteRow) /\ Len(notes') = Len(notes) + 1
      <4>1. /\ handler[h].recon \in Nat
            /\ "CONTAINER_COMPLETE" \in Events
            /\ payload[s].location \in Locations \union {None}
        BY <1>1, <2>2, <3>2 DEF Events
      <4> HIDE DEF s
      <4>2. n \in NoteRow
        BY <4>1, NewNoteType
      <4> QED
        BY <1>5, <2>3, <3>3, <4>2
    <3>5. handler' = [handler EXCEPT ![h] = parked]
      BY <2>9 DEF ContainerSealed
    <3>6. /\ parked \in HandlerState
          /\ parked.recon \in 1..Len(recon') /\ parked.note \in 1..Len(notes')
      BY <1>1, <2>2, <3>4 DEF HandlerState
    <3>7. UNCHANGED <<expired, crashes, presigned, answered>>
      BY <2>9 DEF ContainerSealed
    <3> HIDE DEF parked
    <3> QED
      BY <1>3, <1>11, <3>4, <3>5, <3>6, <3>7
  <2> QED
    BY <1>15, <2>5, <2>6, <2>7, <2>8, <2>9 DEF Proceed
<1>16. ASSUME NEW h \in Handlers, NEW i \in 1..Len(recon), Override(h, i) PROVE MailsTyped'
  <2> DEFINE parked == [at |-> "overrideMail", recon |-> Len(recon) + 1,
                        note |-> Len(notes) + 1, snapshot |-> {}]
  <2>1. PICK n \in NewNote(Len(recon) + 1, "OVERRIDE_APPLIED", None) :
           notes' = Append(notes, n)
    BY <1>16 DEF Override
  <2>2. notes' \in Seq(NoteRow) /\ Len(notes') = Len(notes) + 1
    <3>1. Len(recon) + 1 \in Nat /\ "OVERRIDE_APPLIED" \in Events
      BY <1>1 DEF Events
    <3>2. n \in NoteRow
      BY <3>1, NewNoteType
    <3> QED
      BY <1>3, <1>5, <2>1, <3>2
  <2>3. Len(recon') = Len(recon) + 1
    BY <1>16, OverrideRowFacts, AppendFacts DEF Override, TypeOK
  <2>4. /\ parked \in HandlerState
        /\ parked.recon \in 1..Len(recon') /\ parked.note \in 1..Len(notes')
    BY <1>1, <2>2, <2>3 DEF HandlerState
  <2>5. /\ handler' = [handler EXCEPT ![h] = parked]
        /\ UNCHANGED <<expired, crashes, presigned, answered>>
    BY <1>16 DEF Override
  <2> HIDE DEF parked
  <2> QED
    BY <1>3, <1>11, <2>2, <2>4, <2>5
<1>17. CASE Crash
  BY <1>3, <1>9, <1>10, <1>17 DEF Crash
<1>18. ASSUME NEW i \in 1..Len(recon), CrashAfterOverride(i) PROVE MailsTyped'
  BY <1>3, <1>9, <1>10, <1>18 DEF CrashAfterOverride
<1>19. ASSUME NEW h \in Handlers, CrashAfterMail(h) PROVE MailsTyped'
  <2>1. handler[h].note \in 1..Len(notes)
    BY <1>4, <1>19 DEF CrashAfterMail, Busy
  <2>2. notes' \in Seq(NoteRow)
    BY <1>19, <2>1, SettledFacts DEF CrashAfterMail
  <2> QED
    BY <1>3, <1>9, <1>10, <1>19, <2>2 DEF CrashAfterMail
<1>20. ASSUME NEW h \in Handlers, CrashAfterPresign(h) PROVE MailsTyped'
  <2>1. recon[handler[h].recon].session \in Sessions
    BY <1>1, <1>4, <1>20 DEF CrashAfterPresign, Busy
  <2> QED
    BY <1>3, <1>9, <1>10, <1>20, <2>1 DEF CrashAfterPresign
<1>21. CASE UNCHANGED vars
  BY <1>3, <1>8, <1>21 DEF vars
<1> QED
  BY <1>12, <1>13, <1>14, <1>15, <1>16, <1>17, <1>18, <1>19, <1>20, <1>21 DEF Next

LEMMA ConsistentInvariant == Spec => []Consistent
<1>1. Init => Consistent
  BY ServerAssumption, EmptySeq
     DEF Init, Consistent, TypeOK, SessionsHavePayloads, RowsHaveSessions,
         MatchesNameLines, HandlersHaveRows, Busy, Idle, HandlerState
<1>2. Consistent /\ [Next]_vars => Consistent'
  <2> SUFFICES ASSUME Consistent, [Next]_vars PROVE Consistent'
    OBVIOUS
  <2>1. TypeOK'
    BY StepKinds, ReportsKept, RowsKept, MailsStayTyped
       DEF Consistent, TypeOK, SessionsKept, MailsTyped
  <2> QED
    BY <2>1, RowsStayConsistent, MailsStayTyped DEF Consistent, MailsTyped
<1> QED
  BY <1>1, <1>2, PTL DEF Spec

\* Type correctness, for any number of sessions, requests, reports and crashes.
THEOREM TypeCorrect == Spec => []TypeOK
<1>1. Consistent => TypeOK
  BY DEF Consistent
<1> QED
  BY <1>1, ConsistentInvariant, PTL

-----------------------------------------------------------------------------
(***************************************************************************)
(* One verdict per session, one live match per line.                       *)
(***************************************************************************)

\* A step adds nothing to the rows, an override's row, or a verdict on a
\* session that had none and, if it is a live match, on a line that had none.
LEMMA NewRowKinds ==
    ASSUME Consistent, [Next]_vars
    PROVE  \/ recon' = recon
           \/ \E row \in ReconRow :
                /\ recon' = Append(recon, row)
                /\ row.supersedes # 0 /\ ~LiveMatch(row)
           \/ \E row \in ReconRow :
                /\ recon' = Append(recon, row)
                /\ row.supersedes = 0
                /\ \A i \in 1..Len(recon) : recon[i].session # row.session
                /\ LiveMatch(row) =>
                     \A i \in 1..Len(recon) :
                        ~ /\ LiveMatch(recon[i])
                          /\ recon[i].report = row.report
                          /\ recon[i].line = row.line
<1> USE DEF Consistent
<1>1. ASSUME NEW s \in Sessions, NEW p \in Payloads, NEW r \in 0..Len(reports), Judges(s, p, r)
      PROVE  \E row \in ReconRow :
                /\ recon' = Append(recon, row)
                /\ row.supersedes = 0
                /\ \A i \in 1..Len(recon) : recon[i].session # row.session
                /\ LiveMatch(row) =>
                     \A i \in 1..Len(recon) :
                        ~ /\ LiveMatch(recon[i])
                          /\ recon[i].report = row.report
                          /\ recon[i].line = row.line
  <2> DEFINE row == SubmittedRow(s, p, r)
  <2>1. /\ row \in ReconRow /\ row.session = s /\ row.supersedes = 0
        /\ LiveMatch(row) => row.line # None
    BY <1>1, SubmittedRowFacts DEF Judges
  <2>2. recon' = Append(recon, row) /\ ~IndexRefuses(row) /\ s \notin sessions
    BY <1>1 DEF Judges, NewSession
  <2> HIDE DEF row
  <2>3. \A i \in 1..Len(recon) : recon[i].session # row.session
    BY <2>1, <2>2 DEF RowsHaveSessions
  <2> QED
    BY <2>1, <2>2, <2>3 DEF IndexRefuses
<1>2. ASSUME NEW i \in 1..Len(recon), Replaces(i)
      PROVE  \E row \in ReconRow : /\ recon' = Append(recon, row)
                                   /\ row.supersedes # 0 /\ ~LiveMatch(row)
  BY <1>2, OverrideRowFacts DEF Replaces
<1> QED
  BY <1>1, <1>2, StepKinds DEF Publishes

\* However often and however concurrently a session is uploaded, with whatever
\* crashes in between, it gets at most one verdict.
THEOREM OneVerdict == Spec => []OneVerdictPerSession
<1>1. Init => OneVerdictPerSession
  BY DEF Init, OneVerdictPerSession, Originals
<1>2. ASSUME Consistent, [Next]_vars, OneVerdictPerSession
      PROVE  OneVerdictPerSession'
  <2>1. CASE recon' = recon
    BY <1>2, <2>1 DEF OneVerdictPerSession, Originals
  <2>2. ASSUME NEW row \in ReconRow, recon' = Append(recon, row),
               \/ row.supersedes # 0
               \/ \A i \in 1..Len(recon) : recon[i].session # row.session
        PROVE  OneVerdictPerSession'
    <3>1. /\ Len(recon) \in Nat /\ Len(recon') = Len(recon) + 1
          /\ recon'[Len(recon) + 1] = row
          /\ \A i \in 1..Len(recon) : recon'[i] = recon[i]
      BY <1>2, <2>2, AppendFacts DEF Consistent, TypeOK
    <3>2. \A i, j \in 1..Len(recon) :
             /\ recon[i].supersedes = 0 /\ recon[j].supersedes = 0
             /\ recon[i].session = recon[j].session
             => i = j
      BY <1>2 DEF OneVerdictPerSession, Originals
    <3>3. \A i, j \in 1..Len(recon') :
             /\ recon'[i].supersedes = 0 /\ recon'[j].supersedes = 0
             /\ recon'[i].session = recon'[j].session
             => i = j
      BY <2>2, <3>1, <3>2
    <3> QED
      BY <3>3 DEF OneVerdictPerSession, Originals
  <2> QED
    BY <1>2, <2>1, <2>2, NewRowKinds
<1> QED
  BY <1>1, <1>2, ConsistentInvariant, PTL DEF Spec

\* A report line carries at most one match that counts, although two lookalike
\* readings may both fit it and the loaded set knows only one of them.
THEOREM OneLiveMatch == Spec => []OneLiveMatchPerLine
<1>1. Init => OneLiveMatchPerLine
  BY DEF Init, OneLiveMatchPerLine
<1>2. ASSUME Consistent, [Next]_vars, OneLiveMatchPerLine
      PROVE  OneLiveMatchPerLine'
  <2>1. CASE recon' = recon
    BY <1>2, <2>1 DEF OneLiveMatchPerLine, LiveMatch
  <2>2. ASSUME NEW row \in ReconRow, recon' = Append(recon, row),
               LiveMatch(row) => \A i \in 1..Len(recon) :
                                    ~ /\ LiveMatch(recon[i])
                                      /\ recon[i].report = row.report
                                      /\ recon[i].line = row.line
        PROVE  OneLiveMatchPerLine'
    <3>1. /\ Len(recon) \in Nat /\ Len(recon') = Len(recon) + 1
          /\ recon'[Len(recon) + 1] = row
          /\ \A i \in 1..Len(recon) : recon'[i] = recon[i]
      BY <1>2, <2>2, AppendFacts DEF Consistent, TypeOK
    <3>2. \A i, j \in 1..Len(recon') :
             /\ LiveMatch(recon'[i]) /\ LiveMatch(recon'[j])
             /\ recon'[i].report = recon'[j].report
             /\ recon'[i].line = recon'[j].line
             => i = j
      BY <1>2, <2>2, <3>1 DEF OneLiveMatchPerLine
    <3> QED
      BY <3>2 DEF OneLiveMatchPerLine, LiveMatch
  <2> QED
    BY <1>2, <2>1, <2>2, NewRowKinds
<1> QED
  BY <1>1, <1>2, ConsistentInvariant, PTL DEF Spec

-----------------------------------------------------------------------------
(***************************************************************************)
(* Amendments.  That the newest report of a reference is active is not     *)
(* inductive: commitReport supersedes the highest version, so the argument *)
(* needs that versions rise in commit order and that one of the reports of *)
(* a reference is active.                                                  *)
(***************************************************************************)
OlderIsSuperseded ==
    \A i, j \in 1..Len(reports) : reports[i].ref = reports[j].ref /\ i < j =>
        /\ reports[i].version < reports[j].version
        /\ reports[i].status = "superseded"

OneIsActive ==
    \A i \in 1..Len(reports) : \E j \in 1..Len(reports) :
        reports[j].ref = reports[i].ref /\ reports[j].status = "active"

AmendmentChain == OlderIsSuperseded /\ OneIsActive

\* The previous version that commitReport looks up is the newest of its
\* reference, and there is one when the reference has been used.
LEMMA PreviousIsNewest ==
    ASSUME TypeOK, AmendmentChain, NEW ref,
           NEW i \in 1..Len(reports), reports[i].ref = ref
    PROVE  /\ Previous(ref) \in 1..Len(reports)
           /\ reports[Previous(ref)].ref = ref
           /\ reports[i].version <= reports[Previous(ref)].version
           /\ i <= Previous(ref)
<1>1. /\ Len(reports) \in Nat
      /\ \A k \in 1..Len(reports) : reports[k].version \in Nat
  BY TypeElements DEF ReportRow
<1>2. PICK j \in 1..Len(reports) : reports[j].ref = ref /\ reports[j].status = "active"
  BY DEF AmendmentChain, OneIsActive
<1>3. ASSUME NEW k \in 1..Len(reports), reports[k].ref = ref
      PROVE  reports[k].version <= reports[j].version
  <2>1. CASE k < j
    BY <1>1, <1>2, <1>3, <2>1 DEF AmendmentChain, OlderIsSuperseded
  <2>2. CASE k = j
    BY <1>1, <2>2
  <2>3. CASE j < k
    BY <1>2, <1>3, <2>3 DEF AmendmentChain, OlderIsSuperseded
  <2> QED
    BY <1>1, <2>1, <2>2, <2>3
<1>4. j \in LatestVersion(ref)
  BY <1>2, <1>3 DEF LatestVersion
<1>5. Previous(ref) \in LatestVersion(ref)
  BY <1>4 DEF Previous
<1>6. /\ Previous(ref) \in 1..Len(reports)
      /\ reports[Previous(ref)].ref = ref
      /\ reports[i].version <= reports[Previous(ref)].version
  BY <1>5 DEF LatestVersion
<1>7. ~(Previous(ref) < i)
  BY <1>1, <1>6 DEF AmendmentChain, OlderIsSuperseded
<1> QED
  BY <1>1, <1>6, <1>7

LEMMA AmendmentChainInvariant == Spec => []AmendmentChain
<1>1. Init => AmendmentChain
  BY DEF Init, AmendmentChain, OlderIsSuperseded, OneIsActive
<1>2. ASSUME Consistent, [Next]_vars, AmendmentChain
      PROVE  AmendmentChain'
  <2> USE DEF Consistent
  <2>1. CASE UNCHANGED reports
    BY <1>2, <2>1 DEF AmendmentChain, OlderIsSuperseded, OneIsActive
  <2>2. ASSUME NEW d \in Deliveries, Publishes(d)
        PROVE  AmendmentChain'
    <3> DEFINE n == Len(reports)
               previous == Previous(d.ref)
    <3>1. /\ n \in Nat /\ Len(reports') = n + 1
          /\ reports'[n + 1].ref = d.ref
          /\ reports'[n + 1].status = "active"
          /\ reports'[n + 1].version =
               IF previous = 0 THEN 1 ELSE reports[previous].version + 1
          /\ \A k \in 1..n : reports'[k] =
               IF k = previous THEN [reports[k] EXCEPT !.status = "superseded"]
               ELSE reports[k]
      <4> DEFINE row == [ref |-> d.ref, location |-> d.location, status |-> "active",
                         version |-> IF previous = 0 THEN 1
                                     ELSE reports[previous].version + 1,
                         lines |-> d.lines]
      <4>1. reports' = Append(Superseded(previous), row)
        BY <2>2 DEF Publishes, CommitReport
      <4>2. row \in ReportRow
        <5>1. previous # 0 => reports[previous] \in ReportRow
          BY <1>2, PreviousType, TypeElements
        <5>2. d.ref \in References /\ d.location \in Locations /\ d.lines \in Lines
          BY ServerAssumption
        <5> QED
          BY <5>1, <5>2 DEF ReportRow
      <4>3. /\ Superseded(previous) \in Seq(ReportRow)
            /\ Len(Superseded(previous)) = n
            /\ \A k \in 1..n : Superseded(previous)[k] =
                 IF k = previous THEN [reports[k] EXCEPT !.status = "superseded"]
                 ELSE reports[k]
        BY <1>2, SupersededFacts
      <4>4. /\ n \in Nat /\ Len(reports') = n + 1 /\ reports'[n + 1] = row
            /\ \A k \in 1..n : reports'[k] = Superseded(previous)[k]
        BY <4>1, <4>2, <4>3, AppendFacts
      <4> QED
        BY <4>3, <4>4
    <3>2. ASSUME NEW k \in 1..n
          PROVE  /\ reports'[k].ref = reports[k].ref
                 /\ reports'[k].version = reports[k].version
                 /\ reports[k].version \in Nat
                 /\ reports'[k].status =
                      IF k = previous THEN "superseded" ELSE reports[k].status
      <4>1. reports[k] \in ReportRow
        BY <1>2, TypeElements
      <4>2. CASE k = previous
        BY <3>1, <4>1, <4>2 DEF ReportRow
      <4>3. CASE k # previous
        BY <3>1, <4>1, <4>3 DEF ReportRow
      <4> QED
        BY <4>2, <4>3
    <3>3. ASSUME NEW k \in 1..n, reports[k].ref = d.ref
          PROVE  /\ previous \in 1..n /\ k <= previous
                 /\ reports[previous].ref = d.ref
                 /\ reports[k].version <= reports[previous].version
      BY <1>2, <3>3, PreviousIsNewest
    <3>4. previous # 0 => previous \in 1..n /\ reports[previous].ref = d.ref
      BY <1>2, PreviousType DEF LatestVersion
    <3> HIDE DEF n, previous
    <3>5. ASSUME NEW i \in 1..(n + 1), NEW j \in 1..(n + 1),
                 reports'[i].ref = reports'[j].ref, i < j
          PROVE  /\ reports'[i].version < reports'[j].version
                 /\ reports'[i].status = "superseded"
      <4>1. i \in 1..n
        BY <3>1, <3>5
      <4>2. CASE j \in 1..n
        <5>1. /\ reports[i].version < reports[j].version
              /\ reports[i].status = "superseded"
          BY <1>2, <3>2, <3>5, <4>1, <4>2 DEF AmendmentChain, OlderIsSuperseded, n
        <5> QED
          BY <3>2, <4>1, <4>2, <5>1
      <4>3. CASE j = n + 1
        <5>1. reports[i].ref = d.ref
          BY <3>1, <3>2, <3>5, <4>1, <4>3
        <5>2. /\ previous \in 1..n /\ i <= previous
              /\ reports[previous].ref = d.ref
              /\ reports[i].version <= reports[previous].version
          BY <3>3, <4>1, <5>1
        <5>3. reports'[j].version = reports[previous].version + 1
          BY <3>1, <4>3, <5>2
        <5>4. i # previous => reports[i].status = "superseded"
          BY <1>2, <3>1, <4>1, <5>1, <5>2 DEF AmendmentChain, OlderIsSuperseded, n
        <5> QED
          BY <3>1, <3>2, <4>1, <5>2, <5>3, <5>4
      <4> QED
        BY <3>1, <4>2, <4>3
    <3>6. ASSUME NEW i \in 1..(n + 1)
          PROVE  \E j \in 1..(n + 1) : /\ reports'[j].ref = reports'[i].ref
                                       /\ reports'[j].status = "active"
      <4>1. CASE reports'[i].ref = d.ref
        BY <3>1, <4>1
      <4>2. CASE reports'[i].ref # d.ref
        <5>1. i \in 1..n /\ reports[i].ref # d.ref
          BY <3>1, <3>2, <4>2
        <5>2. PICK j \in 1..n : reports[j].ref = reports[i].ref
                                /\ reports[j].status = "active"
          BY <1>2, <5>1 DEF AmendmentChain, OneIsActive, n
        <5>3. j # previous
          BY <3>1, <3>4, <5>1, <5>2
        <5> QED
          BY <3>1, <3>2, <5>1, <5>2, <5>3
      <4> QED
        BY <4>1, <4>2
    <3> QED
      BY <3>1, <3>5, <3>6 DEF AmendmentChain, OlderIsSuperseded, OneIsActive
  <2> QED
    BY <1>2, <2>1, <2>2, StepKinds DEF Judges, Replaces
<1> QED
  BY <1>1, <1>2, ConsistentInvariant, PTL DEF Spec

\* Of all the reports committed under one reference exactly the newest is
\* active, through any chain of amendments.
THEOREM NewestIsActive == Spec => []ActiveIsLatest
<1>1. Consistent /\ AmendmentChain => ActiveIsLatest
  <2> SUFFICES ASSUME Consistent, AmendmentChain,
                      NEW i \in 1..Len(reports), NEW j \in 1..Len(reports),
                      reports[i].ref = reports[j].ref
               PROVE  /\ i < j => reports[i].version < reports[j].version
                      /\ i < j => reports[i].status = "superseded"
                      /\ (\A k \in 1..Len(reports) :
                             reports[k].ref = reports[i].ref => k <= i)
                           => reports[i].status = "active"
    BY DEF ActiveIsLatest
  <2>1. PICK k \in 1..Len(reports) : reports[k].ref = reports[i].ref
                                     /\ reports[k].status = "active"
    BY DEF AmendmentChain, OneIsActive
  <2>2. k < i => reports[k].status = "superseded"
    BY <2>1 DEF AmendmentChain, OlderIsSuperseded
  <2> QED
    BY <2>1, <2>2 DEF AmendmentChain, OlderIsSuperseded
<1> QED
  BY <1>1, ConsistentInvariant, AmendmentChainInvariant, PTL

-----------------------------------------------------------------------------
(***************************************************************************)
(* The log of verdicts can be replayed.                                    *)
(***************************************************************************)

\* The lines matched by the rows of the log q before its i-th.
MatchedBefore(q, i) ==
    {q[j].line : j \in {k \in 1..(i - 1) : LiveMatch(q[k]) /\ q[k].report = q[i].report}}

\* A row says what the rules say.
FollowsRules(row, p, lines, loaded, e) ==
    LET v == Reconcile(p.container, p.vin, lines, loaded, e)
    IN  row.outcome = v.outcome /\ row.line = v.line

LEMMA ReplayIsFollowsRules ==
    VerdictsReplay <=>
      \A i \in Originals :
        \E e \in BOOLEAN :
           /\ e => recon[i].report \in expired
           /\ FollowsRules(recon[i], payload[recon[i].session], LinesOf(recon[i].report),
                           MatchedBefore(recon, i), e)
BY DEF VerdictsReplay, FollowsRules, MatchedBefore, LoadedBefore

\* Every verdict, amended, expired and overridden since or not, is what the
\* rules say on the report version it cites and the matches logged before it.
THEOREM LogReplays == Spec => []VerdictsReplay
<1> DEFINE Replays(i) ==
             \E e \in BOOLEAN :
               /\ e => recon[i].report \in expired
               /\ FollowsRules(recon[i], payload[recon[i].session],
                               LinesOf(recon[i].report), MatchedBefore(recon, i), e)
           Inv == \A i \in 1..Len(recon) : recon[i].supersedes = 0 => Replays(i)
<1>1. Init => Inv
  BY DEF Init
<1>2. ASSUME Consistent, [Next]_vars, Inv
      PROVE  Inv'
  <2> USE DEF Consistent
  <2>1. /\ Len(recon) \in Nat /\ Len(recon') \in {Len(recon), Len(recon) + 1}
        /\ \A i \in 1..Len(recon) : recon'[i] = recon[i]
    BY <1>2, RowsKept
  <2>2. ASSUME NEW i \in 1..Len(recon), recon[i].supersedes = 0
        PROVE  Replays(i)'
    <3>1. recon'[i] = recon[i]
      BY <2>1
    <3>2. MatchedBefore(recon', i) = MatchedBefore(recon, i)
      BY <2>1 DEF MatchedBefore
    <3>3. LinesOf(recon[i].report)' = LinesOf(recon[i].report)
      <4>1. /\ recon[i].report \in 0..Len(reports)
            /\ \A r \in 1..Len(reports) : reports'[r].lines = reports[r].lines
        BY <1>2, ReportsKept DEF RowsHaveSessions
      <4> QED
        BY <3>1, <4>1 DEF LinesOf
    <3>4. payload'[recon[i].session] = payload[recon[i].session]
      BY <1>2, StepKinds DEF SessionsKept, RowsHaveSessions, SessionsHavePayloads, TypeOK
    <3>5. expired \subseteq expired'
      BY <1>2, StepKinds DEF SessionsKept
    <3>6. PICK e \in BOOLEAN :
             /\ e => recon[i].report \in expired
             /\ FollowsRules(recon[i], payload[recon[i].session],
                             LinesOf(recon[i].report), MatchedBefore(recon, i), e)
      BY <1>2, <2>2
    <3> QED
      BY <3>1, <3>2, <3>3, <3>4, <3>5, <3>6
  <2>3. ASSUME NEW s \in Sessions, NEW p \in Payloads, NEW r \in 0..Len(reports),
               NEW n \in Nat, n = Len(recon) + 1, Judges(s, p, r)
        PROVE  Replays(n)'
    <3> DEFINE row == SubmittedRow(s, p, r)
    <3>1. /\ row \in ReconRow /\ row.session = s /\ row.report = r
          /\ row.outcome = VerdictOn(p, r).outcome
          /\ row.line = VerdictOn(p, r).line
      BY <1>2, <2>3, SubmittedRowFacts DEF Judges
    <3>2. Len(recon') = n /\ recon'[n] = row
      BY <2>3, <3>1, AppendFacts DEF Judges, TypeOK
    <3>3. payload'[s] = p
      BY <1>2, <2>3 DEF Judges, NewSession, TypeOK
    <3>4. LinesOf(recon[n].report)' = LinesOf(r)
      BY <2>3, <3>1, <3>2 DEF LinesOf, Judges
    <3>5. MatchedBefore(recon', n) = LoadedVinsFor(r)
      <4>1. \A k \in 1..Len(recon) :
               /\ recon'[k] = recon[k]
               /\ LiveMatch(recon[k]) => recon[k].vin = recon[k].line
        BY <1>2, <2>1 DEF MatchesNameLines
      <4>2. n - 1 = Len(recon) /\ recon'[n].report = r
        BY <2>1, <2>3, <3>1, <3>2
      <4> QED
        BY <4>1, <4>2 DEF MatchedBefore, LoadedVinsFor
    <3>6. expired' = expired
      BY <2>3 DEF Judges
    <3>7. /\ (r \in expired) \in BOOLEAN
          /\ FollowsRules(row, p, LinesOf(r), LoadedVinsFor(r), r \in expired)
      BY <3>1 DEF FollowsRules, VerdictOn
    <3> HIDE DEF row
    <3>8. \E e \in BOOLEAN :
             /\ e => r \in expired
             /\ FollowsRules(row, p, LinesOf(r), LoadedVinsFor(r), e)
      BY <3>7
    <3> QED
      BY <3>1, <3>2, <3>3, <3>4, <3>5, <3>6, <3>8
  <2>4. ASSUME NEW i \in 1..Len(recon), Replaces(i)
        PROVE  recon'[Len(recon) + 1].supersedes # 0
    BY <1>2, <2>4, OverrideRowFacts, AppendFacts DEF Replaces, TypeOK
  <2> SUFFICES ASSUME NEW i \in 1..Len(recon'), recon'[i].supersedes = 0
               PROVE  Replays(i)'
    OBVIOUS
  <2>5. CASE i \in 1..Len(recon)
    BY <2>1, <2>2, <2>5
  <2>6. CASE i \notin 1..Len(recon)
    <3>1. i \in Nat /\ i = Len(recon) + 1 /\ recon' # recon
      BY <2>1, <2>6
    <3> HIDE DEF Replays
    <3> QED
      BY <1>2, <2>3, <2>4, <3>1, StepKinds DEF Publishes
  <2> QED
    BY <2>5, <2>6
<1>3. Inv => VerdictsReplay
  BY ReplayIsFollowsRules DEF Originals
<1> QED
  BY <1>1, <1>2, <1>3, ConsistentInvariant, PTL DEF Spec

-----------------------------------------------------------------------------
(***************************************************************************)
(* What the dossier of a container may be trusted with.                    *)
(***************************************************************************)
\* A verdict is never marked overridden: only the row that replaces it is.
VerdictsStand ==
    \A i \in 1..Len(recon) : recon[i].supersedes = 0 => ~recon[i].overridden

LEMMA VerdictsStandInvariant == Spec => []VerdictsStand
<1>1. Init => VerdictsStand
  BY DEF Init, VerdictsStand
<1>2. ASSUME Consistent, [Next]_vars, VerdictsStand
      PROVE  VerdictsStand'
  <2>1. CASE recon' = recon
    BY <1>2, <2>1 DEF VerdictsStand
  <2>2. ASSUME NEW row \in ReconRow, recon' = Append(recon, row),
               row.supersedes = 0 => ~row.overridden
        PROVE  VerdictsStand'
    <3>1. /\ Len(recon) \in Nat /\ Len(recon') = Len(recon) + 1
          /\ recon'[Len(recon) + 1] = row
          /\ \A i \in 1..Len(recon) : recon'[i] = recon[i]
      BY <1>2, <2>2, AppendFacts DEF Consistent, TypeOK
    <3>2. \A i \in 1..Len(recon') : recon'[i].supersedes = 0 => ~recon'[i].overridden
      BY <1>2, <2>2, <3>1 DEF VerdictsStand
    <3> QED
      BY <3>2 DEF VerdictsStand
  <2>3. ASSUME NEW s \in Sessions, NEW p \in Payloads, NEW r \in 0..Len(reports), Judges(s, p, r)
        PROVE  VerdictsStand'
    <3>1. /\ SubmittedRow(s, p, r) \in ReconRow
          /\ ~SubmittedRow(s, p, r).overridden
          /\ recon' = Append(recon, SubmittedRow(s, p, r))
      BY <1>2, <2>3, SubmittedRowFacts DEF Judges, Consistent
    <3> QED
      BY <2>2, <3>1
  <2>4. ASSUME NEW i \in 1..Len(recon), Replaces(i)
        PROVE  VerdictsStand'
    BY <1>2, <2>2, <2>4, OverrideRowFacts DEF Replaces, Consistent
  <2> QED
    BY <1>2, <2>1, <2>3, <2>4, StepKinds DEF Consistent, Publishes
<1> QED
  BY <1>1, <1>2, ConsistentInvariant, PTL DEF Spec

(***************************************************************************)
(* The dossier's own test never runs ahead of the gate's: with one report  *)
(* in use, a container it calls complete has all its vehicles on record.   *)
(***************************************************************************)
THEOREM NeverEarly == Spec => []DossierNeverEarly
<1>1. Consistent /\ VerdictsStand => DossierNeverEarly
  <2> SUFFICES ASSUME Consistent, VerdictsStand,
                      NEW r \in Active, NEW c \in Containers,
                      OneReportUsed(r), DossierComplete(c)
               PROVE  IsContainerComplete(c, LinesOf(r), LoadedVinsFor(r))
    BY DEF DossierNeverEarly
  <2>1. Vehicles(c) = LinesFor(c, LinesOf(r))
    BY DEF Vehicles, OneReportUsed
  <2>2. ASSUME NEW v \in Vehicles(c)
        PROVE  v \in LoadedVinsFor(r)
    <3>1. PICK i \in VerdictRows(v) : recon[i].outcome = "MATCH"
      BY <2>2 DEF DossierComplete, DossierLoaded, ShownAsMatch
    <3>2. i \in 1..Len(recon) /\ recon[i].vin = v /\ LiveMatch(recon[i])
      BY <3>1 DEF VerdictRows, LiveMatch, VerdictsStand
    <3>3. recon[i].report = r
      BY <3>2 DEF OneReportUsed, Consistent, MatchesNameLines
    <3> QED
      BY <3>2, <3>3 DEF LoadedVinsFor
  <2> QED
    BY <2>1, <2>2 DEF IsContainerComplete, DossierComplete
<1> QED
  BY <1>1, ConsistentInvariant, VerdictsStandInvariant, PTL

-----------------------------------------------------------------------------
(***************************************************************************)
(* Sessions without a verdict.                                             *)
(***************************************************************************)

\* How a session comes to be stored: with one scan, by a request that died,
\* with its verdict, or with a verdict the unique index refused.
LEMMA NewSessionKinds ==
    ASSUME Consistent, [Next]_vars
    PROVE  /\ crashes \in Nat /\ crashes' \in Nat /\ crashes <= crashes'
           /\ \A s \in sessions' \ sessions :
                \/ ~payload'[s].paired
                \/ crashes' > 0
                \/ \E i \in 1..Len(recon') : /\ recon'[i].supersedes = 0
                                            /\ recon'[i].session = s
                \/ \E p \in Payloads : \E r \in LoadActiveReport(p.location) :
                      payload'[s] = p /\ IndexRefuses(SubmittedRow(s, p, r))
<1> DEFINE Kind(s) ==
             \/ ~payload'[s].paired
             \/ crashes' > 0
             \/ \E i \in 1..Len(recon') : /\ recon'[i].supersedes = 0
                                         /\ recon'[i].session = s
             \/ \E p \in Payloads : \E r \in LoadActiveReport(p.location) :
                   payload'[s] = p /\ IndexRefuses(SubmittedRow(s, p, r))
           Goal == /\ crashes' \in {crashes, crashes + 1}
                   /\ \A s \in sessions' \ sessions : Kind(s)
<1>1. crashes \in Nat /\ TypeOK
  BY ServerAssumption DEF Consistent, TypeOK
<1>2. ASSUME UNCHANGED <<sessions, crashes>> PROVE Goal
  BY <1>2
<1>3. ASSUME Restart, UNCHANGED sessions PROVE Goal
  BY <1>3 DEF Restart
<1>4. ASSUME NEW s \in Sessions, NEW p \in Payloads, Upload(s, p) PROVE Goal
  <2>1. CASE UploadRejected(s, p) \/ UploadDuplicate(s, p)
    BY <1>2, <2>1 DEF UploadRejected, UploadDuplicate
  <2>2. ASSUME NewSession(s, p)
        PROVE  payload'[s] = p /\ sessions' \ sessions = {s}
    BY <1>1, <2>2 DEF NewSession, TypeOK
  <2>3. CASE UploadIncomplete(s, p)
    BY <2>2, <2>3 DEF UploadIncomplete
  <2>4. CASE UploadConflict(s, p)
    BY <2>2, <2>4 DEF UploadConflict
  <2>5. ASSUME NEW h \in Handlers, UploadJudged(h, s, p) PROVE Goal
    <3>1. PICK r \in LoadActiveReport(p.location) :
             recon' = Append(recon, SubmittedRow(s, p, r))
      BY <2>5 DEF UploadJudged
    <3>2. /\ SubmittedRow(s, p, r) \in ReconRow
          /\ SubmittedRow(s, p, r).session = s
          /\ SubmittedRow(s, p, r).supersedes = 0
      BY <1>1, SubmittedRowFacts
    <3>3. /\ Len(recon) + 1 \in 1..Len(recon')
          /\ recon'[Len(recon) + 1] = SubmittedRow(s, p, r)
      BY <1>1, <3>1, <3>2, AppendFacts DEF TypeOK
    <3> QED
      BY <2>2, <2>5, <3>2, <3>3 DEF UploadJudged
  <2>6. CASE CrashAfterSession(s, p) \/ CrashAfterVerdict(s, p)
    BY <1>1, <2>6 DEF CrashAfterSession, CrashAfterVerdict, Restart
  <2> QED
    BY <1>4, <2>1, <2>3, <2>4, <2>5, <2>6 DEF Upload
<1>5. ASSUME NEW d \in Deliveries, CommitReport(d) PROVE Goal
  BY <1>2, <1>5 DEF CommitReport
<1>6. ASSUME NEW r \in 1..Len(reports), ReportExpires(r) PROVE Goal
  BY <1>2, <1>6 DEF ReportExpires
<1>7. ASSUME NEW h \in Handlers, Proceed(h) PROVE Goal
  BY <1>2, <1>7 DEF Proceed, VerdictMailed, ContainerSealed, SealMailed, Accept,
                    OverrideMailed
<1>8. ASSUME NEW h \in Handlers, NEW i \in 1..Len(recon), Override(h, i) PROVE Goal
  BY <1>2, <1>8 DEF Override
<1>9. ASSUME Crash PROVE Goal
  BY <1>3, <1>9 DEF Crash
<1>10. ASSUME NEW i \in 1..Len(recon), CrashAfterOverride(i) PROVE Goal
  BY <1>3, <1>10 DEF CrashAfterOverride
<1>11. ASSUME NEW h \in Handlers, CrashAfterMail(h) \/ CrashAfterPresign(h) PROVE Goal
  BY <1>3, <1>11 DEF CrashAfterMail, CrashAfterPresign
<1>12. ASSUME UNCHANGED vars PROVE Goal
  BY <1>2, <1>12 DEF vars
<1>13. Goal
  BY <1>4, <1>5, <1>6, <1>7, <1>8, <1>9, <1>10, <1>11, <1>12 DEF Next
<1> QED
  BY <1>1, <1>13

\* A stored session with both scans and no verdict was left by a crash, or by a
\* misread VIN that fits a line already loaded: the server loses no verdict in
\* any other way (uploadOne in server.ts, idx_recon_one_live_match).
THEOREM OnlyCrashOrMisreadStrands == Spec => []StrandedOnlyByCrashOrMisread
<1> DEFINE Judged(s) == \E i \in 1..Len(recon) :
                           recon[i].supersedes = 0 /\ recon[i].session = s
           Misread(s) == \E i \in 1..Len(recon) :
                            /\ recon[i].supersedes = 0
                            /\ LiveMatch(recon[i])
                            /\ recon[i].line # payload[s].vin
                            /\ Confidence[payload[s].vin][recon[i].line] >= FuzzyThreshold
           Inv == \A s \in sessions :
                     payload[s].paired => Judged(s) \/ crashes > 0 \/ Misread(s)
<1>1. Init => Inv
  BY DEF Init
<1>2. ASSUME Consistent, [Next]_vars, Inv
      PROVE  Inv'
  <2>1. /\ Len(recon) \in Nat /\ Len(recon') \in {Len(recon), Len(recon) + 1}
        /\ \A i \in 1..Len(recon) : recon'[i] = recon[i]
    BY <1>2, RowsKept
  <2>2. crashes \in Nat /\ crashes' \in Nat /\ crashes <= crashes'
    BY <1>2, NewSessionKinds
  <2>3. 1..Len(recon) \subseteq 1..Len(recon')
    BY <2>1
  <2> SUFFICES ASSUME NEW s \in sessions', payload'[s].paired
               PROVE  Judged(s)' \/ crashes' > 0 \/ Misread(s)'
    OBVIOUS
  <2>4. CASE s \in sessions
    <3>1. payload'[s] = payload[s]
      BY <1>2, <2>4, StepKinds DEF Consistent, TypeOK, SessionsHavePayloads, SessionsKept
    <3>2. Judged(s) => Judged(s)'
      BY <2>1, <2>3
    <3>3. Misread(s) => Misread(s)'
      BY <2>1, <2>3, <3>1 DEF LiveMatch
    <3> QED
      BY <1>2, <2>2, <2>4, <3>1, <3>2, <3>3
  <2>5. CASE s \notin sessions
    <3>1. ASSUME NEW p \in Payloads, NEW r \in LoadActiveReport(p.location),
                 payload'[s] = p, IndexRefuses(SubmittedRow(s, p, r))
          PROVE  Misread(s)'
      <4>1. s \in Sessions
        BY <1>2, StepKinds DEF Consistent, SessionsKept
      <4>2. PICK i \in 1..Len(recon) : /\ LiveMatch(recon[i])
                                       /\ recon[i].report = SubmittedRow(s, p, r).report
                                       /\ recon[i].line = SubmittedRow(s, p, r).line
        BY <3>1 DEF IndexRefuses
      <4>3. /\ SubmittedRow(s, p, r).report = r
            /\ Confidence[p.vin][recon[i].line] >= FuzzyThreshold
            /\ p.vin \notin LoadedVinsFor(r)
        BY <1>2, <3>1, <4>1, <4>2, SubmittedRowFacts DEF IndexRefuses, Consistent
      <4>4. recon[i].line \in LoadedVinsFor(r)
        BY <1>2, <4>2, <4>3 DEF Consistent, MatchesNameLines, LoadedVinsFor
      <4>5. /\ i \in 1..Len(recon') /\ recon'[i] = recon[i]
            /\ recon[i].supersedes = 0
            /\ recon[i].line # p.vin
        BY <2>1, <2>3, <4>2, <4>3, <4>4 DEF LiveMatch
      <4> QED
        BY <3>1, <4>2, <4>3, <4>5 DEF LiveMatch
    <3> QED
      BY <1>2, <2>5, <3>1, NewSessionKinds
  <2> QED
    BY <2>4, <2>5
<1>3. Inv => StrandedOnlyByCrashOrMisread
  BY DEF StrandedOnlyByCrashOrMisread, Stranded, VerdictsOf, Originals
<1> QED
  BY <1>1, <1>2, <1>3, ConsistentInvariant, PTL DEF Spec

-----------------------------------------------------------------------------
(***************************************************************************)
(* The mails and the requests that wait for them.                          *)
(***************************************************************************)

\* A request judges its session and waits for the verdict's mail.
Judging(h, s, p, r) ==
    /\ Judges(s, p, r)
    /\ \E n \in NewNote(Len(recon) + 1, SubmittedRow(s, p, r).outcome, p.location) :
          notes' = Append(notes, n)
    /\ handler' = [handler EXCEPT ![h] =
           [at |-> "verdictMail", recon |-> Len(recon) + 1,
            note |-> Len(notes) + 1, snapshot |-> LoadedVinsFor(r)]]

\* What becomes of any other request: nothing, its end, an override, or the
\* last await before its answer, once its mail is past sending.
MovesOn(h) ==
    \/ handler'[h] = handler[h]
    \/ handler'[h].at \in {"idle", "overrideMail"}
    \/ /\ handler[h].at \in {"verdictMail", "sealMail"}
       /\ handler'[h].at = "presign"
       /\ handler'[h].recon = handler[h].recon
       /\ notes' \in Settled(handler[h].note)

\* What may happen to the mails besides.
MailsMoveOn ==
    \/ UNCHANGED notes
    \/ \E h \in Handlers : Busy(h) /\ notes' \in Settled(handler[h].note)
    \/ \E n \in NoteRow : n.event = "OVERRIDE_APPLIED" /\ notes' = Append(notes, n)

\* Every step judges a session, seals a container, or moves mails and requests
\* on without either.
LEMMA MailKinds ==
    ASSUME Consistent, [Next]_vars
    PROVE  \/ \E h \in Handlers, s \in Sessions, p \in Payloads, r \in 0..Len(reports) :
                 Judging(h, s, p, r)
           \/ \E h \in Handlers : ContainerSealed(h)
           \/ MailsMoveOn /\ \A h \in Handlers : MovesOn(h)
<1> DEFINE Quiet == MailsMoveOn /\ \A h \in Handlers : MovesOn(h)
           Goal == \/ \E h \in Handlers, s \in Sessions, p \in Payloads,
                         r \in 0..Len(reports) : Judging(h, s, p, r)
                   \/ \E h \in Handlers : ContainerSealed(h)
                   \/ Quiet
<1>1. TypeOK
  BY DEF Consistent
<1>2. ASSUME UNCHANGED <<notes, handler>> PROVE Quiet
  BY <1>2 DEF MailsMoveOn, MovesOn
<1>3. ASSUME Restart, UNCHANGED notes PROVE Quiet
  BY <1>3 DEF Restart, Idle, MailsMoveOn, MovesOn
<1>4. ASSUME NEW s \in Sessions, NEW p \in Payloads, Upload(s, p) PROVE Goal
  <2>1. ASSUME NEW h \in Handlers, UploadJudged(h, s, p) PROVE Goal
    <3>1. PICK r \in LoadActiveReport(p.location) : Judging(h, s, p, r)
      BY <1>4, <2>1 DEF Upload, UploadJudged, Judging, Judges
    <3>2. r \in 0..Len(reports)
      BY <1>1, LoadActiveReportType
    <3> QED
      BY <3>1, <3>2
  <2>2. CASE \/ UploadRejected(s, p) \/ UploadDuplicate(s, p)
             \/ UploadIncomplete(s, p) \/ UploadConflict(s, p)
    BY <1>2, <2>2 DEF UploadRejected, UploadDuplicate, UploadIncomplete, UploadConflict
  <2>3. CASE CrashAfterSession(s, p) \/ CrashAfterVerdict(s, p)
    BY <1>3, <2>3 DEF CrashAfterSession, CrashAfterVerdict
  <2> QED
    BY <1>4, <2>1, <2>2, <2>3 DEF Upload
<1>5. ASSUME NEW h \in Handlers, Proceed(h) PROVE Goal
  <2>1. handler[h] \in HandlerState
    BY <1>1 DEF TypeOK
  <2>2. CASE VerdictMailed(h) \/ SealMailed(h)
    <3>1. /\ handler[h].at \in {"verdictMail", "sealMail"}
          /\ notes' \in Settled(handler[h].note)
          /\ handler' = [handler EXCEPT ![h].at = "presign"]
      BY <2>2 DEF VerdictMailed, SealMailed
    <3>2. MovesOn(h) /\ \A g \in Handlers \ {h} : handler'[g] = handler[g]
      BY <1>1, <2>1, <3>1 DEF MovesOn, TypeOK, HandlerState
    <3> QED
      BY <3>1, <3>2 DEF MailsMoveOn, MovesOn, Busy
  <2>3. CASE Accept(h)
    BY <1>1, <2>3 DEF Accept, MailsMoveOn, MovesOn, Idle, TypeOK
  <2>4. CASE OverrideMailed(h)
    BY <1>1, <2>4 DEF OverrideMailed, MailsMoveOn, MovesOn, Idle, Busy, TypeOK
  <2> QED
    BY <1>5, <2>2, <2>3, <2>4 DEF Proceed
<1>6. ASSUME NEW h \in Handlers, NEW i \in 1..Len(recon), Override(h, i) PROVE Quiet
  <2>1. PICK n \in NewNote(Len(recon) + 1, "OVERRIDE_APPLIED", None) :
           notes' = Append(notes, n)
    BY <1>6 DEF Override
  <2>2. Len(recon) + 1 \in Nat /\ "OVERRIDE_APPLIED" \in Events
    BY <1>1, TypeElements DEF Events
  <2>3. n \in NoteRow /\ n.event = "OVERRIDE_APPLIED"
    BY <2>2, NewNoteType
  <2>4. \A g \in Handlers : MovesOn(g)
    BY <1>1, <1>6 DEF Override, MovesOn, TypeOK
  <2> QED
    BY <2>1, <2>3, <2>4 DEF MailsMoveOn
<1>7. ASSUME NEW h \in Handlers, CrashAfterMail(h) PROVE Quiet
  BY <1>7 DEF CrashAfterMail, Restart, Idle, MailsMoveOn, MovesOn, Busy
<1>8. ASSUME NEW h \in Handlers, CrashAfterPresign(h) PROVE Quiet
  BY <1>3, <1>8 DEF CrashAfterPresign
<1>9. ASSUME NEW d \in Deliveries, CommitReport(d) PROVE Quiet
  BY <1>2, <1>9 DEF CommitReport
<1>10. ASSUME NEW r \in 1..Len(reports), ReportExpires(r) PROVE Quiet
  BY <1>2, <1>10 DEF ReportExpires
<1>11. ASSUME Crash PROVE Quiet
  BY <1>3, <1>11 DEF Crash
<1>12. ASSUME NEW i \in 1..Len(recon), CrashAfterOverride(i) PROVE Quiet
  BY <1>3, <1>12 DEF CrashAfterOverride
<1>13. ASSUME UNCHANGED vars PROVE Quiet
  BY <1>2, <1>13 DEF vars
<1> HIDE DEF Quiet
<1>14. Goal
  BY <1>4, <1>5, <1>6, <1>7, <1>8, <1>9, <1>10, <1>11, <1>12, <1>13 DEF Next
<1> QED
  BY <1>14 DEF Quiet

\* What judging a session adds: its row, and the mail of that row's verdict.
LEMMA JudgingFacts ==
    ASSUME Consistent, NEW h \in Handlers, NEW s \in Sessions, NEW p \in Payloads,
           NEW r \in 0..Len(reports), Judging(h, s, p, r)
    PROVE  /\ Len(recon) \in Nat /\ Len(recon') = Len(recon) + 1
           /\ \A i \in 1..Len(recon) : recon'[i] = recon[i]
           /\ recon'[Len(recon) + 1] = SubmittedRow(s, p, r)
           /\ Len(notes) \in Nat /\ Len(notes') = Len(notes) + 1
           /\ \A n \in 1..Len(notes) : notes'[n] = notes[n]
           /\ notes'[Len(notes) + 1].recon = Len(recon) + 1
           /\ notes'[Len(notes) + 1].event = SubmittedRow(s, p, r).outcome
           /\ notes'[Len(notes) + 1].event # "CONTAINER_COMPLETE"
           /\ handler'[h].at = "verdictMail" /\ handler'[h].recon = Len(recon) + 1
           /\ handler'[h].note = Len(notes) + 1 /\ handler'[h].snapshot = LoadedVinsFor(r)
           /\ \A g \in Handlers \ {h} : handler'[g] = handler[g]
<1> DEFINE row == SubmittedRow(s, p, r)
<1>1. TypeOK /\ Len(recon) + 1 \in Nat
  BY TypeElements DEF Consistent
<1>2. row \in ReconRow
  BY <1>1, SubmittedRowFacts DEF Judging, Judges
<1>3. PICK n \in NewNote(Len(recon) + 1, row.outcome, p.location) : notes' = Append(notes, n)
  BY DEF Judging
<1>4. /\ row.outcome \in Outcomes /\ row.outcome \in Events /\ "CONTAINER_COMPLETE" \notin Outcomes
      /\ p.location \in Locations \union {None}
  BY <1>2, ServerAssumption DEF ReconRow, Outcomes, Events, PayloadType
<1>5. recon' = Append(recon, row)
  BY DEF Judging, Judges
<1> HIDE DEF row
<1>6. n \in NoteRow /\ n.recon = Len(recon) + 1 /\ n.event = row.outcome
  BY <1>1, <1>3, <1>4, NewNoteType
<1>7. /\ Len(recon) \in Nat /\ Len(recon') = Len(recon) + 1
      /\ recon'[Len(recon) + 1] = row
      /\ \A i \in 1..Len(recon) : recon'[i] = recon[i]
  BY <1>1, <1>2, <1>5, AppendFacts DEF TypeOK
<1>8. /\ Len(notes) \in Nat /\ Len(notes') = Len(notes) + 1
      /\ notes'[Len(notes) + 1] = n
      /\ \A k \in 1..Len(notes) : notes'[k] = notes[k]
  BY <1>1, <1>3, <1>6, AppendFacts DEF TypeOK
<1>9. /\ handler'[h].at = "verdictMail" /\ handler'[h].recon = Len(recon) + 1
      /\ handler'[h].note = Len(notes) + 1 /\ handler'[h].snapshot = LoadedVinsFor(r)
      /\ \A g \in Handlers \ {h} : handler'[g] = handler[g]
  BY <1>1 DEF Judging, TypeOK
<1> QED
  BY <1>4, <1>6, <1>7, <1>8, <1>9 DEF row

\* What a settled mail keeps of the mails q as they were.
MailsKept(q, settled) ==
    /\ Len(settled) = Len(q)
    /\ \A n \in 1..Len(q) :
         /\ settled[n].recon = q[n].recon
         /\ settled[n].event = q[n].event
         /\ q[n].status # "queued" => settled[n].status # "queued"

LEMMA SettledKeeps ==
    ASSUME Consistent, NEW h \in Handlers, Busy(h), NEW settled \in Settled(handler[h].note)
    PROVE  /\ settled \in Seq(NoteRow)
           /\ handler[h].note \in 1..Len(notes)
           /\ settled[handler[h].note].status # "queued"
           /\ MailsKept(notes, settled)
<1>1. TypeOK /\ handler[h].note \in 1..Len(notes)
  BY DEF Consistent, HandlersHaveRows
<1> QED
  BY <1>1, SettledFacts DEF MailsKept

\* What sealing a container does: the verdict's mail is past sending, and the
\* mail of the seal, of the same row, is the new one.
LEMMA SealingFacts ==
    ASSUME Consistent, NEW h \in Handlers, ContainerSealed(h)
    PROVE  /\ handler[h].at = "verdictMail" /\ Completes(h)
           /\ handler[h].recon \in 1..Len(recon)
           /\ handler[h].note \in 1..Len(notes)
           /\ UNCHANGED <<reports, recon>>
           /\ Len(notes) \in Nat /\ Len(notes') = Len(notes) + 1
           /\ \A n \in 1..Len(notes) :
                /\ notes'[n].recon = notes[n].recon
                /\ notes'[n].event = notes[n].event
                /\ notes[n].status # "queued" => notes'[n].status # "queued"
           /\ notes'[handler[h].note].status # "queued"
           /\ notes'[Len(notes) + 1].recon = handler[h].recon
           /\ notes'[Len(notes) + 1].event = "CONTAINER_COMPLETE"
           /\ handler'[h].at = "sealMail" /\ handler'[h].recon = handler[h].recon
           /\ \A g \in Handlers \ {h} : handler'[g] = handler[g]
<1> DEFINE location == payload[recon[handler[h].recon].session].location
<1>1. TypeOK /\ Len(notes) \in Nat /\ Len(recon) \in Nat
  BY TypeElements DEF Consistent
<1>2. Busy(h) /\ handler[h].at = "verdictMail" /\ Completes(h)
  BY DEF ContainerSealed, Busy
<1>3. PICK settled \in Settled(handler[h].note),
           n \in NewNote(handler[h].recon, "CONTAINER_COMPLETE", location) :
         notes' = Append(settled, n)
  BY DEF ContainerSealed
<1>4. handler[h].recon \in 1..Len(recon)
  BY <1>2 DEF Consistent, HandlersHaveRows
<1>5. location \in Locations \union {None}
  BY <1>1, <1>4 DEF Consistent, RowsHaveSessions, TypeOK, SessionsHavePayloads, PayloadType
<1>6. handler[h].recon \in Nat /\ "CONTAINER_COMPLETE" \in Events
  BY <1>1, <1>4 DEF Events
<1> HIDE DEF location
<1>7. n \in NoteRow /\ n.recon = handler[h].recon /\ n.event = "CONTAINER_COMPLETE"
  BY <1>3, <1>5, <1>6, NewNoteType
<1>8. /\ settled \in Seq(NoteRow)
      /\ handler[h].note \in 1..Len(notes)
      /\ settled[handler[h].note].status # "queued"
      /\ MailsKept(notes, settled)
  BY <1>2, <1>3, SettledKeeps
<1>9. /\ Len(notes') = Len(notes) + 1
      /\ notes'[Len(notes) + 1] = n
      /\ \A k \in 1..Len(notes) : notes'[k] = settled[k]
  BY <1>3, <1>7, <1>8, AppendFacts DEF MailsKept
<1>10. /\ UNCHANGED <<reports, recon>>
       /\ handler'[h].at = "sealMail" /\ handler'[h].recon = handler[h].recon
       /\ \A g \in Handlers \ {h} : handler'[g] = handler[g]
  BY <1>1 DEF ContainerSealed, TypeOK
<1> QED
  BY <1>1, <1>2, <1>4, <1>7, <1>8, <1>9, <1>10 DEF MailsKept

\* A mail, once recorded, stays what it is of, and past sending once it is past
\* sending; only a seal adds the mail of a seal.
LEMMA NotesKept ==
    ASSUME Consistent, [Next]_vars
    PROVE  /\ Len(notes) \in Nat /\ Len(notes') \in {Len(notes), Len(notes) + 1}
           /\ \A n \in 1..Len(notes) :
                /\ notes'[n].recon = notes[n].recon
                /\ notes'[n].event = notes[n].event
                /\ notes[n].status # "queued" => notes'[n].status # "queued"
           /\ \A n \in 1..Len(notes') \ 1..Len(notes) :
                /\ n = Len(notes) + 1
                /\ notes'[n].event = "CONTAINER_COMPLETE" =>
                     \E h \in Handlers : ContainerSealed(h)
<1>1. notes \in Seq(NoteRow) /\ Len(notes) \in Nat
  BY TypeElements DEF Consistent, TypeOK
<1>2. ASSUME NEW h \in Handlers, Busy(h), notes' \in Settled(handler[h].note)
      PROVE  MailsKept(notes, notes')
  BY <1>2, SettledKeeps
<1>3. ASSUME NEW n \in NoteRow, notes' = Append(notes, n)
      PROVE  /\ Len(notes') = Len(notes) + 1
             /\ notes'[Len(notes) + 1] = n
             /\ \A k \in 1..Len(notes) : notes'[k] = notes[k]
  BY <1>1, <1>3, AppendFacts
<1>4. ASSUME MailsMoveOn
      PROVE  /\ Len(notes') \in {Len(notes), Len(notes) + 1}
             /\ \A n \in 1..Len(notes) :
                  /\ notes'[n].recon = notes[n].recon
                  /\ notes'[n].event = notes[n].event
                  /\ notes[n].status # "queued" => notes'[n].status # "queued"
             /\ Len(notes') # Len(notes) =>
                  notes'[Len(notes) + 1].event # "CONTAINER_COMPLETE"
  BY <1>1, <1>2, <1>3, <1>4 DEF MailsMoveOn, MailsKept
<1> DEFINE Seal == \E h \in Handlers : ContainerSealed(h)
           Kept == \A n \in 1..Len(notes) :
                     /\ notes'[n].recon = notes[n].recon
                     /\ notes'[n].event = notes[n].event
                     /\ notes[n].status # "queued" => notes'[n].status # "queued"
           Goal == /\ Len(notes') \in {Len(notes), Len(notes) + 1}
                   /\ Kept
                   /\ Len(notes') # Len(notes) =>
                        (notes'[Len(notes) + 1].event = "CONTAINER_COMPLETE" => Seal)
<1>5. ASSUME NEW h \in Handlers, NEW s \in Sessions, NEW p \in Payloads,
             NEW r \in 0..Len(reports), Judging(h, s, p, r)
      PROVE  Goal
  BY <1>5, JudgingFacts
<1>6. ASSUME NEW h \in Handlers, ContainerSealed(h) PROVE Goal
  BY <1>6, SealingFacts
<1>7. MailsMoveOn => Goal
  BY <1>4
<1> HIDE DEF Goal
<1>8. Goal
  BY <1>5, <1>6, <1>7, MailKinds
<1>9. ASSUME NEW n \in 1..Len(notes') \ 1..Len(notes)
      PROVE  n = Len(notes) + 1 /\ Len(notes') # Len(notes)
  BY <1>1, <1>8 DEF Goal
<1> QED
  BY <1>1, <1>8, <1>9 DEF Goal

(***************************************************************************)
(* What the safety of mails and seals rests on.  A request knows its row;  *)
(* the loaded set it read before its await is that of the log before that  *)
(* row; and a container that is sealed was full by that row of the log.    *)
(***************************************************************************)
\* The mail of the i-th verdict has been sent, failed or been skipped.
MailPastSending(i) ==
    \E n \in 1..Len(notes) :
        /\ notes[n].recon = i
        /\ notes[n].event = recon[i].outcome
        /\ notes[n].status # "queued"

RequestsKnowTheirVerdict ==
    \A h \in Handlers :
        /\ handler[h].at \in {"verdictMail", "sealMail", "presign"} =>
             recon[handler[h].recon].supersedes = 0
        /\ handler[h].at = "verdictMail" =>
             /\ notes[handler[h].note].recon = handler[h].recon
             /\ notes[handler[h].note].event = recon[handler[h].recon].outcome
             /\ handler[h].snapshot \subseteq MatchedBefore(recon, handler[h].recon)
             /\ \A n \in Seals : notes[n].recon # handler[h].recon
        /\ handler[h].at \in {"sealMail", "presign"} => MailPastSending(handler[h].recon)

VerdictMailsAreOwn ==
    \A g, h \in Handlers :
        /\ handler[g].at = "verdictMail" /\ handler[h].at = "verdictMail"
        /\ handler[g].recon = handler[h].recon
        => g = h

MatchesAreThePayloads ==
    \A i \in 1..Len(recon) :
        LiveMatch(recon[i]) => recon[i].container = payload[recon[i].session].container

\* The i-th row is a match that filled its container, going by the log up to it.
FilledBy(i) ==
    LET lines == LinesFor(recon[i].container, LinesOf(recon[i].report))
    IN  /\ i \in 1..Len(recon)
        /\ LiveMatch(recon[i])
        /\ lines # {}
        /\ lines \subseteq MatchedBefore(recon, i) \union {recon[i].line}

SealsFollowTheLog ==
    /\ \A n \in Seals : FilledBy(notes[n].recon)
    /\ \A n, k \in Seals : notes[n].recon = notes[k].recon => n = k

MailsFollowVerdicts ==
    /\ RequestsKnowTheirVerdict
    /\ VerdictMailsAreOwn
    /\ MatchesAreThePayloads
    /\ SealsFollowTheLog

\* What the log says of a row is settled when the row is written.
LEMMA LogIsSettled ==
    ASSUME Consistent, [Next]_vars, NEW i \in 1..Len(recon)
    PROVE  /\ i \in 1..Len(recon') /\ recon'[i] = recon[i]
           /\ MatchedBefore(recon', i) = MatchedBefore(recon, i)
           /\ LinesOf(recon[i].report)' = LinesOf(recon[i].report)
           /\ recon[i].session \in Sessions
           /\ payload'[recon[i].session] = payload[recon[i].session]
           /\ MailPastSending(i) => MailPastSending(i)'
<1>1. /\ Len(recon) \in Nat /\ Len(recon') \in {Len(recon), Len(recon) + 1}
      /\ \A j \in 1..Len(recon) : recon'[j] = recon[j]
  BY RowsKept
<1>2. MatchedBefore(recon', i) = MatchedBefore(recon, i)
  BY <1>1 DEF MatchedBefore
<1>3. LinesOf(recon[i].report)' = LinesOf(recon[i].report)
  <2>1. /\ recon[i].report \in 0..Len(reports) /\ recon'[i] = recon[i]
        /\ \A r \in 1..Len(reports) : reports'[r].lines = reports[r].lines
    BY <1>1, ReportsKept DEF Consistent, RowsHaveSessions
  <2> QED
    BY <2>1 DEF LinesOf
<1>4. /\ recon[i].session \in Sessions
      /\ payload'[recon[i].session] = payload[recon[i].session]
  BY StepKinds DEF SessionsKept, Consistent, RowsHaveSessions, SessionsHavePayloads, TypeOK
<1>5. MailPastSending(i) => MailPastSending(i)'
  <2>1. /\ 1..Len(notes) \subseteq 1..Len(notes')
        /\ \A n \in 1..Len(notes) :
             /\ notes'[n].recon = notes[n].recon
             /\ notes'[n].event = notes[n].event
             /\ notes[n].status # "queued" => notes'[n].status # "queued"
    BY NotesKept
  <2> QED
    BY <1>1, <2>1 DEF MailPastSending
<1> QED
  BY <1>1, <1>2, <1>3, <1>4, <1>5

\* A seal stays the seal it is; a new one is of the row of the request that
\* sealed, whatever mails are added meanwhile.
LEMMA SealsKept ==
    ASSUME Consistent, [Next]_vars
    PROVE  /\ Seals \subseteq Seals'
           /\ \A n \in Seals : notes'[n].recon = notes[n].recon
           /\ \A n \in Seals' \ Seals :
                /\ n = Len(notes) + 1
                /\ \E h \in Handlers : /\ ContainerSealed(h)
                                       /\ notes'[n].recon = handler[h].recon
           /\ \A h \in Handlers : ContainerSealed(h) => Seals' = Seals \union {Len(notes) + 1}
<1>1. /\ Len(notes) \in Nat /\ Len(notes') \in {Len(notes), Len(notes) + 1}
      /\ \A n \in 1..Len(notes) : /\ notes'[n].recon = notes[n].recon
                                  /\ notes'[n].event = notes[n].event
      /\ \A n \in 1..Len(notes') \ 1..Len(notes) :
           /\ n = Len(notes) + 1
           /\ notes'[n].event = "CONTAINER_COMPLETE" => \E h \in Handlers : ContainerSealed(h)
  BY NotesKept
<1>2. Seals \subseteq Seals' /\ \A n \in Seals : notes'[n].recon = notes[n].recon
  BY <1>1 DEF Seals
<1>3. ASSUME NEW n \in Seals' \ Seals
      PROVE  /\ n = Len(notes) + 1
             /\ \E h \in Handlers : /\ ContainerSealed(h)
                                    /\ notes'[n].recon = handler[h].recon
  <2>1. /\ n \in 1..Len(notes') /\ n \notin 1..Len(notes)
        /\ notes'[n].event = "CONTAINER_COMPLETE"
    BY <1>1 DEF Seals
  <2>2. n = Len(notes) + 1
    BY <1>1, <2>1
  <2>3. PICK h \in Handlers : ContainerSealed(h)
    BY <1>1, <2>1
  <2>4. notes'[Len(notes) + 1].recon = handler[h].recon
    BY <2>3, SealingFacts
  <2> QED
    BY <2>2, <2>3, <2>4
<1>4. ASSUME NEW h \in Handlers, ContainerSealed(h)
      PROVE  Seals' = Seals \union {Len(notes) + 1}
  <2>1. /\ Len(notes') = Len(notes) + 1
        /\ notes'[Len(notes) + 1].event = "CONTAINER_COMPLETE"
    BY <1>4, SealingFacts
  <2>2. Len(notes) + 1 \in Seals'
    BY <1>1, <2>1 DEF Seals
  <2> QED
    BY <1>2, <1>3, <2>2
<1> QED
  BY <1>2, <1>3, <1>4

\* A request that waits for its verdict's mail got there by judging, or waits on.
LEMMA WaitsForVerdictMail ==
    ASSUME Consistent, [Next]_vars, NEW h \in Handlers, handler'[h].at = "verdictMail"
    PROVE  \/ handler'[h] = handler[h]
           \/ \E s \in Sessions, p \in Payloads, r \in 0..Len(reports) : Judging(h, s, p, r)
<1>1. ASSUME NEW g \in Handlers, NEW s \in Sessions, NEW p \in Payloads,
             NEW r \in 0..Len(reports), Judging(g, s, p, r)
      PROVE  g # h => handler'[h] = handler[h]
  BY <1>1, JudgingFacts
<1>2. ASSUME NEW g \in Handlers, ContainerSealed(g)
      PROVE  handler'[h] = handler[h]
  BY <1>2, SealingFacts
<1>3. MovesOn(h) => handler'[h] = handler[h]
  BY DEF MovesOn
<1> QED
  BY <1>1, <1>2, <1>3, MailKinds

LEMMA VerdictMailsStayOwn ==
    ASSUME Consistent, [Next]_vars, VerdictMailsAreOwn
    PROVE  VerdictMailsAreOwn'
<1>1. \A h \in Handlers : handler[h].at = "verdictMail" => handler[h].recon \in 1..Len(recon)
  BY DEF Consistent, HandlersHaveRows, Busy
<1>2. ASSUME NEW g \in Handlers, NEW s \in Sessions, NEW p \in Payloads,
             NEW r \in 0..Len(reports), Judging(g, s, p, r)
      PROVE  /\ Len(recon) \in Nat
             /\ handler'[g].recon = Len(recon) + 1
             /\ \A h \in Handlers \ {g} : handler'[h] = handler[h]
  BY <1>2, JudgingFacts
<1>3. ASSUME NEW g \in Handlers, NEW h \in Handlers, NEW s \in Sessions, NEW p \in Payloads,
             NEW r \in 0..Len(reports), Judging(g, s, p, r),
             handler'[h].at = "verdictMail", handler'[g].recon = handler'[h].recon
      PROVE  g = h
  BY <1>1, <1>2, <1>3
<1> SUFFICES ASSUME NEW g \in Handlers, NEW h \in Handlers,
                    handler'[g].at = "verdictMail", handler'[h].at = "verdictMail",
                    handler'[g].recon = handler'[h].recon
             PROVE  g = h
  BY DEF VerdictMailsAreOwn
<1> QED
  BY <1>3, WaitsForVerdictMail DEF VerdictMailsAreOwn

LEMMA MatchesStayThePayloads ==
    ASSUME Consistent, [Next]_vars, MatchesAreThePayloads
    PROVE  MatchesAreThePayloads'
<1>1. Len(recon) \in Nat /\ TypeOK
  BY TypeElements DEF Consistent
<1>2. ASSUME NEW i \in 1..Len(recon), LiveMatch(recon[i])'
      PROVE  recon'[i].container = payload'[recon'[i].session].container
  BY <1>2, LogIsSettled DEF MatchesAreThePayloads, LiveMatch
<1>3. ASSUME NEW row \in ReconRow, recon' = Append(recon, row),
             LiveMatch(row) => row.container = payload'[row.session].container
      PROVE  MatchesAreThePayloads'
  <2>1. Len(recon') = Len(recon) + 1 /\ recon'[Len(recon) + 1] = row
    BY <1>1, <1>3, AppendFacts DEF TypeOK
  <2> QED
    BY <1>1, <1>2, <1>3, <2>1 DEF MatchesAreThePayloads, LiveMatch
<1>4. ASSUME NEW s \in Sessions, NEW p \in Payloads, NEW r \in 0..Len(reports), Judges(s, p, r)
      PROVE  MatchesAreThePayloads'
  <2> DEFINE row == SubmittedRow(s, p, r)
  <2>1. row \in ReconRow /\ row.session = s /\ (LiveMatch(row) => row.container = p.container)
    BY <1>1, <1>4, SubmittedRowFacts DEF Judges
  <2>2. payload'[s] = p /\ recon' = Append(recon, row)
    BY <1>1, <1>4 DEF Judges, NewSession, TypeOK
  <2> HIDE DEF row
  <2> QED
    BY <1>3, <2>1, <2>2
<1>5. ASSUME NEW i \in 1..Len(recon), Replaces(i)
      PROVE  MatchesAreThePayloads'
  BY <1>1, <1>3, <1>5, OverrideRowFacts DEF Replaces
<1>6. ASSUME UNCHANGED recon PROVE MatchesAreThePayloads'
  BY <1>2, <1>6 DEF MatchesAreThePayloads
<1> QED
  BY <1>1, <1>4, <1>5, <1>6, StepKinds DEF Publishes

\* A request past its verdict's mail has the row it had, and was already past
\* that mail or has just seen it go.
LEMMA PastVerdictMail ==
    ASSUME Consistent, [Next]_vars, NEW h \in Handlers,
           handler'[h].at \in {"sealMail", "presign"}
    PROVE  /\ handler'[h].recon = handler[h].recon
           /\ handler[h].recon \in 1..Len(recon)
           /\ \/ handler[h].at \in {"sealMail", "presign"}
              \/ /\ handler[h].at = "verdictMail"
                 /\ handler[h].note \in 1..Len(notes)
                 /\ notes'[handler[h].note].status # "queued"
<1> DEFINE Goal == /\ handler'[h].recon = handler[h].recon
                   /\ Busy(h)
                   /\ \/ handler[h].at \in {"sealMail", "presign"}
                      \/ /\ handler[h].at = "verdictMail"
                         /\ handler[h].note \in 1..Len(notes)
                         /\ notes'[handler[h].note].status # "queued"
<1>1. ASSUME handler'[h] = handler[h] PROVE Goal
  BY <1>1 DEF Busy
<1>2. ASSUME NEW g \in Handlers, NEW s \in Sessions, NEW p \in Payloads,
             NEW r \in 0..Len(reports), Judging(g, s, p, r)
      PROVE  Goal
  <2>1. handler'[g].at = "verdictMail" /\ (g # h => handler'[h] = handler[h])
    BY <1>2, JudgingFacts
  <2> QED
    BY <1>1, <2>1
<1>3. ASSUME NEW g \in Handlers, ContainerSealed(g) PROVE Goal
  <2>1. /\ handler[g].at = "verdictMail"
        /\ handler[g].note \in 1..Len(notes)
        /\ notes'[handler[g].note].status # "queued"
        /\ handler'[g].recon = handler[g].recon
        /\ g # h => handler'[h] = handler[h]
    BY <1>3, SealingFacts
  <2> QED
    BY <1>1, <2>1 DEF Busy
<1>4. ASSUME MovesOn(h) PROVE Goal
  <2>1. CASE /\ handler[h].at \in {"verdictMail", "sealMail"}
             /\ handler'[h].at = "presign"
             /\ handler'[h].recon = handler[h].recon
             /\ notes' \in Settled(handler[h].note)
    <3>1. Busy(h)
      BY <2>1 DEF Busy
    <3>2. handler[h].note \in 1..Len(notes) /\ notes'[handler[h].note].status # "queued"
      BY <2>1, <3>1, SettledKeeps
    <3> QED
      BY <2>1, <3>1, <3>2
  <2> QED
    BY <1>1, <1>4, <2>1 DEF MovesOn
<1> HIDE DEF Goal
<1>5. Goal
  BY <1>2, <1>3, <1>4, MailKinds
<1> QED
  BY <1>5 DEF Goal, Consistent, HandlersHaveRows

LEMMA RequestsStayInformed ==
    ASSUME Consistent, [Next]_vars, RequestsKnowTheirVerdict, VerdictMailsAreOwn,
           SealsFollowTheLog
    PROVE  RequestsKnowTheirVerdict'
<1>1. ASSUME NEW h \in Handlers, handler'[h].at = "verdictMail"
      PROVE  /\ recon'[handler'[h].recon].supersedes = 0
             /\ notes'[handler'[h].note].recon = handler'[h].recon
             /\ notes'[handler'[h].note].event = recon'[handler'[h].recon].outcome
             /\ handler'[h].snapshot \subseteq MatchedBefore(recon', handler'[h].recon)
             /\ \A n \in Seals' : notes'[n].recon # handler'[h].recon
  <2>1. CASE handler'[h] = handler[h]
    <3> DEFINE i == handler[h].recon
    <3>1. /\ i \in 1..Len(recon) /\ handler[h].note \in 1..Len(notes)
          /\ recon[i].supersedes = 0
          /\ notes[handler[h].note].recon = i
          /\ notes[handler[h].note].event = recon[i].outcome
          /\ handler[h].snapshot \subseteq MatchedBefore(recon, i)
          /\ \A n \in Seals : notes[n].recon # i
      BY <1>1, <2>1 DEF RequestsKnowTheirVerdict, Consistent, HandlersHaveRows, Busy
    <3>2. recon'[i] = recon[i] /\ MatchedBefore(recon', i) = MatchedBefore(recon, i)
      BY <3>1, LogIsSettled
    <3>3. /\ notes'[handler[h].note].recon = notes[handler[h].note].recon
          /\ notes'[handler[h].note].event = notes[handler[h].note].event
      BY <3>1, NotesKept
    <3>4. ASSUME NEW n \in Seals' PROVE notes'[n].recon # i
      <4>1. CASE n \in Seals
        BY <3>1, <4>1, SealsKept
      <4>2. CASE n \notin Seals
        <5>1. PICK g \in Handlers : ContainerSealed(g) /\ notes'[n].recon = handler[g].recon
          BY <4>2, SealsKept
        <5>2. handler[g].at = "verdictMail" /\ g # h
          BY <1>1, <5>1, SealingFacts
        <5> QED
          BY <1>1, <2>1, <5>1, <5>2 DEF VerdictMailsAreOwn
      <4> QED
        BY <4>1, <4>2
    <3> QED
      BY <2>1, <3>1, <3>2, <3>3, <3>4
  <2>2. ASSUME NEW s \in Sessions, NEW p \in Payloads, NEW r \in 0..Len(reports),
               Judging(h, s, p, r)
        PROVE  /\ recon'[handler'[h].recon].supersedes = 0
               /\ notes'[handler'[h].note].recon = handler'[h].recon
               /\ notes'[handler'[h].note].event = recon'[handler'[h].recon].outcome
               /\ handler'[h].snapshot \subseteq MatchedBefore(recon', handler'[h].recon)
               /\ \A n \in Seals' : notes'[n].recon # handler'[h].recon
    <3> DEFINE i == Len(recon) + 1
    <3>1. /\ Len(recon) \in Nat /\ \A k \in 1..Len(recon) : recon'[k] = recon[k]
          /\ recon'[i] = SubmittedRow(s, p, r)
          /\ notes'[Len(notes) + 1].recon = i
          /\ notes'[Len(notes) + 1].event = SubmittedRow(s, p, r).outcome
          /\ notes'[Len(notes) + 1].event # "CONTAINER_COMPLETE"
          /\ handler'[h].recon = i /\ handler'[h].note = Len(notes) + 1
          /\ handler'[h].snapshot = LoadedVinsFor(r)
      BY <2>2, JudgingFacts
    <3>2. recon'[i].supersedes = 0 /\ recon'[i].report = r
      BY <2>2, <3>1, SubmittedRowFacts DEF Judging, Judges, Consistent
    <3>3. LoadedVinsFor(r) \subseteq MatchedBefore(recon', i)
      <4>1. \A k \in 1..Len(recon) : LiveMatch(recon[k]) => recon[k].vin = recon[k].line
        BY DEF Consistent, MatchesNameLines
      <4>2. i - 1 = Len(recon)
        BY <3>1
      <4> QED
        BY <3>1, <3>2, <4>1, <4>2 DEF LoadedVinsFor, MatchedBefore
    <3>4. ASSUME NEW n \in Seals' PROVE notes'[n].recon # i
      <4>1. n \in Seals
        <5>1. ~\E g \in Handlers : ContainerSealed(g)
          BY <2>2, <3>1, JudgingFacts, SealingFacts
        <5> QED
          BY <5>1, SealsKept
      <4>2. notes'[n].recon \in 1..Len(recon)
        BY <4>1, SealsKept DEF SealsFollowTheLog, FilledBy
      <4> QED
        BY <3>1, <4>2
    <3> QED
      BY <3>1, <3>2, <3>3, <3>4
  <2> QED
    BY <1>1, <2>1, <2>2, WaitsForVerdictMail
<1>2. ASSUME NEW h \in Handlers, handler'[h].at \in {"sealMail", "presign"}
      PROVE  /\ recon'[handler'[h].recon].supersedes = 0
             /\ MailPastSending(handler[h].recon)'
  <2>1. PICK i \in 1..Len(recon) : i = handler[h].recon /\ i = handler'[h].recon
    BY <1>2, PastVerdictMail
  <2>2. recon[i].supersedes = 0
    BY <1>2, <2>1, PastVerdictMail DEF RequestsKnowTheirVerdict
  <2>3. recon'[i] = recon[i]
    BY LogIsSettled
  <2>4. CASE handler[h].at \in {"sealMail", "presign"}
    <3>1. MailPastSending(i)
      BY <2>1, <2>4 DEF RequestsKnowTheirVerdict
    <3>2. MailPastSending(i)'
      BY <3>1, LogIsSettled
    <3> QED
      BY <2>1, <2>2, <2>3, <3>2 DEF MailPastSending
  <2>5. CASE /\ handler[h].at = "verdictMail"
             /\ handler[h].note \in 1..Len(notes)
             /\ notes'[handler[h].note].status # "queued"
    <3>1. /\ notes[handler[h].note].recon = i
          /\ notes[handler[h].note].event = recon[i].outcome
      BY <2>1, <2>5 DEF RequestsKnowTheirVerdict
    <3>2. /\ handler[h].note \in 1..Len(notes')
          /\ notes'[handler[h].note].recon = i
          /\ notes'[handler[h].note].event = recon'[i].outcome
      BY <2>3, <2>5, <3>1, NotesKept
    <3> QED
      BY <2>1, <2>2, <2>3, <2>5, <3>2 DEF MailPastSending
  <2> QED
    BY <1>2, <2>4, <2>5, PastVerdictMail
<1> QED
  BY <1>1, <1>2 DEF RequestsKnowTheirVerdict

\* A container that was full by a row of the log stays so.
LEMMA FilledStays ==
    ASSUME Consistent, [Next]_vars, NEW i, FilledBy(i)
    PROVE  FilledBy(i)'
<1>1. i \in 1..Len(recon)
  BY DEF FilledBy
<1>2. /\ i \in 1..Len(recon') /\ recon'[i] = recon[i]
      /\ MatchedBefore(recon', i) = MatchedBefore(recon, i)
      /\ LinesOf(recon[i].report)' = LinesOf(recon[i].report)
  BY <1>1, LogIsSettled
<1> QED
  BY <1>2 DEF FilledBy, LinesFor, LiveMatch

\* A request that announces a container complete does so on a row that filled it.
LEMMA SealerFilled ==
    ASSUME Consistent, VerdictsStand, MailsFollowVerdicts,
           NEW h \in Handlers, ContainerSealed(h)
    PROVE  FilledBy(handler[h].recon)
<1> USE DEF MailsFollowVerdicts
<1> DEFINE i == handler[h].recon
           row == recon[i]
           lines == LinesFor(row.container, LinesOf(row.report))
<1>1. handler[h].at = "verdictMail" /\ Completes(h) /\ i \in 1..Len(recon)
  BY SealingFacts
<1>2. row.supersedes = 0 /\ handler[h].snapshot \subseteq MatchedBefore(recon, i)
  BY <1>1 DEF RequestsKnowTheirVerdict
<1>3. LiveMatch(row)
  BY <1>1, <1>2 DEF LiveMatch, VerdictsStand, Completes
<1>4. row.container = payload[row.session].container
  BY <1>1, <1>3 DEF MatchesAreThePayloads
<1>5. lines # {} /\ lines \subseteq handler[h].snapshot \union {row.line}
  BY <1>1, <1>4 DEF Completes, IsContainerComplete
<1> QED
  BY <1>1, <1>2, <1>3, <1>5 DEF FilledBy

LEMMA SealsStayInLog ==
    ASSUME Consistent, VerdictsStand, [Next]_vars, MailsFollowVerdicts
    PROVE  SealsFollowTheLog'
<1> USE DEF MailsFollowVerdicts
<1>1. \A h \in Handlers : ContainerSealed(h) => FilledBy(handler[h].recon)
  BY SealerFilled
<1>2. ASSUME NEW n \in Seals' PROVE FilledBy(notes[n].recon)'
  <2>1. PICK i : i = notes'[n].recon /\ FilledBy(i)
    <3>1. CASE n \in Seals
      BY <3>1, SealsKept DEF SealsFollowTheLog
    <3>2. CASE n \notin Seals
      BY <1>1, <3>2, SealsKept
    <3> QED
      BY <3>1, <3>2
  <2>2. FilledBy(i)'
    BY <2>1, FilledStays
  <2> QED
    BY <2>1, <2>2 DEF FilledBy
<1>3. ASSUME NEW n \in Seals', NEW k \in Seals' \ Seals, notes'[n].recon = notes'[k].recon
      PROVE  n = k
  <2>1. PICK h \in Handlers : ContainerSealed(h) /\ notes'[k].recon = handler[h].recon
    BY <1>3, SealsKept
  <2>2. \A m \in Seals : notes[m].recon # handler[h].recon
    BY <2>1, SealingFacts DEF RequestsKnowTheirVerdict
  <2>3. n \notin Seals
    BY <1>3, <2>1, <2>2, SealsKept
  <2> QED
    BY <1>3, <2>3, SealsKept
<1>4. ASSUME NEW n \in Seals, NEW k \in Seals, notes'[n].recon = notes'[k].recon
      PROVE  n = k
  BY <1>4, SealsKept DEF SealsFollowTheLog
<1> QED
  BY <1>2, <1>3, <1>4 DEF SealsFollowTheLog

LEMMA MailsFollowVerdictsInvariant == Spec => []MailsFollowVerdicts
<1>1. Init => MailsFollowVerdicts
  BY DEF Init, Idle, MailsFollowVerdicts, RequestsKnowTheirVerdict, VerdictMailsAreOwn,
         MatchesAreThePayloads, SealsFollowTheLog, Seals
<1>2. ASSUME Consistent, VerdictsStand, [Next]_vars, MailsFollowVerdicts
      PROVE  MailsFollowVerdicts'
  BY <1>2, RequestsStayInformed, VerdictMailsStayOwn, MatchesStayThePayloads,
     SealsStayInLog DEF MailsFollowVerdicts
<1> QED
  BY <1>1, <1>2, ConsistentInvariant, VerdictsStandInvariant, PTL DEF Spec

(***************************************************************************)
(* A container is announced complete at most once per report, and only     *)
(* with every vehicle on record.  Were it announced for two rows, the line *)
(* of the later one would be among those the earlier one found loaded, and *)
(* the unique index lets a line be matched once.                           *)
(***************************************************************************)
THEOREM SealedOnce == Spec => []SealedOnceAndTruly
<1> DEFINE Same(i, k) == /\ recon[i].report = recon[k].report
                         /\ recon[i].container = recon[k].container
<1>1. ASSUME Consistent, OneLiveMatchPerLine, MailsFollowVerdicts
      PROVE  SealedOnceAndTruly
  <2> USE <1>1 DEF Consistent, MailsFollowVerdicts
  <2>1. Len(recon) \in Nat
    BY TypeElements
  <2>2. ASSUME NEW i, NEW k, FilledBy(i), FilledBy(k), Same(i, k), i < k
        PROVE  FALSE
    <3>1. /\ i \in 1..Len(recon) /\ k \in 1..Len(recon) /\ LiveMatch(recon[k])
          /\ LinesFor(recon[i].container, LinesOf(recon[i].report))
                \subseteq MatchedBefore(recon, i) \union {recon[i].line}
          /\ LiveMatch(recon[i])
      BY <2>2 DEF FilledBy
    <3>2. recon[k].line \in LinesFor(recon[k].container, LinesOf(recon[k].report))
      BY <3>1 DEF MatchesNameLines, LinesFor
    <3>3. recon[k].line \in MatchedBefore(recon, i) \union {recon[i].line}
      BY <2>2, <3>1, <3>2
    <3>4. PICK j \in 1..i : /\ LiveMatch(recon[j]) /\ recon[j].report = recon[i].report
                            /\ recon[j].line = recon[k].line
      BY <2>1, <3>1, <3>3 DEF MatchedBefore
    <3>5. j \in 1..Len(recon) /\ j < k
      BY <2>1, <2>2, <3>1, <3>4
    <3>6. j = k
      BY <2>2, <3>1, <3>4, <3>5 DEF OneLiveMatchPerLine
    <3> QED
      BY <2>1, <3>1, <3>5, <3>6
  <2>3. \A n \in Seals : FilledBy(notes[n].recon)
    BY DEF SealsFollowTheLog
  <2>4. ASSUME NEW n \in Seals, NEW k \in Seals, Same(notes[n].recon, notes[k].recon)
        PROVE  n = k
    <3>1. notes[n].recon \in 1..Len(recon) /\ notes[k].recon \in 1..Len(recon)
      BY <2>3 DEF FilledBy
    <3>2. ~(notes[n].recon < notes[k].recon) /\ ~(notes[k].recon < notes[n].recon)
      BY <2>2, <2>3, <2>4
    <3>3. notes[n].recon = notes[k].recon
      BY <2>1, <3>1, <3>2
    <3> QED
      BY <3>3 DEF SealsFollowTheLog
  <2>5. ASSUME NEW i, FilledBy(i)
        PROVE  LinesFor(recon[i].container, LinesOf(recon[i].report))
                 \subseteq LoadedVinsFor(recon[i].report)
    <3>1. /\ i \in 1..Len(recon) /\ LiveMatch(recon[i])
          /\ LinesFor(recon[i].container, LinesOf(recon[i].report))
                \subseteq MatchedBefore(recon, i) \union {recon[i].line}
      BY <2>5 DEF FilledBy
    <3>2. 1..(i - 1) \subseteq 1..Len(recon)
      BY <2>1, <3>1
    <3>3. \A j \in 1..Len(recon) : LiveMatch(recon[j]) => recon[j].vin = recon[j].line
      BY DEF MatchesNameLines
    <3> QED
      BY <3>1, <3>2, <3>3 DEF MatchedBefore, LoadedVinsFor
  <2> QED
    BY <2>3, <2>4, <2>5 DEF SealedOnceAndTruly
<1> QED
  BY <1>1, ConsistentInvariant, OneLiveMatch, MailsFollowVerdictsInvariant, PTL

-----------------------------------------------------------------------------
(***************************************************************************)
(* What 'accepted' is worth.                                               *)
(***************************************************************************)

\* Only a request whose mails are past sending answers 'accepted', and only for
\* the session of its row, whose images it has just declared.
LEMMA AcceptedKinds ==
    ASSUME Consistent, [Next]_vars, NEW s \in Sessions
    PROVE  /\ presigned \subseteq presigned'
           /\ \/ "accepted" \in answered'[s] => "accepted" \in answered[s]
              \/ \E h \in Handlers : /\ handler[h].at = "presign"
                                     /\ recon[handler[h].recon].session = s
                                     /\ s \in presigned'
<1> DEFINE Same == "accepted" \in answered'[s] => "accepted" \in answered[s]
           Goal == /\ presigned \subseteq presigned'
                   /\ \/ Same
                      \/ \E h \in Handlers : /\ handler[h].at = "presign"
                                             /\ recon[handler[h].recon].session = s
                                             /\ s \in presigned'
<1>1. answered \in [Sessions -> SUBSET Statuses]
  BY DEF Consistent, TypeOK
<1>2. ASSUME UNCHANGED answered, presigned \subseteq presigned' PROVE Goal
  BY <1>2
<1>3. ASSUME NEW x \in Sessions, NEW st \in Statuses \ {"accepted"}, Answer(x, st),
             UNCHANGED presigned
      PROVE  Goal
  BY <1>1, <1>3 DEF Answer
<1>4. ASSUME NEW x \in Sessions, NEW p \in Payloads, Upload(x, p) PROVE Goal
  <2>1. CASE UploadRejected(x, p) \/ UploadDuplicate(x, p)
    BY <1>3, <2>1 DEF UploadRejected, UploadDuplicate, Statuses
  <2>2. CASE UploadIncomplete(x, p) \/ UploadConflict(x, p)
    BY <1>3, <2>2 DEF UploadIncomplete, UploadConflict, Statuses
  <2>3. CASE \E h \in Handlers : UploadJudged(h, x, p)
    BY <1>2, <2>3 DEF UploadJudged
  <2>4. CASE CrashAfterSession(x, p) \/ CrashAfterVerdict(x, p)
    BY <1>2, <2>4 DEF CrashAfterSession, CrashAfterVerdict
  <2> HIDE DEF Goal
  <2> QED
    BY <1>4, <2>1, <2>2, <2>3, <2>4 DEF Upload
<1>5. ASSUME NEW h \in Handlers, Accept(h) PROVE Goal
  <2> DEFINE x == recon[handler[h].recon].session
  <2>1. /\ handler[h].at = "presign"
        /\ presigned' = presigned \union {x}
        /\ answered' = [answered EXCEPT ![x] = @ \union {"accepted"}]
    BY <1>5 DEF Accept, Answer
  <2>2. CASE x = s
    BY <2>1, <2>2
  <2>3. CASE x # s
    <3>1. answered'[s] = answered[s]
      BY <1>1, <2>1, <2>3
    <3> QED
      BY <2>1, <3>1
  <2> QED
    BY <2>2, <2>3
<1>6. ASSUME NEW h \in Handlers, Proceed(h) PROVE Goal
  BY <1>2, <1>5, <1>6 DEF Proceed, VerdictMailed, ContainerSealed, SealMailed, OverrideMailed
<1>7. ASSUME NEW h \in Handlers, CrashAfterMail(h) \/ CrashAfterPresign(h) PROVE Goal
  BY <1>2, <1>7 DEF CrashAfterMail, CrashAfterPresign
<1>8. ASSUME NEW h \in Handlers, NEW i \in 1..Len(recon), Override(h, i) PROVE Goal
  BY <1>2, <1>8 DEF Override
<1>9. ASSUME NEW d \in Deliveries, CommitReport(d) PROVE Goal
  BY <1>2, <1>9 DEF CommitReport
<1>10. ASSUME NEW r \in 1..Len(reports), ReportExpires(r) PROVE Goal
  BY <1>2, <1>10 DEF ReportExpires
<1>11. ASSUME Crash PROVE Goal
  BY <1>2, <1>11 DEF Crash
<1>12. ASSUME NEW i \in 1..Len(recon), CrashAfterOverride(i) PROVE Goal
  BY <1>2, <1>12 DEF CrashAfterOverride
<1>13. ASSUME UNCHANGED vars PROVE Goal
  BY <1>2, <1>13 DEF vars
<1> HIDE DEF Goal
<1>14. Goal
  BY <1>4, <1>6, <1>7, <1>8, <1>9, <1>10, <1>11, <1>12, <1>13 DEF Next
<1> QED
  BY <1>14 DEF Goal

(***************************************************************************)
(* A session answered 'accepted' has its verdict, that verdict's mail is   *)
(* past sending and its upload URLs have been handed out: the request that *)
(* answered knew all three, and no later step takes one back.              *)
(***************************************************************************)
THEOREM AcceptedIsDelivered == Spec => []AcceptedMeansDelivered
<1> DEFINE Delivered(s) == /\ s \in presigned
                           /\ \E i \in VerdictsOf(s) : MailPastSending(i)
<1>1. AcceptedMeansDelivered
        <=> \A s \in Sessions : "accepted" \in answered[s] => Delivered(s)
  BY DEF AcceptedMeansDelivered, MailPastSending
<1>2. Init => AcceptedMeansDelivered
  BY DEF Init, AcceptedMeansDelivered
<1>3. ASSUME Consistent, MailsFollowVerdicts, [Next]_vars, AcceptedMeansDelivered,
             NEW s \in Sessions, "accepted" \in answered'[s]
      PROVE  Delivered(s)'
  <2>1. ASSUME NEW i \in 1..Len(recon), recon[i].supersedes = 0, recon[i].session = s,
               MailPastSending(i)
        PROVE  \E k \in VerdictsOf(s)' : MailPastSending(k)'
    <3>1. i \in 1..Len(recon') /\ recon'[i] = recon[i] /\ MailPastSending(i)'
      BY <1>3, <2>1, LogIsSettled
    <3>2. i \in VerdictsOf(s)'
      BY <2>1, <3>1 DEF VerdictsOf, Originals
    <3> QED
      BY <3>1, <3>2
  <2>2. CASE "accepted" \in answered[s]
    <3>1. s \in presigned' /\ \E i \in VerdictsOf(s) : MailPastSending(i)
      BY <1>1, <1>3, <2>2, AcceptedKinds
    <3> QED
      BY <2>1, <3>1 DEF VerdictsOf, Originals
  <2>3. CASE \E h \in Handlers : /\ handler[h].at = "presign"
                                 /\ recon[handler[h].recon].session = s
                                 /\ s \in presigned'
    <3>1. PICK i \in 1..Len(recon) : /\ recon[i].supersedes = 0 /\ recon[i].session = s
                                     /\ MailPastSending(i)
      BY <1>3, <2>3 DEF MailsFollowVerdicts, RequestsKnowTheirVerdict, Consistent,
                        HandlersHaveRows, Busy
    <3> QED
      BY <2>1, <2>3, <3>1
  <2> QED
    BY <1>3, <2>2, <2>3, AcceptedKinds
<1>4. ASSUME Consistent, MailsFollowVerdicts, [Next]_vars, AcceptedMeansDelivered
      PROVE  AcceptedMeansDelivered'
  <2>1. AcceptedMeansDelivered'
          <=> \A s \in Sessions : "accepted" \in answered'[s] => Delivered(s)'
    BY DEF AcceptedMeansDelivered, MailPastSending
  <2> QED
    BY <1>3, <1>4, <2>1
<1> QED
  BY <1>2, <1>4, ConsistentInvariant, MailsFollowVerdictsInvariant, PTL DEF Spec

-----------------------------------------------------------------------------
(***************************************************************************)
(* The server implements the loading board.                                *)
(***************************************************************************)

\* The board, read off the records as SyncServer's INSTANCE does.
Manifests == [i \in 1..Len(reports) |-> reports[i].lines]

VerdictIn(q, s) ==
    LET rows == {i \in {k \in 1..Len(q) : q[k].supersedes = 0} : q[i].session = s}
    IN  IF rows = {} THEN None ELSE q[CHOOSE i \in rows : TRUE].outcome

VerdictMap == [s \in Sessions |-> VerdictIn(recon, s)]

LoadedIn(q) ==
    {<<q[i].report, q[i].line>> : i \in {j \in 1..Len(q) : LiveMatch(q[j])}}

SealedContainers ==
    {<<recon[notes[n].recon].report, recon[notes[n].recon].container>> : n \in Seals}

LEMMA BoardIs ==
    /\ Board!board = <<Manifests, VerdictMap, LoadedIn(recon), SealedContainers>>
    /\ Board!board' = <<Manifests', VerdictMap', LoadedIn(recon'), SealedContainers'>>
BY DEF Board!board, Manifests, VerdictMap, VerdictIn, LoadedIn, LiveMatch, SealedContainers,
       VerdictsOf, Originals

\* A session's verdict is that of any original row it has, when it has one.
LEMMA VerdictInFacts ==
    ASSUME NEW q, NEW s, NEW i \in 1..Len(q), q[i].supersedes = 0, q[i].session = s,
           \A k \in 1..Len(q) : q[k].supersedes = 0 /\ q[k].session = s => k = i
    PROVE  VerdictIn(q, s) = q[i].outcome
<1> DEFINE rows == {k \in {j \in 1..Len(q) : q[j].supersedes = 0} : q[k].session = s}
<1>1. rows = {i}
  OBVIOUS
<1>2. (CHOOSE k \in rows : TRUE) = i
  BY <1>1
<1> QED
  BY <1>1, <1>2 DEF VerdictIn

\* A row added to the log decides no session but its own, and none when it
\* replaces another; it crosses off its line when it counts as a match.
LEMMA AddedRow ==
    ASSUME Consistent, NEW row, Len(recon') = Len(recon) + 1,
           recon'[Len(recon) + 1] = row, \A i \in 1..Len(recon) : recon'[i] = recon[i]
    PROVE  /\ \A s : row.supersedes # 0 \/ row.session # s =>
                VerdictIn(recon', s) = VerdictIn(recon, s)
           /\ LoadedIn(recon') = LoadedIn(recon) \union
                (IF LiveMatch(row) THEN {<<row.report, row.line>>} ELSE {})
<1>1. Len(recon) \in Nat
  BY TypeElements DEF Consistent
<1>2. ASSUME NEW s, row.supersedes # 0 \/ row.session # s
      PROVE  VerdictIn(recon', s) = VerdictIn(recon, s)
  <2> DEFINE rows(q) == {i \in {k \in 1..Len(q) : q[k].supersedes = 0} : q[i].session = s}
             last == CHOOSE k \in rows(recon) : TRUE
  <2>1. rows(recon') = rows(recon)
    BY <1>1, <1>2
  <2>2. rows(recon) # {} => recon'[last] = recon[last]
    OBVIOUS
  <2>3. /\ VerdictIn(recon, s) = IF rows(recon) = {} THEN None ELSE recon[last].outcome
        /\ VerdictIn(recon', s) =
             IF rows(recon') = {} THEN None ELSE recon'[CHOOSE k \in rows(recon') : TRUE].outcome
    BY DEF VerdictIn
  <2> HIDE DEF rows
  <2> QED
    BY <2>1, <2>2, <2>3
<1>3. 1..Len(recon') = 1..Len(recon) \union {Len(recon) + 1}
  BY <1>1
<1> QED
  BY <1>2, <1>3 DEF LoadedIn

\* The containers declared complete change only with a seal.
LEMMA SealedKept ==
    ASSUME Consistent, [Next]_vars, SealsFollowTheLog, ~\E h \in Handlers : ContainerSealed(h)
    PROVE  SealedContainers' = SealedContainers
<1>1. Seals' = Seals /\ \A n \in Seals : notes'[n].recon = notes[n].recon
  BY SealsKept
<1>2. \A n \in Seals : recon'[notes[n].recon] = recon[notes[n].recon]
  BY RowsKept DEF SealsFollowTheLog, FilledBy
<1> QED
  BY <1>1, <1>2 DEF SealedContainers

\* The board's actions, in those terms.
BoardPublish ==
    /\ Len(Manifests') = Len(Manifests) + 1
    /\ \E lines \in Lines : Manifests' = Append(Manifests, lines)
    /\ UNCHANGED <<VerdictMap, LoadedIn(recon), SealedContainers>>

BoardRefuse(s) ==
    /\ VerdictMap[s] = None
    /\ \E outcome \in Outcomes \ {"MATCH"} :
          VerdictMap' = [VerdictMap EXCEPT ![s] = outcome]
    /\ UNCHANGED <<Manifests, LoadedIn(recon), SealedContainers>>

BoardLoad(s) ==
    /\ VerdictMap[s] = None
    /\ VerdictMap' = [VerdictMap EXCEPT ![s] = "MATCH"]
    /\ \E r \in 1..Len(Manifests) : \E v \in Listed(Manifests[r]) :
          /\ <<r, v>> \notin LoadedIn(recon)
          /\ LoadedIn(recon') = LoadedIn(recon) \union {<<r, v>>}
    /\ UNCHANGED <<Manifests, SealedContainers>>

BoardSeal(r, c) ==
    /\ <<r, c>> \notin SealedContainers
    /\ LinesFor(c, Manifests[r]) # {}
    /\ \A v \in LinesFor(c, Manifests[r]) : <<r, v>> \in LoadedIn(recon)
    /\ SealedContainers' = SealedContainers \union {<<r, c>>}
    /\ UNCHANGED <<Manifests, VerdictMap, LoadedIn(recon)>>

LEMMA BoardActions ==
    /\ BoardPublish => Board!Next
    /\ \A s \in Sessions : BoardRefuse(s) \/ BoardLoad(s) => Board!Next
    /\ \A r \in 1..Len(Manifests), c \in Containers : BoardSeal(r, c) => Board!Next
<1> USE DEF Manifests, VerdictMap, VerdictIn, LoadedIn, LiveMatch, SealedContainers,
            VerdictsOf, Originals
<1>1. BoardPublish => Board!Publish
  BY DEF BoardPublish, Board!Publish, Board!Lines, Lines
<1>2. ASSUME NEW s \in Sessions
      PROVE  BoardRefuse(s) => Board!Next
  BY DEF BoardRefuse, Board!Next, Board!Refuse, Board!Outcomes, Outcomes
<1>3. ASSUME NEW s \in Sessions
      PROVE  BoardLoad(s) => Board!Next
  BY DEF BoardLoad, Board!Next, Board!Load, Board!Listed, Listed
<1>4. ASSUME NEW r \in 1..Len(Manifests), NEW c \in Containers
      PROVE  BoardSeal(r, c) => Board!Next
  BY DEF BoardSeal, Board!Next, Board!Seal, Board!LinesFor, LinesFor
<1> QED
  BY <1>1, <1>2, <1>3, <1>4 DEF Board!Next

LEMMA ManifestsFacts ==
    ASSUME TypeOK
    PROVE  /\ Manifests \in Seq(Lines) /\ Len(Manifests) = Len(reports)
           /\ \A r \in 1..Len(reports) : Manifests[r] = reports[r].lines
<1>1. Len(reports) \in Nat /\ \A j \in 1..Len(reports) : reports[j].lines \in Lines
  BY TypeElements DEF ReportRow
<1>2. Manifests \in [1..Len(reports) -> Lines]
  BY <1>1 DEF Manifests
<1>3. Manifests \in Seq(Lines) /\ Len(Manifests) = Len(reports)
  BY <1>1, <1>2, SeqDef
<1> QED
  BY <1>3 DEF Manifests

\* Committing a report pins it to the board.
LEMMA CommitPublishes ==
    ASSUME Consistent, [Next]_vars, SealsFollowTheLog, ~\E h \in Handlers : ContainerSealed(h),
           NEW d \in Deliveries, Publishes(d)
    PROVE  BoardPublish
<1>1. /\ Manifests \in Seq(Lines) /\ Len(Manifests) = Len(reports)
      /\ \A r \in 1..Len(reports) : Manifests[r] = reports[r].lines
  BY ManifestsFacts DEF Consistent
<1>2. d.lines \in Lines
  BY ServerAssumption
<1> DEFINE row == [ref |-> d.ref, location |-> d.location, status |-> "active",
                   version |-> IF Previous(d.ref) = 0 THEN 1
                               ELSE reports[Previous(d.ref)].version + 1,
                   lines |-> d.lines]
<1>3. reports' = Append(Superseded(Previous(d.ref)), row)
  BY DEF Publishes, CommitReport
<1>4. /\ Superseded(Previous(d.ref)) \in Seq(ReportRow)
      /\ Len(Superseded(Previous(d.ref))) = Len(reports)
  BY SupersededFacts DEF Consistent
<1>5. row \in ReportRow
  <2>1. Previous(d.ref) # 0 => reports[Previous(d.ref)] \in ReportRow
    BY PreviousType, TypeElements DEF Consistent
  <2>2. d.ref \in References /\ d.location \in Locations
    BY ServerAssumption
  <2> QED
    BY <1>2, <2>1, <2>2 DEF ReportRow
<1>6. row.lines = d.lines
  OBVIOUS
<1> HIDE DEF row
<1>7. Len(reports') = Len(reports) + 1 /\ reports'[Len(reports) + 1].lines = d.lines
  BY <1>3, <1>4, <1>5, <1>6, AppendFacts
<1>8. Len(reports) \in Nat /\ \A r \in 1..Len(reports) : reports'[r].lines = reports[r].lines
  BY ReportsKept DEF Consistent
<1>9. Manifests' = Append(Manifests, d.lines) /\ Len(Manifests') = Len(Manifests) + 1
  <2>1. Manifests' = [r \in 1..(Len(reports) + 1) |-> reports'[r].lines]
    BY <1>7 DEF Manifests
  <2>2. Append(Manifests, d.lines) =
          [r \in 1..(Len(reports) + 1) |->
             IF r = Len(reports) + 1 THEN d.lines ELSE Manifests[r]]
    BY <1>1, <1>2, AppendProperties
  <2>3. \A r \in 1..(Len(reports) + 1) :
          reports'[r].lines = IF r = Len(reports) + 1 THEN d.lines ELSE Manifests[r]
    BY <1>1, <1>7, <1>8
  <2>4. Manifests' = Append(Manifests, d.lines)
    BY <2>1, <2>2, <2>3
  <2> QED
    BY <1>1, <1>2, <2>4, AppendFacts
<1>10. UNCHANGED <<VerdictMap, LoadedIn(recon), SealedContainers>>
  BY SealedKept DEF Publishes, VerdictMap, LoadedIn, LiveMatch
<1> QED
  BY <1>2, <1>9, <1>10 DEF BoardPublish

\* Judging a session refuses it or crosses its line off.
LEMMA JudgingLoadsOrRefuses ==
    ASSUME Consistent, [Next]_vars, SealsFollowTheLog, OneVerdictPerSession',
           ~\E h \in Handlers : ContainerSealed(h),
           NEW s \in Sessions, NEW p \in Payloads, NEW r \in 0..Len(reports), Judges(s, p, r)
    PROVE  BoardRefuse(s) \/ BoardLoad(s)
<1> DEFINE row == SubmittedRow(s, p, r)
<1>1. /\ row \in ReconRow /\ row.session = s /\ row.report = r /\ row.supersedes = 0
      /\ LiveMatch(row) <=> row.outcome = "MATCH"
      /\ row.outcome = "MATCH" =>
            /\ r # 0 /\ row.line \in Vins /\ p.container \in Containers
            /\ LinesOf(r)[row.line] = p.container
      /\ row.outcome = "MATCH" <=> row.line # None
  BY SubmittedRowFacts DEF Judges, Consistent
<1>2. recon' = Append(recon, row) /\ ~IndexRefuses(row) /\ UNCHANGED reports /\ s \notin sessions
  BY DEF Judges, NewSession
<1> HIDE DEF row
<1>3. /\ Len(recon) \in Nat /\ Len(recon') = Len(recon) + 1
      /\ recon'[Len(recon) + 1] = row
      /\ \A i \in 1..Len(recon) : recon'[i] = recon[i]
  BY <1>1, <1>2, AppendFacts DEF Consistent, TypeOK
<1>4. /\ \A t : t # s => VerdictIn(recon', t) = VerdictIn(recon, t)
      /\ LoadedIn(recon') = LoadedIn(recon) \union
           (IF row.outcome = "MATCH" THEN {<<r, row.line>>} ELSE {})
  BY <1>1, <1>3, AddedRow
<1>5. VerdictIn(recon, s) = None
  <2>1. \A i \in 1..Len(recon) : recon[i].session # s
    BY <1>2 DEF Consistent, RowsHaveSessions
  <2> QED
    BY <2>1 DEF VerdictIn
<1>6. VerdictIn(recon', s) = row.outcome
  <2> DEFINE i == Len(recon) + 1
  <2>1. i \in 1..Len(recon') /\ recon'[i].supersedes = 0 /\ recon'[i].session = s
    BY <1>1, <1>3
  <2>2. \A k \in 1..Len(recon') : recon'[k].supersedes = 0 /\ recon'[k].session = s => k = i
    BY <2>1 DEF OneVerdictPerSession, Originals
  <2> HIDE DEF i
  <2> QED
    BY <1>3, <2>1, <2>2, VerdictInFacts DEF i
<1>7. /\ VerdictMap[s] = None
      /\ VerdictMap' = [VerdictMap EXCEPT ![s] = row.outcome]
  BY <1>4, <1>5, <1>6 DEF VerdictMap
<1>8. UNCHANGED <<Manifests, SealedContainers>>
  BY <1>2, SealedKept DEF Manifests
<1>9. CASE row.outcome = "MATCH"
  <2>1. /\ r \in 1..Len(Manifests) /\ Manifests[r] = LinesOf(r)
    BY <1>1, <1>9, ManifestsFacts DEF LinesOf, Consistent
  <2>2. row.line \in Listed(Manifests[r])
    BY <1>1, <1>9, <2>1, RulesAssumption DEF Listed
  <2>3. <<r, row.line>> \notin LoadedIn(recon)
    BY <1>1, <1>2, <1>9 DEF IndexRefuses, LoadedIn
  <2> QED
    BY <1>4, <1>7, <1>8, <1>9, <2>1, <2>2, <2>3 DEF BoardLoad
<1>10. CASE row.outcome # "MATCH"
  <2>1. row.outcome \in Outcomes \ {"MATCH"}
    BY <1>1, <1>10 DEF ReconRow
  <2> QED
    BY <1>4, <1>7, <1>8, <1>10, <2>1 DEF BoardRefuse
<1> QED
  BY <1>9, <1>10

\* Announcing a container complete declares it so.
LEMMA SealingSeals ==
    ASSUME Consistent, VerdictsStand, MailsFollowVerdicts, [Next]_vars,
           SealedOnceAndTruly', NEW h \in Handlers, ContainerSealed(h)
    PROVE  \E r \in 1..Len(Manifests), c \in Containers : BoardSeal(r, c)
<1> DEFINE i == handler[h].recon
           n == Len(notes) + 1
           r == recon[i].report
           c == recon[i].container
<1>1. /\ UNCHANGED <<reports, recon>> /\ Len(notes) \in Nat
      /\ Seals' = Seals \union {n} /\ notes'[n].recon = i
      /\ \A k \in Seals : notes'[k].recon = notes[k].recon
  BY SealingFacts, SealsKept
<1>2. FilledBy(i)
  BY SealerFilled
<1>3. /\ i \in 1..Len(recon) /\ LiveMatch(recon[i]) /\ LinesFor(c, LinesOf(r)) # {}
      /\ LinesFor(c, LinesOf(r)) \subseteq MatchedBefore(recon, i) \union {recon[i].line}
  BY <1>2 DEF FilledBy
<1>4. r \in 1..Len(reports) /\ c \in Containers
  BY <1>3, TypeElements DEF Consistent, RowsHaveSessions, MatchesNameLines
<1>5. r \in 1..Len(Manifests) /\ Manifests[r] = LinesOf(r)
  BY <1>4, ManifestsFacts DEF LinesOf, Consistent
<1>6. \A v \in LinesFor(c, LinesOf(r)) : <<r, v>> \in LoadedIn(recon)
  <2>1. 1..(i - 1) \subseteq 1..Len(recon)
    BY <1>3, TypeElements DEF Consistent
  <2> QED
    BY <1>3, <2>1 DEF MatchedBefore, LoadedIn
<1>7. <<r, c>> \notin SealedContainers
  <2>1. ASSUME NEW k \in Seals, recon[notes[k].recon].report = r,
               recon[notes[k].recon].container = c
        PROVE  FALSE
    <3>1. k = n
      BY <1>1, <2>1 DEF SealedOnceAndTruly
    <3>2. k \in 1..Len(notes)
      BY DEF Seals
    <3> QED
      BY <1>1, <3>1, <3>2
  <2> QED
    BY <2>1 DEF SealedContainers
<1>8. SealedContainers' = SealedContainers \union {<<r, c>>}
  BY <1>1 DEF SealedContainers
<1>9. UNCHANGED <<Manifests, VerdictMap, LoadedIn(recon)>>
  BY <1>1 DEF Manifests, VerdictMap, LoadedIn, LiveMatch
<1> HIDE DEF r, c
<1>10. BoardSeal(r, c)
  BY <1>3, <1>5, <1>6, <1>7, <1>8, <1>9 DEF BoardSeal
<1> QED
  BY <1>4, <1>5, <1>10

\* Every step of the server is one of the board's, or none.
LEMMA BoardStep ==
    ASSUME Consistent, VerdictsStand, MailsFollowVerdicts, [Next]_vars,
           OneVerdictPerSession', SealedOnceAndTruly'
    PROVE  [Board!Next]_(Board!board)
<1> DEFINE Sealing == \E h \in Handlers : ContainerSealed(h)
           Unmoved == UNCHANGED <<Manifests, VerdictMap, LoadedIn(recon), SealedContainers>>
<1>1. CASE Sealing
  BY <1>1, SealingSeals, BoardActions
<1>2. ASSUME ~Sealing, NEW s \in Sessions, NEW p \in Payloads, NEW r \in 0..Len(reports),
             Judges(s, p, r)
      PROVE  Board!Next
  BY <1>2, JudgingLoadsOrRefuses, BoardActions DEF MailsFollowVerdicts
<1>3. ASSUME ~Sealing, NEW d \in Deliveries, Publishes(d)
      PROVE  Board!Next
  BY <1>3, CommitPublishes, BoardActions DEF MailsFollowVerdicts
<1>4. ASSUME ~Sealing, NEW i \in 1..Len(recon), Replaces(i)
      PROVE  Unmoved
  <2> DEFINE row == OverrideRow(i)
  <2>1. row \in ReconRow /\ row.supersedes # 0 /\ ~LiveMatch(row)
    BY OverrideRowFacts DEF Consistent
  <2>2. recon' = Append(recon, row) /\ UNCHANGED reports
    BY <1>4 DEF Replaces
  <2> HIDE DEF row
  <2>3. /\ Len(recon') = Len(recon) + 1 /\ recon'[Len(recon) + 1] = row
        /\ \A k \in 1..Len(recon) : recon'[k] = recon[k]
    BY <2>1, <2>2, AppendFacts DEF Consistent, TypeOK
  <2>4. /\ \A s : VerdictIn(recon', s) = VerdictIn(recon, s)
        /\ LoadedIn(recon') = LoadedIn(recon)
    BY <2>1, <2>3, AddedRow
  <2>5. SealedContainers' = SealedContainers
    BY <1>4, SealedKept DEF MailsFollowVerdicts
  <2> QED
    BY <2>2, <2>4, <2>5 DEF Manifests, VerdictMap
<1>5. ASSUME ~Sealing, UNCHANGED <<reports, recon>>
      PROVE  Unmoved
  BY <1>5, SealedKept DEF Manifests, VerdictMap, LoadedIn, LiveMatch, MailsFollowVerdicts
<1>6. Unmoved => UNCHANGED Board!board
  BY BoardIs
<1> HIDE DEF Sealing, Unmoved
<1> QED
  BY <1>1, <1>2, <1>3, <1>4, <1>5, <1>6, StepKinds DEF Consistent

(***************************************************************************)
(* The server implements the loading board: with all its requests in       *)
(* flight, retries, mails, amendments, overrides and crashes, what a       *)
(* loading gang sees is reports being pinned, sessions getting one verdict *)
(* for good, lines being crossed off once, and full containers being       *)
(* declared complete once.                                                 *)
(***************************************************************************)
THEOREM ServerImplementsBoard == Spec => ImplementsBoard
<1>1. Init => Board!Init
  BY DEF Init, Board!Init, VerdictsOf, Originals, Seals
<1>2. ASSUME Consistent, VerdictsStand, MailsFollowVerdicts, [Next]_vars,
             OneVerdictPerSession', SealedOnceAndTruly'
      PROVE  [Board!Next]_(Board!board)
  BY <1>2, BoardStep
<1> QED
  BY <1>1, <1>2, ConsistentInvariant, VerdictsStandInvariant, MailsFollowVerdictsInvariant,
     OneVerdict, SealedOnce, PTL DEF Spec, ImplementsBoard, Board!Spec
=============================================================================
