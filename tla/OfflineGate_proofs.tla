------------------------- MODULE OfflineGate_proofs -------------------------
(***************************************************************************)
(* Proofs about OfflineGate, for any number of captures, reports, kills    *)
(* and cars, and any list of reports: the cache is one answer of the       *)
(* server, a car passed here is remembered and no shown session is lost.   *)
(*                                                                         *)
(* None of the three is inductive.  What a kill or a COMMIT will leave     *)
(* rests on what the open transaction holds (Saving), on the order of the  *)
(* server's answers (AnswersInOrder) and on what each session still has    *)
(* before it (RowsKept, MarksKept).                                        *)
(***************************************************************************)
EXTENDS OfflineGate, ReconRules_proofs, SequenceTheorems

USE OfflineAssumption, NoneIsNoRecord

InTransaction == {"deleteLines", "deleteReport", "deleteServed", "insertReport", "insert"}

\* A capture is of a session not yet shown; a verdict names a line iff it passes.
CaptureInOrder ==
    /\ cap.at # "none" => cap.id \in Captures /\ cap.pair \in Pairs /\ shown[cap.id] = None
    /\ cap.at = "queued" =>
          /\ cap.verdict \in Verdicts
          /\ cap.verdict.outcome = "MATCH" <=> cap.verdict.line # None

\* The run is at one half or the other.
TaskInOrder ==
    /\ undo # None <=> task.at \in InTransaction
    /\ task.at \in SaveSteps => task.answer \in Answers
    /\ task.at \notin SaveSteps => task.answer = None
    /\ task.at = "upload" => task.left \subseteq 1..Len(db.queue)

IsAnswer(d, answer) ==
    IF answer = None
    THEN d.lines = NoLines /\ d.report = 0 /\ \A v \in Vins : d.vins[v] # "server"
    ELSE /\ d.report = answer.report
         /\ d.lines = LinesIn(answer.report)
         /\ {v \in Vins : d.vins[v] = "server"} \subseteq answer.loaded
         /\ answer.loaded \subseteq Known(d)

\* What is committed is one answer; what is being written is part of the next.
Saving ==
    /\ IsAnswer(Committed, cached)
    /\ task.at \in InTransaction \ {"deleteLines"} =>
          \A v \in Vins : db.lines[v] \in {None, LinesIn(task.answer.report)[v]}
    /\ task.at \in {"deleteLines", "deleteReport", "deleteServed"} =>
          \A v \in Vins : db.vins[v] \in {undo.vins[v], "local"}
    /\ task.at \in {"insertReport", "insert"} =>
          \A v \in Vins : db.vins[v] = "server" => v \in task.answer.loaded
    /\ task.at = "insert" => db.report = task.answer.report

\* A later answer is a later report, or the same with more cars loaded.
Before(a, report, loaded) ==
    /\ a.report <= report
    /\ a.report = report => a.loaded \subseteq loaded

AnswersInOrder ==
    /\ cached # None => Before(cached, server.report, server.loaded)
    /\ task.answer # None => Before(task.answer, server.report, server.loaded)
    /\ cached # None /\ task.answer # None =>
          Before(cached, task.answer.report, task.answer.loaded)

\* What the phone holds as synced, the server has stored; a shown session has its row.
RowsKept ==
    /\ db.synced \subseteq server.stored
    /\ task.synced \subseteq server.stored
    /\ undo # None => undo.synced = db.synced
    /\ cap.at = "queued" => InQueue(db, cap.id)
    /\ \A s \in Captures : shown[s] # None =>
          InQueue(db, s) \/ s \in server.stored \/ <<s, "row">> \in dropped

\* The mark of a shown session's line, in what a kill and in what a COMMIT would leave.
MarkedAs(d, s) ==
    \/ shown[s].line \in Known(d)
    \/ shown[s].line \in Known(db)
    \/ <<s, "mark">> \in dropped
    \/ d.report > shown[s].report

MarkStays(s) ==
    \/ shown[s].line \in Known(db)
    \/ <<s, "mark">> \in dropped
    \/ task.answer.report > shown[s].report
    \/ task.at \in {"insertReport", "insert"} /\ shown[s].line \in task.answer.loaded

MarksKept ==
    \A s \in Captures : shown[s] # None =>
        /\ shown[s].report <= Committed.report
        /\ shown[s].line # None =>
              /\ InQueue(Committed, s) /\ s \notin db.synced => MarkedAs(Committed, s)
              /\ undo # None /\ Waiting(s) => MarkStays(s)

Consistent ==
    TypeOK /\ CaptureInOrder /\ TaskInOrder /\ Saving /\ AnswersInOrder /\ RowsKept /\ MarksKept


USE DEF history, Numbers

-----------------------------------------------------------------------------
\* Every action of Next, for the case distinctions below.
LEMMA NextCases ==
    ASSUME Next
    PROVE  \/ \E s \in Captures, pair \in Pairs : StartCapture(s, pair)
           \/ \E what \in Reads : Read(what)
           \/ EnqueueSession \/ ShowVerdict \/ StartSync
           \/ \E i \in task.left : Handle(i)
           \/ Answered \/ \E s \in Captures : MarkSynced(s)
           \/ UploadLost \/ FetchReport \/ NothingFetched
           \/ Begin \/ DeleteLines \/ DeleteReport \/ DeleteServed \/ InsertReport
           \/ \E v \in Vins : InsertLine(v) \/ InsertServed(v)
           \/ Commit \/ Killed \/ Amend \/ \E v \in Vins : LoadedElsewhere(v)
BY DEF Next, Upload, HandleNext, Save

LEMMA VersionsLength == Len(Versions) \in Nat
BY LenProperties

LEMMA LinesInType == \A r \in Numbers : LinesIn(r) \in Lines
<1> SUFFICES ASSUME NEW r \in Numbers PROVE LinesIn(r) \in Lines
  OBVIOUS
<1>1. CASE r = 0
  BY <1>1 DEF LinesIn, NoLines, Lines
<1>2. CASE r # 0
  <2>1. Versions[r] \in ReportType
    BY <1>2, ElementOfSeq
  <2> QED
    BY <1>2, <2>1 DEF LinesIn, ReportType
<1> QED
  BY <1>1, <1>2

LEMMA OverType == \A r \in Numbers \ {0} : Versions[r].over \in BOOLEAN
<1> SUFFICES ASSUME NEW r \in Numbers \ {0} PROVE Versions[r].over \in BOOLEAN
  OBVIOUS
<1>1. Versions[r] \in ReportType
  BY ElementOfSeq
<1> QED
  BY <1>1 DEF ReportType

LEMMA DeviceVerdictFacts ==
    ASSUME TypeOK, CaptureInOrder, cap.at # "none"
    PROVE  /\ DeviceVerdict \in Verdicts
           /\ DeviceVerdict.outcome = "MATCH" <=> DeviceVerdict.line # None
<1> DEFINE expired == cap.report # 0 /\ Versions[cap.report].over
<1>1. cap.pair[1] \in Containers \union {None} /\ cap.pair[2] \in Vins \union {None}
  BY DEF CaptureInOrder
<1>2. cap.lines \in Lines
  BY DEF TypeOK
<1>3. expired \in BOOLEAN
  OBVIOUS
<1>4. DeviceVerdict = Reconcile(cap.pair[1], cap.pair[2], cap.lines, cap.loaded, expired)
  BY Zenon DEF DeviceVerdict
<1> HIDE DEF expired
<1> QED
  BY <1>1, <1>2, <1>3, <1>4, ReconcileType

LEMMA ServerVerdictFacts ==
    ASSUME TypeOK, NEW pair \in Pairs
    PROVE  LET v == ServerVerdict(pair)
           IN  v \in Verdicts /\ (v.outcome = "MATCH" => v.line \in Vins)
<1> DEFINE expired == server.report # 0 /\ Versions[server.report].over
           lines == LinesIn(server.report)
<1>1. pair[1] \in Containers \union {None} /\ pair[2] \in Vins \union {None}
  OBVIOUS
<1>2. lines \in Lines
  BY LinesInType DEF TypeOK
<1>3. expired \in BOOLEAN
  OBVIOUS
<1>4. ServerVerdict(pair) = Reconcile(pair[1], pair[2], lines, server.loaded, expired)
  BY Zenon DEF ServerVerdict
<1> HIDE DEF expired, lines
<1>5. /\ ServerVerdict(pair) \in Verdicts
      /\ ServerVerdict(pair).outcome = "MATCH" <=> ServerVerdict(pair).line # None
  BY <1>1, <1>2, <1>3, <1>4, ReconcileType
<1> QED
  BY <1>5 DEF Verdicts

LEMMA QueueFacts ==
    ASSUME TypeOK
    PROVE  /\ Len(db.queue) \in Nat
           /\ \A i \in 1..Len(db.queue) :
                  db.queue[i].id \in Captures /\ db.queue[i].pair \in Pairs
<1>1. db.queue \in Seq([id : Captures, pair : Pairs])
  BY DEF TypeOK, Database
<1>2. \A i \in 1..Len(db.queue) : db.queue[i] \in [id : Captures, pair : Pairs]
  BY <1>1, ElementOfSeq
<1> QED
  BY <1>1, <1>2

\* What is committed is a database too.
LEMMA CommittedType == TypeOK => Committed \in Database
BY DEF TypeOK, Committed

-----------------------------------------------------------------------------
(***************************************************************************)
(* The types, one lemma per half of the phone.                             *)
(***************************************************************************)
LEMMA InitConsistent == Init => Consistent
<1> SUFFICES ASSUME Init PROVE Consistent
  OBVIOUS
<1> USE DEF Init
<1>1. NoLines \in Lines
  BY DEF NoLines, Lines
<1>2. db \in Database
  <2>1. <<>> \in Seq([id : Captures, pair : Pairs])
    OBVIOUS
  <2> QED
    BY <1>1, <2>1 DEF Database
<1>3. cap \in [at : {"none", "reading", "queued"}, had : BOOLEAN,
               id : Captures \union {None}, pair : Pairs \union {None},
               todo : SUBSET Reads, lines : Lines, report : Numbers,
               loaded : SUBSET Vins, verdict : Verdicts \union {None}]
  BY <1>1 DEF Nothing
<1>4. TypeOK
  BY <1>2, <1>3 DEF TypeOK, Idle
<1>5. CaptureInOrder /\ TaskInOrder
  BY DEF CaptureInOrder, TaskInOrder, Nothing, Idle, SaveSteps, InTransaction
<1>6. Saving /\ AnswersInOrder
  BY DEF Saving, IsAnswer, Committed, Idle, InTransaction, AnswersInOrder
<1>7. RowsKept /\ MarksKept
  BY DEF RowsKept, MarksKept, Idle, Nothing
<1> QED
  BY <1>4, <1>5, <1>6, <1>7 DEF Consistent

\* The capture's actions keep the types.
LEMMA CaptureType ==
    ASSUME TypeOK, CaptureInOrder,
           \/ \E s \in Captures, pair \in Pairs : StartCapture(s, pair)
           \/ \E what \in Reads : Read(what)
           \/ EnqueueSession \/ ShowVerdict
    PROVE  TypeOK'
<1> DEFINE CapType == [at : {"none", "reading", "queued"}, had : BOOLEAN,
                id : Captures \union {None}, pair : Pairs \union {None},
                todo : SUBSET Reads, lines : Lines, report : Numbers,
                loaded : SUBSET Vins, verdict : Verdicts \union {None}]
<1>1. cap \in CapType /\ db \in Database
  BY DEF TypeOK
<1>2. NoLines \in Lines
  BY DEF NoLines, Lines
<1>3. ASSUME NEW s \in Captures, NEW pair \in Pairs, StartCapture(s, pair) PROVE TypeOK'
  <2>1. (Committed.report # 0) \in BOOLEAN
    OBVIOUS
  <2>2. cap' = [at |-> "reading", had |-> Committed.report # 0, id |-> s, pair |-> pair,
                todo |-> Reads, lines |-> NoLines, report |-> 0, loaded |-> {}, verdict |-> None]
    BY <1>3 DEF StartCapture, Nothing
  <2>3. cap' \in CapType
    BY <1>2, <2>1, <2>2
  <2> QED
    BY <1>3, <2>3 DEF TypeOK, StartCapture
<1>4. ASSUME NEW what \in Reads, Read(what) PROVE TypeOK'
  <2>1. db.lines \in Lines /\ db.report \in Numbers /\ Known(db) \subseteq Vins
    BY <1>1 DEF Database, Known
  <2>2. cap' \in CapType
    BY <1>1, <1>4, <2>1 DEF Read
  <2> QED
    BY <1>4, <2>2 DEF TypeOK, Read
<1>5. CASE EnqueueSession
  <2>1. cap.at # "none" /\ cap.id \in Captures /\ cap.pair \in Pairs
    BY <1>5 DEF EnqueueSession, CaptureInOrder
  <2>2. Append(db.queue, [id |-> cap.id, pair |-> cap.pair]) \in Seq([id : Captures, pair : Pairs])
    BY <1>1, <2>1, AppendProperties DEF Database
  <2>3. db' \in Database
    BY <1>1, <1>5, <2>2 DEF EnqueueSession, Database
  <2>4. DeviceVerdict \in Verdicts
    BY <2>1, DeviceVerdictFacts
  <2>5. cap' \in CapType
    <3>1. cap' = [at |-> "queued", had |-> cap.had, id |-> cap.id, pair |-> cap.pair,
                  todo |-> {}, lines |-> NoLines, report |-> 0, loaded |-> {},
                  verdict |-> DeviceVerdict]
      BY <1>5 DEF EnqueueSession, Nothing
    <3>2. cap.had \in BOOLEAN
      BY <1>1
    <3> QED
      BY <1>2, <2>1, <2>4, <3>1, <3>2
  <2> QED
    BY <1>5, <2>3, <2>5 DEF TypeOK, EnqueueSession
<1>6. CASE ShowVerdict
  <2>1. cap.verdict \in Verdicts /\ cap.id \in Captures
    BY <1>6 DEF ShowVerdict, CaptureInOrder
  <2>2. Committed.report \in Numbers
    BY CommittedType DEF Database
  <2>3. db' \in Database
    BY <1>1, <1>6 DEF ShowVerdict, MarkLoadedLocally, Database
  <2>4. cap' \in CapType
    BY <1>2, <1>6 DEF ShowVerdict, Nothing
  <2>5. [line |-> cap.verdict.line, report |-> Committed.report]
          \in [line : Vins \union {None}, report : Numbers]
    BY <2>1, <2>2 DEF Verdicts
  <2>6. shown' \in [Captures -> [line : Vins \union {None}, report : Numbers] \union {None}]
    BY <1>6, <2>1, <2>5 DEF ShowVerdict, TypeOK
  <2> QED
    BY <1>6, <2>3, <2>4, <2>6 DEF TypeOK, ShowVerdict
<1> QED
  BY <1>3, <1>4, <1>5, <1>6

\* The run's actions keep the types.
LEMMA UploadType ==
    ASSUME TypeOK, TaskInOrder,
           \/ StartSync
           \/ \E i \in task.left : Handle(i)
           \/ Answered \/ \E s \in Captures : MarkSynced(s)
           \/ UploadLost \/ FetchReport \/ NothingFetched
    PROVE  TypeOK'
<1>1. task.left \subseteq Nat /\ task.synced \subseteq Captures /\ db \in Database
  BY DEF TypeOK
<1>2. CASE StartSync
  <2>1. PendingSessions \subseteq Nat
    BY <1>1, QueueFacts DEF PendingSessions, Unsynced
  <2> QED
    BY <1>2, <2>1 DEF TypeOK, StartSync, Idle
<1>3. ASSUME NEW i \in task.left, Handle(i) PROVE TypeOK'
  <2>1. task.left \subseteq 1..Len(db.queue)
    BY <1>3 DEF Handle, TaskInOrder
  <2> DEFINE s == db.queue[i].id
             v == ServerVerdict(db.queue[i].pair)
  <2>2. s \in Captures /\ db.queue[i].pair \in Pairs
    BY <2>1, QueueFacts
  <2>3. v.outcome = "MATCH" => v.line \in Vins
    BY <2>2, ServerVerdictFacts
  <2>4. task' = [task EXCEPT !.left = task'.left, !.synced = task'.synced]
        /\ task'.left \subseteq task.left
        /\ task'.synced \subseteq task.synced \union {s}
    BY <1>3 DEF Handle, TypeOK
  <2>5. /\ server' = [server EXCEPT !.stored = server'.stored, !.loaded = server'.loaded]
        /\ server'.stored \subseteq server.stored \union {s}
        /\ server'.loaded \subseteq Vins
    BY <1>3, <2>3 DEF Handle, TypeOK
  <2> HIDE DEF s, v
  <2> QED
    BY <1>1, <1>3, <2>2, <2>4, <2>5 DEF TypeOK, Handle
<1>4. CASE Answered
  BY <1>4 DEF TypeOK, Answered
<1>5. ASSUME NEW s \in Captures, MarkSynced(s) PROVE TypeOK'
  <2> DEFINE synced == db.synced \union {s}
  <2>1. synced \in SUBSET Captures
    BY <1>1 DEF Database
  <2>2. db' = [db EXCEPT !.synced = synced]
    BY <1>5 DEF MarkSynced
  <2> HIDE DEF synced
  <2>3. db' \in Database
    BY <1>1, <2>1, <2>2 DEF Database
  <2> QED
    BY <1>5, <2>3 DEF TypeOK, MarkSynced
<1>6. CASE UploadLost
  BY <1>6 DEF TypeOK, UploadLost, Idle
<1>7. CASE FetchReport
  <2>1. [report |-> server.report, loaded |-> server.loaded] \in Answers
    BY <1>7 DEF FetchReport, TypeOK, Answers
  <2> QED
    BY <1>7, <2>1 DEF TypeOK, FetchReport, Idle, SaveSteps
<1>8. CASE NothingFetched
  BY <1>8 DEF TypeOK, NothingFetched, Idle
<1> QED
  BY <1>2, <1>3, <1>4, <1>5, <1>6, <1>7, <1>8

\* Writing the answer keeps the types.
LEMMA SaveType ==
    ASSUME TypeOK, TaskInOrder,
           \/ Begin \/ DeleteLines \/ DeleteReport \/ DeleteServed \/ InsertReport
           \/ \E v \in Vins : InsertLine(v) \/ InsertServed(v)
           \/ Commit
    PROVE  TypeOK'
<1>1. db \in Database
  BY DEF TypeOK
<1>2. task.at \in SaveSteps => task.answer \in Answers
  BY DEF TaskInOrder
<1>3. NoLines \in Lines
  BY DEF NoLines, Lines
<1>4. CASE Begin
  BY <1>4 DEF TypeOK, Begin, Step, SaveSteps
<1>5. CASE DeleteLines
  <2>1. db' \in Database
    BY <1>1, <1>3, <1>5 DEF DeleteLines, Database
  <2> QED
    BY <1>5, <2>1 DEF TypeOK, DeleteLines, Step, SaveSteps
<1>6. CASE DeleteReport
  <2>1. db' \in Database
    BY <1>1, <1>6, 0 \in Numbers DEF DeleteReport, Database
  <2> QED
    BY <1>6, <2>1 DEF TypeOK, DeleteReport, Step, SaveSteps
<1>7. CASE DeleteServed
  <2>1. db' \in Database
    BY <1>1, <1>7 DEF DeleteServed, Database
  <2> QED
    BY <1>7, <2>1 DEF TypeOK, DeleteServed, Step, SaveSteps
<1>8. CASE InsertReport
  <2>1. task.answer \in Answers
    BY <1>2, <1>8 DEF InsertReport, Step, SaveSteps
  <2>2. db' \in Database
    BY <1>1, <1>8, <2>1 DEF InsertReport, Database, Answers
  <2> QED
    BY <1>8, <2>2 DEF TypeOK, InsertReport, Step, SaveSteps
<1>9. ASSUME NEW v \in Vins, InsertLine(v) PROVE TypeOK'
  <2>1. LinesIn(task.answer.report) \in Lines
    BY <1>2, <1>9, LinesInType DEF InsertLine, SaveSteps, Answers
  <2>2. db' \in Database
    BY <1>1, <1>9, <2>1 DEF InsertLine, Database, Lines
  <2> QED
    BY <1>9, <2>2 DEF TypeOK, InsertLine
<1>10. ASSUME NEW v \in Vins, InsertServed(v) PROVE TypeOK'
  <2>1. db' \in Database
    BY <1>1, <1>10 DEF InsertServed, Database
  <2> QED
    BY <1>10, <2>1 DEF TypeOK, InsertServed
<1>11. CASE Commit
  BY <1>2, <1>11 DEF TypeOK, Commit, Idle, SaveSteps
<1> QED
  BY <1>4, <1>5, <1>6, <1>7, <1>8, <1>9, <1>10, <1>11

LEMMA TypeStep == Consistent /\ [Next]_vars => TypeOK'
<1> SUFFICES ASSUME Consistent, [Next]_vars PROVE TypeOK'
  OBVIOUS
<1>1. TypeOK /\ CaptureInOrder /\ TaskInOrder
  BY DEF Consistent
<1>2. CASE UNCHANGED vars
  BY <1>1, <1>2 DEF vars, TypeOK
<1>3. CASE Killed
  <2>1. Committed \in Database
    BY <1>1, CommittedType
  <2>2. Nothing \in [at : {"none", "reading", "queued"}, had : BOOLEAN,
                id : Captures \union {None}, pair : Pairs \union {None},
                todo : SUBSET Reads, lines : Lines, report : Numbers,
                loaded : SUBSET Vins, verdict : Verdicts \union {None}]
    BY DEF Nothing, NoLines, Lines
  <2>3. dropped' \subseteq Captures \X {"row", "mark"}
    BY <1>1, <1>3 DEF Killed, TypeOK
  <2> QED
    BY <1>1, <1>3, <2>1, <2>2, <2>3 DEF TypeOK, Killed, Idle
<1>4. CASE Amend
  <2>1. server.report \in Numbers
    BY <1>1 DEF TypeOK
  <2>2. server.report + 1 \in Numbers
    BY <1>4, <2>1, VersionsLength DEF Amend
  <2> QED
    BY <1>1, <1>4, <2>2 DEF TypeOK, Amend
<1>5. ASSUME NEW v \in Vins, LoadedElsewhere(v) PROVE TypeOK'
  BY <1>1, <1>5 DEF TypeOK, LoadedElsewhere
<1>6. CASE \/ \E s \in Captures, pair \in Pairs : StartCapture(s, pair)
           \/ \E what \in Reads : Read(what)
           \/ EnqueueSession \/ ShowVerdict
  BY <1>1, <1>6, CaptureType
<1>7. CASE \/ StartSync
           \/ \E i \in task.left : Handle(i)
           \/ Answered \/ \E s \in Captures : MarkSynced(s)
           \/ UploadLost \/ FetchReport \/ NothingFetched
  BY <1>1, <1>7, UploadType
<1>8. CASE \/ Begin \/ DeleteLines \/ DeleteReport \/ DeleteServed \/ InsertReport
           \/ \E v \in Vins : InsertLine(v) \/ InsertServed(v)
           \/ Commit
  BY <1>1, <1>8, SaveType
<1> QED
  BY <1>2, <1>3, <1>4, <1>5, <1>6, <1>7, <1>8, NextCases

-----------------------------------------------------------------------------
(***************************************************************************)
(* The capture and the run, each in its own order.                         *)
(***************************************************************************)
LEMMA CaptureStep == Consistent /\ [Next]_vars => CaptureInOrder'
<1> SUFFICES ASSUME Consistent, [Next]_vars PROVE CaptureInOrder'
  OBVIOUS
<1>1. TypeOK /\ CaptureInOrder
  BY DEF Consistent
<1>2. CASE UNCHANGED <<cap, shown>>
  BY <1>1, <1>2 DEF CaptureInOrder
<1>3. ASSUME NEW s \in Captures, NEW pair \in Pairs, StartCapture(s, pair)
      PROVE  CaptureInOrder'
  BY <1>3 DEF StartCapture, Nothing, CaptureInOrder
<1>4. ASSUME NEW what \in Reads, Read(what) PROVE CaptureInOrder'
  <2>1. cap'.at = "reading" /\ cap'.id = cap.id /\ cap'.pair = cap.pair /\ shown' = shown
    BY <1>1, <1>4 DEF Read, TypeOK
  <2> QED
    BY <1>1, <1>4, <2>1 DEF CaptureInOrder, Read
<1>5. CASE EnqueueSession
  <2>1. /\ cap'.at = "queued" /\ cap'.id = cap.id /\ cap'.pair = cap.pair
        /\ cap'.verdict = DeviceVerdict /\ shown' = shown /\ cap.at = "reading"
    BY <1>5 DEF EnqueueSession, Nothing
  <2> QED
    BY <1>1, <2>1, DeviceVerdictFacts DEF CaptureInOrder
<1>6. CASE ShowVerdict
  BY <1>6 DEF ShowVerdict, Nothing, CaptureInOrder
<1>7. CASE Killed
  BY <1>7 DEF Killed, Nothing, CaptureInOrder
<1>8. CASE \/ StartSync \/ (\E i \in task.left : Handle(i))
           \/ Answered \/ (\E s \in Captures : MarkSynced(s))
           \/ UploadLost \/ FetchReport \/ NothingFetched
  BY <1>2, <1>8
  DEF StartSync, Handle, Answered, MarkSynced, UploadLost, FetchReport, NothingFetched
<1>9. CASE \/ Begin \/ DeleteLines \/ DeleteReport \/ DeleteServed \/ InsertReport
           \/ (\E v \in Vins : InsertLine(v) \/ InsertServed(v)) \/ Commit
           \/ Amend \/ (\E v \in Vins : LoadedElsewhere(v))
  BY <1>2, <1>9
  DEF Begin, DeleteLines, DeleteReport, DeleteServed, InsertReport, InsertLine,
      InsertServed, Commit, Amend, LoadedElsewhere
<1> QED
  BY <1>2, <1>3, <1>4, <1>5, <1>6, <1>7, <1>8, <1>9, NextCases DEF vars

LEMMA TaskStep == Consistent /\ [Next]_vars => TaskInOrder'
<1> SUFFICES ASSUME Consistent, [Next]_vars PROVE TaskInOrder'
  OBVIOUS
<1>1. TypeOK /\ TaskInOrder
  BY DEF Consistent
<1>2. task = [at |-> task.at, left |-> task.left, synced |-> task.synced, answer |-> task.answer]
      /\ task.left \subseteq Nat
  BY <1>1 DEF TypeOK
<1>3. db \in Database /\ Len(db.queue) \in Nat
  BY <1>1, QueueFacts DEF TypeOK
<1>4. CASE UNCHANGED <<db, undo, task>>
  BY <1>1, <1>4 DEF TaskInOrder
<1>5. CASE EnqueueSession
  <2>1. Len(db'.queue) = Len(db.queue) + 1
    BY <1>3, <1>5, AppendProperties DEF EnqueueSession, Database
  <2>2. UNCHANGED <<undo, task>>
    BY <1>5 DEF EnqueueSession
  <2> QED
    BY <1>1, <1>3, <2>1, <2>2 DEF TaskInOrder
<1>6. ASSUME UNCHANGED <<undo, task>>, db'.queue = db.queue PROVE TaskInOrder'
  BY <1>1, <1>6 DEF TaskInOrder
<1>7. CASE ShowVerdict \/ \E v \in Vins : InsertLine(v) \/ InsertServed(v)
  <2>1. UNCHANGED <<undo, task>>
    BY <1>7 DEF ShowVerdict, InsertLine, InsertServed
  <2>2. db'.queue = db.queue
    BY <1>3, <1>7 DEF ShowVerdict, InsertLine, InsertServed, Database
  <2> QED
    BY <1>6, <2>1, <2>2
<1>8. CASE StartSync
  <2>1. PendingSessions \subseteq 1..Len(db.queue)
    BY DEF PendingSessions, Unsynced
  <2> QED
    BY <1>1, <1>8, <2>1 DEF StartSync, Idle, TaskInOrder, InTransaction, SaveSteps
<1>9. ASSUME NEW i \in task.left, Handle(i) PROVE TaskInOrder'
  <2>1. /\ task'.at = task.at /\ task'.left \subseteq task.left
        /\ task'.answer = task.answer /\ UNCHANGED <<db, undo>>
    BY <1>2, <1>9 DEF Handle
  <2> QED
    BY <1>1, <2>1 DEF TaskInOrder
<1>10. ASSUME NEW s \in Captures, MarkSynced(s) PROVE TaskInOrder'
  <2>1. task'.at = task.at /\ task'.answer = task.answer /\ undo' = undo /\ task.at = "record"
    BY <1>2, <1>10 DEF MarkSynced
  <2> QED
    BY <1>1, <2>1 DEF TaskInOrder
<1>11. CASE Answered
  BY <1>1, <1>2, <1>11 DEF Answered, TaskInOrder, InTransaction, SaveSteps
<1>12. CASE UploadLost \/ NothingFetched
  BY <1>1, <1>12 DEF UploadLost, NothingFetched, Idle, TaskInOrder, InTransaction, SaveSteps
<1>13. CASE FetchReport
  <2>1. [report |-> server.report, loaded |-> server.loaded] \in Answers
    BY <1>1, <1>13 DEF FetchReport, TypeOK, Answers
  <2> QED
    BY <1>1, <1>13, <2>1 DEF FetchReport, Idle, TaskInOrder, InTransaction, SaveSteps
<1>14. CASE Begin
  BY <1>1, <1>2, <1>3, <1>14 DEF Begin, Step, TaskInOrder, InTransaction, SaveSteps
<1>15. CASE DeleteLines \/ DeleteReport \/ DeleteServed \/ InsertReport
  <2>1. /\ undo' = undo /\ task'.answer = task.answer
        /\ task.at \in InTransaction /\ task'.at \in InTransaction
    BY <1>2, <1>15
    DEF DeleteLines, DeleteReport, DeleteServed, InsertReport, Step, InTransaction
  <2> QED
    BY <1>1, <2>1 DEF TaskInOrder, InTransaction, SaveSteps
<1>16. CASE Commit \/ Killed
  BY <1>1, <1>16 DEF Commit, Killed, Idle, TaskInOrder, InTransaction, SaveSteps
<1>17. CASE \/ \E s \in Captures, pair \in Pairs : StartCapture(s, pair)
            \/ \E what \in Reads : Read(what)
            \/ Amend \/ \E v \in Vins : LoadedElsewhere(v)
  BY <1>4, <1>17 DEF StartCapture, Read, Amend, LoadedElsewhere
<1>18. CASE UNCHANGED vars
  BY <1>4, <1>18 DEF vars
<1> QED
  BY <1>5, <1>7, <1>8, <1>9, <1>10, <1>11, <1>12, <1>13, <1>14, <1>15, <1>16,
     <1>17, <1>18, NextCases

-----------------------------------------------------------------------------
(***************************************************************************)
(* The server's answers come to the phone in the order it gave them.       *)
(***************************************************************************)
LEMMA AnswersStep == Consistent /\ [Next]_vars => AnswersInOrder'
<1> SUFFICES ASSUME Consistent, [Next]_vars PROVE AnswersInOrder'
  OBVIOUS
<1>1. AnswersInOrder /\ TaskInOrder
  BY DEF Consistent
<1>2. /\ server = [report |-> server.report, loaded |-> server.loaded, stored |-> server.stored]
      /\ task = [at |-> task.at, left |-> task.left, synced |-> task.synced, answer |-> task.answer]
      /\ server.report \in Nat
  BY VersionsLength DEF Consistent, TypeOK
<1>3. /\ cached # None => cached.report \in Nat
      /\ task.answer # None => task.answer.report \in Nat
  BY VersionsLength DEF Consistent, TypeOK, Answers
<1>4. ASSUME cached' = cached, task'.answer \in {None, task.answer},
             \/ server'.report = server.report /\ server.loaded \subseteq server'.loaded
             \/ server'.report = server.report + 1
      PROVE  AnswersInOrder'
  <2>1. ASSUME NEW a, a.report \in Nat, Before(a, server.report, server.loaded)
        PROVE  Before(a, server'.report, server'.loaded)
    BY <1>2, <1>4, <2>1 DEF Before
  <2>2. cached # None => Before(cached, server'.report, server'.loaded)
    BY <1>1, <1>3, <2>1 DEF AnswersInOrder
  <2>3. task.answer # None => Before(task.answer, server'.report, server'.loaded)
    BY <1>1, <1>3, <2>1 DEF AnswersInOrder
  <2> QED
    BY <1>1, <1>4, <2>2, <2>3 DEF AnswersInOrder
<1>5. CASE UNCHANGED <<cached, task, server>>
  BY <1>4, <1>5
<1>6. CASE \/ \E s \in Captures, pair \in Pairs : StartCapture(s, pair)
           \/ \E what \in Reads : Read(what)
           \/ EnqueueSession \/ ShowVerdict
           \/ \E v \in Vins : InsertLine(v) \/ InsertServed(v)
  BY <1>5, <1>6 DEF StartCapture, Read, EnqueueSession, ShowVerdict, InsertLine, InsertServed
<1>7. CASE \/ StartSync \/ Answered \/ (\E s \in Captures : MarkSynced(s))
           \/ UploadLost \/ NothingFetched \/ Killed
  <2>1. UNCHANGED <<cached, server>>
    BY <1>7 DEF StartSync, Answered, MarkSynced, UploadLost, NothingFetched, Killed
  <2>2. task'.answer \in {None, task.answer}
    <3>1. CASE StartSync
      BY <3>1 DEF StartSync, Idle
    <3>2. CASE Answered \/ \E s \in Captures : MarkSynced(s)
      BY <1>2, <3>2 DEF Answered, MarkSynced
    <3>3. CASE UploadLost \/ NothingFetched \/ Killed
      <4>1. task' = Idle \/ task' = [Idle EXCEPT !.at = "record"]
        BY <3>3 DEF UploadLost, NothingFetched, Killed
      <4> QED
        BY <4>1 DEF Idle
    <3> QED
      BY <1>7, <3>1, <3>2, <3>3
  <2> QED
    BY <1>4, <2>1, <2>2
<1>8. ASSUME NEW i \in task.left, Handle(i) PROVE AnswersInOrder'
  <2>1. UNCHANGED cached /\ task'.answer = task.answer
    BY <1>2, <1>8 DEF Handle
  <2>2. server'.report = server.report /\ server.loaded \subseteq server'.loaded
    BY <1>2, <1>8 DEF Handle
  <2> QED
    BY <1>4, <2>1, <2>2
<1>9. CASE FetchReport
  <2>1. /\ task'.answer = [report |-> server.report, loaded |-> server.loaded]
        /\ UNCHANGED <<cached, server>>
    BY <1>9 DEF FetchReport, Idle
  <2>2. Before(task'.answer, server.report, server.loaded)
    BY <1>2, <2>1 DEF Before
  <2> QED
    BY <1>1, <2>1, <2>2 DEF AnswersInOrder
<1>10. CASE Begin \/ DeleteLines \/ DeleteReport \/ DeleteServed \/ InsertReport
  <2>1. task'.answer = task.answer /\ UNCHANGED <<cached, server>>
    BY <1>2, <1>10 DEF Begin, DeleteLines, DeleteReport, DeleteServed, InsertReport, Step
  <2> QED
    BY <1>4, <2>1
<1>11. CASE Commit
  BY <1>1, <1>11 DEF Commit, Idle, AnswersInOrder
<1>12. CASE Amend \/ \E v \in Vins : LoadedElsewhere(v)
  <2>1. UNCHANGED <<cached, task>>
    BY <1>12 DEF Amend, LoadedElsewhere
  <2>2. \/ server'.report = server.report /\ server.loaded \subseteq server'.loaded
        \/ server'.report = server.report + 1
    BY <1>2, <1>12 DEF Amend, LoadedElsewhere
  <2> QED
    BY <1>4, <2>1, <2>2
<1>13. CASE UNCHANGED vars
  BY <1>5, <1>13 DEF vars
<1> QED
  BY <1>6, <1>7, <1>8, <1>9, <1>10, <1>11, <1>12, <1>13, NextCases

-----------------------------------------------------------------------------
(***************************************************************************)
(* The row of a shown session.                                             *)
(***************************************************************************)
LEMMA RowsStep == Consistent /\ [Next]_vars => RowsKept'
<1> SUFFICES ASSUME Consistent, [Next]_vars PROVE RowsKept'
  OBVIOUS
<1>1. TypeOK /\ CaptureInOrder /\ TaskInOrder /\ RowsKept
  BY DEF Consistent
<1>2. /\ server = [report |-> server.report, loaded |-> server.loaded, stored |-> server.stored]
      /\ task = [at |-> task.at, left |-> task.left, synced |-> task.synced, answer |-> task.answer]
      /\ db = [lines |-> db.lines, report |-> db.report, vins |-> db.vins,
               queue |-> db.queue, synced |-> db.synced]
  BY <1>1 DEF TypeOK, Database
<1>3. ASSUME db'.queue = db.queue, db'.synced = db.synced, UNCHANGED <<shown, dropped, cap>>,
             undo' \in {None, undo, db}, task'.synced \subseteq server'.stored,
             server.stored \subseteq server'.stored
      PROVE  RowsKept'
  <2>1. \A s \in Captures : InQueue(db, s) => InQueue(db', s)
    BY <1>3 DEF InQueue
  <2> QED
    BY <1>1, <1>3, <2>1 DEF RowsKept, CaptureInOrder
<1>4. CASE UNCHANGED <<db, undo, cap, task, server, shown, dropped>>
  BY <1>3, <1>1, <1>4 DEF RowsKept
<1>5. ASSUME NEW s \in Captures, NEW pair \in Pairs, StartCapture(s, pair) PROVE RowsKept'
  <2>1. cap'.at = "reading" /\ UNCHANGED <<db, undo, task, server, shown, dropped>>
    BY <1>5 DEF StartCapture, Nothing
  <2> QED
    BY <1>1, <2>1 DEF RowsKept
<1>6. ASSUME NEW what \in Reads, Read(what) PROVE RowsKept'
  <2>1. cap'.at = "reading" /\ UNCHANGED <<db, undo, task, server, shown, dropped>>
    BY <1>1, <1>6 DEF Read, TypeOK
  <2> QED
    BY <1>1, <2>1 DEF RowsKept
<1>7. CASE EnqueueSession
  <2> DEFINE row == [id |-> cap.id, pair |-> cap.pair]
  <2>1. /\ db'.queue = Append(db.queue, row) /\ db'.synced = db.synced
        /\ cap'.id = cap.id /\ UNCHANGED <<undo, task, server, shown, dropped>>
    BY <1>2, <1>7 DEF EnqueueSession, Nothing
  <2>2. db.queue \in Seq([id : Captures, pair : Pairs]) /\ row \in [id : Captures, pair : Pairs]
    BY <1>1, <1>7 DEF TypeOK, Database, EnqueueSession, CaptureInOrder
  <2>3. /\ Len(db'.queue) = Len(db.queue) + 1 /\ Len(db.queue) \in Nat
        /\ db'.queue[Len(db.queue) + 1] = row
        /\ \A i \in 1..Len(db.queue) : db'.queue[i] = db.queue[i]
    BY <2>1, <2>2, AppendProperties
  <2>4. \A s : InQueue(db, s) => InQueue(db', s)
    BY <2>3 DEF InQueue
  <2>5. InQueue(db', cap.id)
    BY <2>3 DEF InQueue
  <2> QED
    BY <1>1, <2>1, <2>4, <2>5 DEF RowsKept
<1>8. CASE ShowVerdict
  <2>1. /\ db'.queue = db.queue /\ db'.synced = db.synced
        /\ cap'.at = "none" /\ UNCHANGED <<undo, task, server, dropped>>
    BY <1>2, <1>8 DEF ShowVerdict, Nothing
  <2>2. \A s : InQueue(db', s) = InQueue(db, s)
    BY <2>1 DEF InQueue
  <2>3. InQueue(db, cap.id)
    BY <1>1, <1>8 DEF RowsKept, ShowVerdict
  <2>4. \A s \in Captures : s # cap.id => shown'[s] = shown[s]
    BY <1>1, <1>8 DEF ShowVerdict, TypeOK
  <2> QED
    BY <1>1, <2>1, <2>2, <2>3, <2>4 DEF RowsKept
<1>9. CASE StartSync \/ UploadLost \/ FetchReport \/ NothingFetched
  <2>1. CASE StartSync
    BY <1>3, <2>1 DEF StartSync, Idle
  <2>2. CASE UploadLost
    BY <1>3, <2>2 DEF UploadLost, Idle
  <2>3. CASE FetchReport
    BY <1>3, <2>3 DEF FetchReport, Idle
  <2>4. CASE NothingFetched
    BY <1>3, <2>4 DEF NothingFetched, Idle
  <2> QED
    BY <1>9, <2>1, <2>2, <2>3, <2>4
<1>10. ASSUME NEW i \in task.left, Handle(i) PROVE RowsKept'
  <2>1. UNCHANGED <<db, undo, cap, shown, dropped>>
    BY <1>10 DEF Handle
  <2>2. server.stored \subseteq server'.stored
    BY <1>2, <1>10 DEF Handle
  <2>3. task'.synced \subseteq server'.stored
    <3> DEFINE s == db.queue[i].id
               new == s \notin Refused \union server.stored
    <3>1. server'.stored = IF new THEN server.stored \union {s} ELSE server.stored
      BY <1>2, <1>10 DEF Handle
    <3>2. \/ s \in Refused /\ task'.synced = task.synced
          \/ task'.synced \subseteq task.synced \union {s} /\ s \notin Refused
      BY <1>2, <1>10 DEF Handle
    <3> QED
      BY <1>1, <3>1, <3>2 DEF RowsKept
  <2> QED
    BY <1>3, <2>1, <2>2, <2>3
<1>11. CASE Answered
  <2>1. task'.synced = task.synced /\ UNCHANGED <<db, undo, cap, server, shown, dropped>>
    BY <1>2, <1>11 DEF Answered
  <2> QED
    BY <1>1, <1>3, <2>1 DEF RowsKept
<1>12. ASSUME NEW s \in Captures, MarkSynced(s) PROVE RowsKept'
  <2>1. /\ task'.synced \subseteq task.synced /\ s \in task.synced
        /\ db'.synced = db.synced \union {s} /\ db'.queue = db.queue
        /\ UNCHANGED <<undo, cap, server, shown, dropped>>
    BY <1>2, <1>12 DEF MarkSynced
  <2>2. undo = None
    BY <1>1, <1>12 DEF MarkSynced, TaskInOrder, InTransaction
  <2>3. \A t : InQueue(db', t) = InQueue(db, t)
    BY <2>1 DEF InQueue
  <2> QED
    BY <1>1, <2>1, <2>2, <2>3 DEF RowsKept
<1>13. CASE Begin \/ DeleteLines \/ DeleteReport \/ DeleteServed \/ InsertReport
  <2>1. /\ task'.synced = task.synced /\ db'.queue = db.queue /\ db'.synced = db.synced
        /\ undo' \in {undo, db} /\ UNCHANGED <<cap, server, shown, dropped>>
    BY <1>2, <1>13 DEF Begin, DeleteLines, DeleteReport, DeleteServed, InsertReport, Step
  <2> QED
    BY <1>1, <1>3, <2>1 DEF RowsKept
<1>14. ASSUME NEW v \in Vins, InsertLine(v) \/ InsertServed(v) PROVE RowsKept'
  <2>1. /\ db'.queue = db.queue /\ db'.synced = db.synced
        /\ UNCHANGED <<undo, task, cap, server, shown, dropped>>
    BY <1>2, <1>14 DEF InsertLine, InsertServed
  <2> QED
    BY <1>1, <1>3, <2>1 DEF RowsKept
<1>15. CASE Commit
  <2>1. task'.synced = {} /\ undo' = None /\ UNCHANGED <<db, cap, server, shown, dropped>>
    BY <1>15 DEF Commit, Idle
  <2> QED
    BY <1>3, <2>1
<1>16. CASE Killed
  <2>1. /\ db' = Committed /\ undo' = None /\ cap'.at = "none" /\ task'.synced = {}
        /\ UNCHANGED <<server, shown>>
        /\ dropped \subseteq dropped'
        /\ \A s \in Captures : shown[s] # None /\ InQueue(db, s) /\ ~InQueue(Committed, s)
              => <<s, "row">> \in dropped'
    BY <1>16 DEF Killed, Nothing, Idle
  <2>2. Committed.synced = db.synced
    BY <1>1 DEF RowsKept, Committed
  <2> QED
    BY <1>1, <2>1, <2>2 DEF RowsKept
<1>17. CASE Amend \/ \E v \in Vins : LoadedElsewhere(v)
  <2>1. UNCHANGED <<db, undo, cap, task, shown, dropped>> /\ server'.stored = server.stored
    BY <1>2, <1>17 DEF Amend, LoadedElsewhere
  <2> QED
    BY <1>1, <1>3, <2>1 DEF RowsKept
<1>18. CASE UNCHANGED vars
  BY <1>4, <1>18 DEF vars
<1> QED
  BY <1>5, <1>6, <1>7, <1>8, <1>9, <1>10, <1>11, <1>12, <1>13, <1>14, <1>15, <1>16,
     <1>17, <1>18, NextCases

-----------------------------------------------------------------------------
(***************************************************************************)
(* What is committed is one answer, what is being written is the next.     *)
(***************************************************************************)
LEMMA SavingStep == Consistent /\ [Next]_vars => Saving'
<1> SUFFICES ASSUME Consistent, [Next]_vars PROVE Saving'
  OBVIOUS
<1>1. TypeOK /\ CaptureInOrder /\ TaskInOrder /\ Saving
  BY DEF Consistent
<1>2. /\ task = [at |-> task.at, left |-> task.left, synced |-> task.synced, answer |-> task.answer]
      /\ db = [lines |-> db.lines, report |-> db.report, vins |-> db.vins,
               queue |-> db.queue, synced |-> db.synced]
      /\ db.vins \in [Vins -> {"none", "local", "server"}]
      /\ db.lines \in [Vins -> Containers \union {None}]
  BY <1>1 DEF TypeOK, Database, Lines
<1>3. db # None /\ (undo # None => task.at \in InTransaction) /\ (undo = None => task.at \notin InTransaction)
  BY <1>1 DEF TaskInOrder, TypeOK
<1>4. \A d, e, answer : /\ d.lines = e.lines /\ d.report = e.report /\ d.vins = e.vins
                        /\ IsAnswer(d, answer)
                        => IsAnswer(e, answer)
  BY DEF IsAnswer, Known
<1>5. ASSUME db'.lines = db.lines, db'.report = db.report, db'.vins = db.vins,
             UNCHANGED <<undo, cached>>, task'.answer = task.answer,
             \/ task'.at = task.at
             \/ undo = None /\ task'.at \notin InTransaction
      PROVE  Saving'
  <2>1. IsAnswer(Committed', cached')
    <3>1. CASE undo = None
      BY <1>1, <1>4, <1>5, <3>1 DEF Saving, Committed
    <3>2. CASE undo # None
      BY <1>1, <1>5, <3>2 DEF Saving, Committed
    <3> QED
      BY <3>1, <3>2
  <2> QED
    BY <1>1, <1>5, <2>1 DEF Saving, InTransaction
<1>6. ASSUME db' = db, undo' = None, undo = None, cached' = cached, task'.at \notin InTransaction
      PROVE  Saving'
  <2>1. IsAnswer(Committed', cached')
    BY <1>1, <1>6 DEF Saving, Committed
  <2> QED
    BY <1>6, <2>1 DEF Saving, InTransaction
<1>7. CASE \/ \E s \in Captures, pair \in Pairs : StartCapture(s, pair)
           \/ \E what \in Reads : Read(what)
           \/ EnqueueSession \/ Amend \/ \E v \in Vins : LoadedElsewhere(v)
  <2>1. /\ UNCHANGED <<undo, cached, task>>
        /\ db'.lines = db.lines /\ db'.report = db.report /\ db'.vins = db.vins
    BY <1>2, <1>7 DEF StartCapture, Read, EnqueueSession, Amend, LoadedElsewhere
  <2> QED
    BY <1>5, <2>1
<1>8. CASE ShowVerdict
  <2>1. CASE cap.verdict.outcome # "MATCH"
    <3>1. UNCHANGED <<db, undo, cached, task>>
      BY <1>8, <2>1 DEF ShowVerdict
    <3> QED
      BY <1>5, <3>1
  <2>2. CASE cap.verdict.outcome = "MATCH"
    <3>1. cap.verdict.line \in Vins
      BY <1>1, <1>8, <2>2 DEF ShowVerdict, CaptureInOrder, Verdicts
    <3>2. /\ UNCHANGED <<undo, cached, task>>
          /\ db'.lines = db.lines /\ db'.report = db.report
          /\ db'.vins = [db.vins EXCEPT ![cap.verdict.line] = "local"]
      BY <1>2, <1>8, <2>2 DEF ShowVerdict, MarkLoadedLocally
    <3>3. \A v \in Vins : db'.vins[v] = db.vins[v] \/ db'.vins[v] = "local"
      BY <1>2, <3>1, <3>2
    <3>4. \A answer : IsAnswer(db, answer) => IsAnswer(db', answer)
      BY <3>2, <3>3 DEF IsAnswer, Known
    <3>5. IsAnswer(Committed', cached')
      BY <1>1, <3>2, <3>4 DEF Saving, Committed
    <3> QED
      BY <1>1, <3>2, <3>3, <3>5 DEF Saving, InTransaction
  <2> QED
    BY <2>1, <2>2
<1>9. CASE StartSync \/ UploadLost \/ FetchReport \/ NothingFetched
  <2>1. UNCHANGED <<db, undo, cached>> /\ task.at \notin InTransaction
    BY <1>9 DEF StartSync, UploadLost, FetchReport, NothingFetched, InTransaction
  <2>2. task'.at \notin InTransaction
    <3>1. CASE StartSync
      BY <3>1 DEF StartSync, Idle, InTransaction
    <3>2. CASE UploadLost
      BY <3>2 DEF UploadLost, Idle, InTransaction
    <3>3. CASE FetchReport
      BY <3>3 DEF FetchReport, Idle, InTransaction
    <3>4. CASE NothingFetched
      BY <3>4 DEF NothingFetched, Idle, InTransaction
    <3> QED
      BY <1>9, <3>1, <3>2, <3>3, <3>4
  <2> QED
    BY <1>3, <1>6, <2>1, <2>2
<1>10. CASE Answered \/ (\E i \in task.left : Handle(i)) \/ \E s \in Captures : MarkSynced(s)
  <2>1. /\ UNCHANGED <<undo, cached>> /\ task'.answer = task.answer
        /\ db'.lines = db.lines /\ db'.report = db.report /\ db'.vins = db.vins
    BY <1>2, <1>10 DEF Answered, Handle, MarkSynced
  <2>2. task'.at = task.at \/ (task.at = "upload" /\ task'.at = "record")
    BY <1>2, <1>10 DEF Answered, Handle, MarkSynced
  <2>3. undo = None \/ task'.at = task.at
    BY <1>3, <2>2 DEF InTransaction
  <2> QED
    BY <1>5, <2>1, <2>2, <2>3 DEF InTransaction
<1>11. CASE Begin
  <2>1. task.at = "begin" /\ task'.at = "deleteLines" /\ UNCHANGED <<db, cached>> /\ undo' = db
    BY <1>2, <1>11 DEF Begin, Step
  <2>2. undo = None
    BY <1>3, <2>1 DEF InTransaction
  <2>3. Committed' = Committed
    BY <1>3, <2>1, <2>2 DEF Committed
  <2> QED
    BY <1>1, <2>1, <2>3 DEF Saving, InTransaction
<1>12. ASSUME undo' = undo, undo # None, cached' = cached PROVE IsAnswer(Committed', cached')
  BY <1>1, <1>12 DEF Saving, Committed
<1>13. CASE DeleteLines
  <2>1. /\ task.at = "deleteLines" /\ task'.at = "deleteReport" /\ UNCHANGED <<undo, cached>>
        /\ db'.lines = NoLines /\ db'.vins = db.vins
    BY <1>2, <1>13 DEF DeleteLines, Step
  <2>2. undo # None
    BY <1>3, <2>1 DEF InTransaction
  <2>3. \A v \in Vins : db'.lines[v] = None
    BY <2>1 DEF NoLines
  <2> QED
    BY <1>1, <1>12, <2>1, <2>2, <2>3 DEF Saving, InTransaction
<1>14. CASE DeleteReport
  <2>1. /\ task.at = "deleteReport" /\ task'.at = "deleteServed" /\ UNCHANGED <<undo, cached>>
        /\ db'.lines = db.lines /\ db'.vins = db.vins /\ task'.answer = task.answer
    BY <1>2, <1>14 DEF DeleteReport, Step
  <2>2. undo # None
    BY <1>3, <2>1 DEF InTransaction
  <2> QED
    BY <1>1, <1>12, <2>1, <2>2 DEF Saving, InTransaction
<1>15. CASE DeleteServed
  <2>1. /\ task.at = "deleteServed" /\ task'.at = "insertReport" /\ UNCHANGED <<undo, cached>>
        /\ db'.lines = db.lines /\ task'.answer = task.answer
        /\ \A v \in Vins : db'.vins[v] # "server"
    BY <1>2, <1>15 DEF DeleteServed, Step
  <2>2. undo # None
    BY <1>3, <2>1 DEF InTransaction
  <2> QED
    BY <1>1, <1>12, <2>1, <2>2 DEF Saving, InTransaction
<1>16. CASE InsertReport
  <2>1. /\ task.at = "insertReport" /\ task'.at = "insert" /\ UNCHANGED <<undo, cached>>
        /\ db'.lines = db.lines /\ db'.vins = db.vins /\ task'.answer = task.answer
        /\ db'.report = task.answer.report
    BY <1>2, <1>16 DEF InsertReport, Step
  <2>2. undo # None
    BY <1>3, <2>1 DEF InTransaction
  <2> QED
    BY <1>1, <1>12, <2>1, <2>2 DEF Saving, InTransaction
<1>17. ASSUME NEW v \in Vins, InsertLine(v) PROVE Saving'
  <2>1. /\ task.at = "insert" /\ UNCHANGED <<undo, cached, task>>
        /\ db'.vins = db.vins /\ db'.report = db.report
        /\ db'.lines = [db.lines EXCEPT ![v] = LinesIn(task.answer.report)[v]]
    BY <1>2, <1>17 DEF InsertLine
  <2>2. undo # None
    BY <1>3, <2>1 DEF InTransaction
  <2>3. \A w \in Vins : db'.lines[w] \in {db.lines[w], LinesIn(task.answer.report)[w]}
    BY <1>2, <2>1
  <2> QED
    BY <1>1, <1>12, <2>1, <2>2, <2>3 DEF Saving, InTransaction
<1>18. ASSUME NEW v \in Vins, InsertServed(v) PROVE Saving'
  <2>1. /\ task.at = "insert" /\ UNCHANGED <<undo, cached, task>> /\ v \in task.answer.loaded
        /\ db'.lines = db.lines /\ db'.report = db.report
        /\ db'.vins = [db.vins EXCEPT ![v] = "server"]
    BY <1>2, <1>18 DEF InsertServed
  <2>2. undo # None
    BY <1>3, <2>1 DEF InTransaction
  <2>3. \A w \in Vins : w # v => db'.vins[w] = db.vins[w]
    BY <1>2, <2>1
  <2> QED
    BY <1>1, <1>12, <2>1, <2>2, <2>3 DEF Saving, InTransaction
<1>19. CASE Commit
  <2>1. /\ task.at = "insert" /\ LinesLeft = {}
        /\ \A v \in task.answer.loaded : db.vins[v] = "server"
        /\ undo' = None /\ cached' = task.answer /\ task'.at = "idle" /\ db' = db
    BY <1>19 DEF Commit, Idle
  <2>2. task.answer \in Answers /\ task.answer # None
    BY <1>1, <2>1 DEF TaskInOrder, SaveSteps
  <2>3. LinesIn(task.answer.report) \in [Vins -> Containers \union {None}]
    BY <2>2, LinesInType DEF Answers, Lines
  <2>4. \A v \in Vins : db.lines[v] \in {None, LinesIn(task.answer.report)[v]}
    BY <1>1, <2>1 DEF Saving, InTransaction
  <2>5. \A v \in Vins : db.lines[v] = LinesIn(task.answer.report)[v]
    BY <2>1, <2>4 DEF LinesLeft, Listed
  <2>6. db.lines = LinesIn(task.answer.report)
    BY <1>2, <2>3, <2>5
  <2>7. db.report = task.answer.report
    BY <1>1, <2>1 DEF Saving
  <2>8. {v \in Vins : db.vins[v] = "server"} \subseteq task.answer.loaded
    BY <1>1, <2>1 DEF Saving
  <2>9. task.answer.loaded \subseteq Known(db)
    BY <2>1, <2>2 DEF Known, Answers
  <2>10. IsAnswer(db, task.answer)
    BY <2>2, <2>6, <2>7, <2>8, <2>9 DEF IsAnswer
  <2>11. Committed' = db
    BY <2>1 DEF Committed
  <2> QED
    BY <2>1, <2>10, <2>11 DEF Saving, InTransaction
<1>20. CASE Killed
  <2>1. undo' = None /\ db' = Committed /\ cached' = cached /\ task'.at = "idle"
    BY <1>20 DEF Killed, Idle
  <2>2. Committed' = Committed
    BY <2>1 DEF Committed
  <2> QED
    BY <1>1, <2>1, <2>2 DEF Saving, InTransaction
<1>21. CASE UNCHANGED vars
  BY <1>5, <1>21 DEF vars
<1> QED
  BY <1>7, <1>8, <1>9, <1>10, <1>11, <1>13, <1>14, <1>15, <1>16, <1>17, <1>18, <1>19,
     <1>20, <1>21, NextCases

-----------------------------------------------------------------------------
(***************************************************************************)
(* The mark of a car that was passed here.                                 *)
(***************************************************************************)
LEMMA MarksStep == Consistent /\ [Next]_vars => MarksKept'
<1> SUFFICES ASSUME Consistent, [Next]_vars PROVE MarksKept'
  OBVIOUS
<1>1. TypeOK /\ CaptureInOrder /\ TaskInOrder /\ Saving /\ AnswersInOrder /\ RowsKept /\ MarksKept
  BY DEF Consistent
<1>2. /\ task = [at |-> task.at, left |-> task.left, synced |-> task.synced, answer |-> task.answer]
      /\ db = [lines |-> db.lines, report |-> db.report, vins |-> db.vins,
               queue |-> db.queue, synced |-> db.synced]
      /\ db.vins \in [Vins -> {"none", "local", "server"}]
      /\ db.queue \in Seq([id : Captures, pair : Pairs])
  BY <1>1 DEF TypeOK, Database
<1>3. /\ db # None /\ (undo # None <=> task.at \in InTransaction)
      /\ \A s \in Captures : shown[s] # None =>
             shown[s].report \in Numbers /\ shown[s].line \in Vins \union {None}
  BY <1>1 DEF TaskInOrder, TypeOK
<1>4. \A d, e, s : d.queue = e.queue => InQueue(d, s) = InQueue(e, s)
  BY DEF InQueue

\* Nothing that matters here changes.
<1>5. ASSUME db'.queue = db.queue, db'.report = db.report, db'.vins = db.vins,
             db.synced \subseteq db'.synced, UNCHANGED <<undo, shown, dropped>>,
             undo = None \/ (task'.at = task.at /\ task'.answer = task.answer)
      PROVE  MarksKept'
  <2>1. Known(db') = Known(db)
    BY <1>5 DEF Known
  <2>2. CASE undo = None
    <3>1. Committed = db /\ Committed' = db'
      BY <1>5, <2>2 DEF Committed
    <3>2. ASSUME NEW s \in Captures, shown[s] # None, MarkedAs(db, s)
          PROVE  MarkedAs(Committed, s)'
      BY <1>5, <2>1, <3>1, <3>2 DEF MarkedAs
    <3> QED
      BY <1>1, <1>4, <1>5, <2>1, <2>2, <3>1, <3>2 DEF MarksKept
  <2>3. CASE undo # None
    <3>1. Committed' = Committed
      BY <1>5, <2>3 DEF Committed
    <3> QED
      BY <1>1, <1>4, <1>5, <2>1, <2>3, <3>1 DEF MarksKept, MarkedAs, MarkStays, Waiting
  <2> QED
    BY <2>2, <2>3
<1>6. CASE \/ \E s \in Captures, pair \in Pairs : StartCapture(s, pair)
           \/ \E what \in Reads : Read(what)
           \/ Amend \/ \E v \in Vins : LoadedElsewhere(v)
  <2>1. UNCHANGED <<db, undo, shown, dropped, task>>
    BY <1>6 DEF StartCapture, Read, Amend, LoadedElsewhere
  <2> QED
    BY <1>5, <2>1
<1>7. CASE \/ StartSync \/ Answered \/ UploadLost \/ FetchReport \/ NothingFetched
           \/ \E i \in task.left : Handle(i)
  <2>1. UNCHANGED <<db, undo, shown, dropped>> /\ task.at \notin InTransaction
    BY <1>7
    DEF StartSync, Answered, UploadLost, FetchReport, NothingFetched, Handle, InTransaction
  <2> QED
    BY <1>3, <1>5, <2>1
<1>8. ASSUME NEW s \in Captures, MarkSynced(s) PROVE MarksKept'
  <2>1. /\ db'.queue = db.queue /\ db'.report = db.report /\ db'.vins = db.vins
        /\ db.synced \subseteq db'.synced /\ UNCHANGED <<undo, shown, dropped>>
        /\ task.at \notin InTransaction
    BY <1>2, <1>8 DEF MarkSynced, InTransaction
  <2> QED
    BY <1>3, <1>5, <2>1
<1>9. CASE UNCHANGED vars
  BY <1>5, <1>9 DEF vars

\* The phone's own captures.
<1>10. CASE EnqueueSession
  <2> DEFINE row == [id |-> cap.id, pair |-> cap.pair]
  <2>1. /\ db'.queue = Append(db.queue, row) /\ db'.synced = db.synced /\ db'.vins = db.vins
        /\ db'.report = db.report /\ UNCHANGED <<undo, task, shown, dropped>>
    BY <1>2, <1>10 DEF EnqueueSession
  <2>2. row \in [id : Captures, pair : Pairs] /\ shown[cap.id] = None
    BY <1>1, <1>10 DEF EnqueueSession, CaptureInOrder
  <2>3. /\ Len(db'.queue) = Len(db.queue) + 1 /\ Len(db.queue) \in Nat
        /\ db'.queue[Len(db.queue) + 1] = row
        /\ \A i \in 1..Len(db.queue) : db'.queue[i] = db.queue[i]
    BY <1>2, <2>1, <2>2, AppendProperties
  <2>4. \A s \in Captures : shown[s] # None /\ InQueue(db', s) => InQueue(db, s)
    BY <2>2, <2>3 DEF InQueue
  <2>5. Known(db') = Known(db)
    BY <2>1 DEF Known
  <2>6. CASE undo = None
    <3>1. Committed = db /\ Committed' = db'
      BY <2>1, <2>6 DEF Committed
    <3> QED
      BY <1>1, <2>1, <2>4, <2>5, <2>6, <3>1 DEF MarksKept, MarkedAs
  <2>7. CASE undo # None
    <3>1. Committed' = Committed
      BY <2>1, <2>7 DEF Committed
    <3> QED
      BY <1>1, <2>1, <2>4, <2>5, <2>7, <3>1 DEF MarksKept, MarkedAs, MarkStays, Waiting
  <2> QED
    BY <2>6, <2>7
<1>11. CASE ShowVerdict
  <2>1. /\ cap.id \in Captures /\ cap.verdict.line \in Vins \union {None}
        /\ cap.verdict.outcome = "MATCH" <=> cap.verdict.line # None
    BY <1>1, <1>11 DEF ShowVerdict, CaptureInOrder, Verdicts
  <2>2. /\ db'.queue = db.queue /\ db'.synced = db.synced /\ db'.report = db.report
        /\ UNCHANGED <<undo, task, dropped>>
    BY <1>2, <1>11 DEF ShowVerdict
  <2>3. Known(db) \subseteq Known(db')
        /\ (cap.verdict.line # None => cap.verdict.line \in Known(db'))
    BY <1>2, <1>11, <2>1 DEF ShowVerdict, MarkLoadedLocally, Known
  <2>4. /\ shown'[cap.id].report = Committed.report /\ shown'[cap.id].line = cap.verdict.line
        /\ \A s \in Captures : s # cap.id => shown'[s] = shown[s]
    BY <1>1, <1>11, <2>1 DEF ShowVerdict, TypeOK
  <2>5. Committed.report \in Numbers
    BY <1>1, CommittedType DEF Database
  <2>6. /\ Committed'.report = Committed.report /\ Known(Committed) \subseteq Known(Committed')
        /\ Committed'.queue = Committed.queue
    BY <2>2, <2>3 DEF Committed
  <2>7. ASSUME NEW s \in Captures, shown'[s] # None, s # cap.id
        PROVE  /\ shown'[s].report <= Committed'.report
               /\ shown'[s].line # None =>
                     /\ InQueue(Committed', s) /\ s \notin db'.synced => MarkedAs(Committed, s)'
                     /\ undo' # None /\ Waiting(s)' => MarkStays(s)'
    BY <1>1, <1>4, <2>2, <2>3, <2>4, <2>6, <2>7 DEF MarksKept, MarkedAs, MarkStays, Waiting
  <2>8. ASSUME NEW s \in Captures, s = cap.id
        PROVE  /\ shown'[s].report <= Committed'.report
               /\ shown'[s].line # None => MarkedAs(Committed, s)' /\ MarkStays(s)'
    <3>1. shown'[s].report <= Committed'.report
      BY <2>4, <2>5, <2>6, <2>8, VersionsLength
    <3>2. shown'[s].line # None => shown'[s].line \in Known(db')
      BY <2>3, <2>4, <2>8
    <3> QED
      BY <3>1, <3>2 DEF MarkedAs, MarkStays
  <2> QED
    BY <2>7, <2>8 DEF MarksKept

\* Writing the answer.
<1>12. CASE Begin
  <2>1. /\ task.at = "begin" /\ task'.at = "deleteLines" /\ task'.answer = task.answer
        /\ UNCHANGED <<db, shown, dropped>> /\ undo' = db
    BY <1>2, <1>12 DEF Begin, Step
  <2>2. undo = None /\ Committed = db /\ Committed' = db
    BY <1>3, <2>1 DEF InTransaction, Committed
  <2>3. ASSUME NEW s \in Captures, shown[s] # None, shown[s].line # None, Waiting(s)
        PROVE  MarkStays(s)'
    <3>1. MarkedAs(db, s)
      BY <1>1, <2>2, <2>3 DEF MarksKept, Waiting
    <3>2. CASE db.report > shown[s].report
      <4>1. cached # None
        BY <1>1, <1>3, <2>2, <2>3, <3>2, VersionsLength DEF Saving, IsAnswer
      <4>2. cached.report = db.report /\ cached.report \in Nat
        BY <1>1, <2>2, <4>1, VersionsLength DEF Saving, IsAnswer, TypeOK, Answers
      <4>3. task.answer \in Answers
        BY <1>1, <2>1 DEF TaskInOrder, SaveSteps
      <4>4. cached.report <= task.answer.report /\ task.answer.report \in Nat
        BY <1>1, <4>1, <4>3, VersionsLength DEF AnswersInOrder, Before, Answers
      <4> QED
        BY <1>3, <2>1, <2>3, <3>2, <4>2, <4>4, VersionsLength DEF MarkStays
    <3> QED
      BY <2>1, <3>1, <3>2 DEF MarkedAs, MarkStays
  <2>4. \A s : Waiting(s)' = Waiting(s)
    BY <2>1 DEF Waiting, InQueue
  <2>5. ASSUME NEW s \in Captures PROVE MarkedAs(Committed, s)' = MarkedAs(Committed, s)
    BY <2>1, <2>2 DEF MarkedAs
  <2> QED
    BY <1>1, <2>1, <2>2, <2>3, <2>4, <2>5 DEF MarksKept
\* A step of the transaction that unmarks no car.
<1>13. ASSUME undo # None, db'.queue = db.queue, db'.synced = db.synced,
              UNCHANGED <<undo, shown, dropped>>, task'.answer = task.answer,
              Known(db) \subseteq Known(db'),
              task.at \in {"insertReport", "insert"} => task'.at \in {"insertReport", "insert"}
       PROVE  MarksKept'
  <2>1. Committed' = Committed
    BY <1>13 DEF Committed
  <2> QED
    BY <1>1, <1>4, <1>13, <2>1 DEF MarksKept, MarkedAs, MarkStays, Waiting
<1>14. CASE DeleteLines \/ DeleteReport \/ InsertReport
  <2>1. /\ db'.queue = db.queue /\ db'.synced = db.synced /\ db'.vins = db.vins
        /\ UNCHANGED <<undo, shown, dropped>> /\ task'.answer = task.answer
        /\ task.at \in InTransaction
        /\ task.at \in {"insertReport", "insert"} => task'.at \in {"insertReport", "insert"}
    BY <1>2, <1>14 DEF DeleteLines, DeleteReport, InsertReport, Step, InTransaction
  <2>2. Known(db') = Known(db)
    BY <2>1 DEF Known
  <2> QED
    BY <1>3, <1>13, <2>1, <2>2
<1>15. CASE \E v \in Vins : InsertLine(v) \/ InsertServed(v)
  <2>1. /\ db'.queue = db.queue /\ db'.synced = db.synced
        /\ UNCHANGED <<undo, shown, dropped, task>> /\ task.at \in InTransaction
    BY <1>2, <1>15 DEF InsertLine, InsertServed, InTransaction
  <2>2. Known(db) \subseteq Known(db')
    BY <1>2, <1>15 DEF InsertLine, InsertServed, Known
  <2> QED
    BY <1>3, <1>13, <2>1, <2>2
<1>16. CASE DeleteServed
  <2>1. /\ task.at = "deleteServed" /\ task'.at = "insertReport" /\ task'.answer = task.answer
        /\ db'.queue = db.queue /\ db'.synced = db.synced /\ UNCHANGED <<undo, shown, dropped>>
        /\ db'.vins = [v \in Vins |-> IF db.vins[v] = "server" THEN "none" ELSE db.vins[v]]
    BY <1>2, <1>16 DEF DeleteServed, Step
  <2>2. undo # None /\ Committed = undo /\ Committed' = undo
    BY <1>3, <2>1 DEF InTransaction, Committed
  <2>3. task.answer \in Answers /\ task.answer # None
    BY <1>1, <2>1 DEF TaskInOrder, SaveSteps
  \* A mark that goes was in the cache already: it was served with the last answer.
  <2>4. ASSUME NEW v \in Vins, v \in Known(db), v \notin Known(db')
        PROVE  /\ v \in Known(undo)
               /\ cached # None /\ v \in cached.loaded
    <3>1. db.vins[v] = "server"
      BY <1>2, <2>1, <2>4 DEF Known
    <3>2. undo.vins[v] = "server"
      BY <1>1, <2>1, <3>1 DEF Saving
    <3>3. cached # None
      BY <1>1, <2>2, <3>2 DEF Saving, IsAnswer
    <3> QED
      BY <1>1, <2>2, <3>2, <3>3 DEF Saving, IsAnswer, Known
  <2>5. ASSUME NEW s \in Captures, shown[s] # None, shown[s].line # None, MarkedAs(undo, s)
        PROVE  MarkedAs(undo, s)'
    BY <1>3, <2>1, <2>4, <2>5 DEF MarkedAs
  <2>6. ASSUME NEW s \in Captures, shown[s] # None, shown[s].line # None, MarkStays(s)
        PROVE  MarkStays(s)'
    <3>1. CASE shown[s].line \in Known(db) /\ shown[s].line \notin Known(db')
      <4>1. cached # None /\ shown[s].line \in cached.loaded
        BY <1>3, <2>4, <2>6, <3>1
      <4>2. shown[s].report <= cached.report
        BY <1>1, <2>6, <4>1 DEF MarksKept, Saving, IsAnswer
      <4>3. Before(cached, task.answer.report, task.answer.loaded)
        BY <1>1, <2>3, <4>1 DEF AnswersInOrder
      <4>4. cached.report \in Nat /\ task.answer.report \in Nat /\ shown[s].report \in Nat
        BY <1>1, <1>3, <2>3, <2>6, <4>1, VersionsLength DEF TypeOK, Answers
      <4>5. task.answer.report > shown[s].report \/ shown[s].line \in task.answer.loaded
        BY <4>1, <4>2, <4>3, <4>4 DEF Before
      <4> QED
        BY <2>1, <4>5 DEF MarkStays
    <3> QED
      BY <2>1, <2>6, <3>1 DEF MarkStays
  <2>7. \A s : Waiting(s)' = Waiting(s)
    BY <2>1 DEF Waiting, InQueue
  <2>8. \A s \in Captures : MarkedAs(Committed, s)' = MarkedAs(undo, s)'
    BY <2>1, <2>2 DEF MarkedAs
  <2> QED
    BY <1>1, <2>1, <2>2, <2>5, <2>6, <2>7, <2>8 DEF MarksKept
<1>17. CASE Commit
  <2>1. /\ task.at = "insert" /\ undo' = None /\ UNCHANGED <<db, shown, dropped>>
        /\ \A v \in task.answer.loaded : db.vins[v] = "server"
    BY <1>17 DEF Commit
  <2>2. undo # None /\ Committed = undo /\ Committed' = db
    BY <1>3, <2>1 DEF InTransaction, Committed
  <2>3. task.answer \in Answers /\ task.answer # None
    BY <1>1, <2>1 DEF TaskInOrder, SaveSteps
  <2>4. db.report = task.answer.report /\ task.answer.report \in Nat
        /\ task.answer.loaded \subseteq Known(db)
    BY <1>1, <2>1, <2>3, VersionsLength DEF Saving, Answers, Known
  <2>5. ASSUME NEW s \in Captures, shown[s] # None PROVE shown[s].report <= db.report
    <3>1. shown[s].report <= undo.report /\ shown[s].report \in Nat
      BY <1>1, <1>3, <2>2, <2>5, VersionsLength DEF MarksKept
    <3>2. CASE cached = None
      BY <1>1, <2>2, <2>4, <3>1, <3>2 DEF Saving, IsAnswer
    <3>3. CASE cached # None
      <4>1. undo.report = cached.report /\ cached.report \in Nat
        BY <1>1, <2>2, <3>3, VersionsLength DEF Saving, IsAnswer, TypeOK, Answers
      <4>2. cached.report <= task.answer.report
        BY <1>1, <2>3, <3>3 DEF AnswersInOrder, Before
      <4> QED
        BY <2>4, <3>1, <4>1, <4>2
    <3> QED
      BY <3>2, <3>3
  <2>6. ASSUME NEW s \in Captures, shown[s] # None, shown[s].line # None,
               InQueue(db, s), s \notin db.synced
        PROVE  MarkedAs(db, s)
    <3>1. MarkStays(s)
      BY <1>1, <2>2, <2>6 DEF MarksKept, Waiting
    <3> QED
      BY <2>4, <3>1 DEF MarkStays, MarkedAs
  <2>7. \A s \in Captures : MarkedAs(Committed, s)' = MarkedAs(db, s)
    BY <2>1, <2>2 DEF MarkedAs
  <2> QED
    BY <2>1, <2>2, <2>5, <2>6, <2>7 DEF MarksKept
<1>18. CASE Killed
  <2>1. /\ db' = Committed /\ undo' = None /\ UNCHANGED shown /\ dropped \subseteq dropped'
        /\ \A s \in Captures :
              /\ shown[s] # None /\ shown[s].line # None
              /\ shown[s].line \in Known(db) \ Known(Committed)
              => <<s, "mark">> \in dropped'
    BY <1>18 DEF Killed
  <2>2. Committed' = Committed
    BY <2>1 DEF Committed
  <2>3. Committed.synced = db.synced
    BY <1>1 DEF RowsKept, Committed
  <2>4. ASSUME NEW s \in Captures, shown[s] # None, shown[s].line # None, MarkedAs(Committed, s)
        PROVE  MarkedAs(Committed, s)'
    BY <2>1, <2>2, <2>4 DEF MarkedAs
  <2> QED
    BY <1>1, <2>1, <2>2, <2>3, <2>4 DEF MarksKept
<1> QED
  BY <1>6, <1>7, <1>8, <1>9, <1>10, <1>11, <1>12, <1>14, <1>15, <1>16, <1>17, <1>18,
     NextCases

-----------------------------------------------------------------------------
LEMMA Inductive == Spec => []Consistent
<1>1. Consistent /\ [Next]_vars => Consistent'
  BY TypeStep, CaptureStep, TaskStep, SavingStep, AnswersStep, RowsStep, MarksStep
  DEF Consistent
<1> QED
  BY <1>1, InitConsistent, PTL DEF Spec

(***************************************************************************)
(* Every variable of the phone keeps its type.                             *)
(***************************************************************************)
THEOREM TypeCorrect == Spec => []TypeOK
<1>1. Consistent => TypeOK
  BY DEF Consistent
<1> QED
  BY <1>1, Inductive, PTL

(***************************************************************************)
(* Outside a refresh the cached report is one answer of the server entire. *)
(***************************************************************************)
THEOREM OneAnswer == Spec => []CacheIsOneAnswer
<1>1. Consistent => CacheIsOneAnswer
  BY DEF Consistent, Saving, IsAnswer, Committed, CacheIsOneAnswer
<1> QED
  BY <1>1, Inductive, PTL

(***************************************************************************)
(* A car passed here stays known here while its session waits, but for     *)
(* the two cases OwnMatchRemembered names.                                 *)
(***************************************************************************)
THEOREM Remembered == Spec => []OwnMatchRemembered
<1>1. Consistent => OwnMatchRemembered
  BY DEF Consistent, MarksKept, MarkedAs, Waiting, Committed, OwnMatchRemembered
<1> QED
  BY <1>1, Inductive, PTL

(***************************************************************************)
(* A shown session waits on the phone until the server has stored it, or   *)
(* its row fell into a refresh that a kill rolled back.                    *)
(***************************************************************************)
THEOREM NotLost == Spec => []NothingShownIsLost
<1>1. Consistent => NothingShownIsLost
  BY DEF Consistent, RowsKept, Waiting, NothingShownIsLost
<1> QED
  BY <1>1, Inductive, PTL
=============================================================================
