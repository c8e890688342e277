---------------------------- MODULE OfflineGate ----------------------------
(***************************************************************************)
(* The phone between two signals: an officer captures and is given a       *)
(* verdict from the report cached in SQLite (capture.ts, store.ts), while  *)
(* a background run uploads what is queued and replaces the cache          *)
(* (sync.ts).                                                              *)
(*                                                                         *)
(* Both are asynchronous and share one database connection, so each query  *)
(* is an action.  saveReport replaces the cache in a transaction that is   *)
(* not exclusive (withTransactionAsync of expo-sqlite, external): between  *)
(* its statements a capture reads what it has written so far, and a row    *)
(* the capture writes then belongs to the transaction and is rolled back   *)
(* with it when the app is killed.  Photographs are in Evidence, the       *)
(* server's own interleavings in SyncServer.                               *)
(***************************************************************************)
EXTENDS ReconRules, Sequences

CONSTANTS
    Captures,     \* sessions, named by the id each capture draws
    Pairs,        \* what may stand at the gate: <<container, vin>>
    Refused,      \* captures made where this officer may no longer act
    Versions,     \* the reports the location is given, one after the other
    Batch,        \* sessions one upload takes, 50 in the code
    MaxKills      \* bound: times the app is killed

ReportType == [lines : Lines, over : BOOLEAN]   \* over: its last day is past

ASSUME OfflineAssumption ==
    /\ None \notin Captures \union Pairs
    /\ Pairs \subseteq Containers \X Vins
    /\ Refused \subseteq Captures
    /\ Versions \in Seq(ReportType)
    /\ Batch \in Nat \ {0}
    /\ MaxKills \in Nat

VARIABLES
    db,        \* the phone's database, as a query sees it
    undo,      \* the database before the open transaction, None if none is open
    cap,       \* the capture in progress
    task,      \* the background run in progress
    server,    \* the active version (0: none), its loaded VINs, the stored sessions
    shown,     \* history: the line a capture passed with, and the version then cached
    cached,    \* history: the answer the last finished refresh was made from
    dropped,   \* history: what was rolled back of a capture that was shown
    kills

vars == <<db, undo, cap, task, server, shown, cached, dropped, kills>>

Numbers == 0..Len(Versions)
LinesIn(r) == IF r = 0 THEN NoLines ELSE Versions[r].lines

\* cached_lines, cached_report, loaded_vins, queued_sessions (oldest first).
Database ==
    [lines : Lines, report : Numbers,
     vins : [Vins -> {"none", "local", "server"}],
     queue : Seq([id : Captures, pair : Pairs]), synced : SUBSET Captures]

Answers == [report : Numbers \ {0}, loaded : SUBSET Vins]

ASSUME NoneIsNoRecord == None \notin Database \union Answers

Reads == {"lines", "report", "loaded"}

\* had: a report was cached when the capture began (history).
Nothing == [at |-> "none", had |-> FALSE, id |-> None, pair |-> None, todo |-> {}, lines |-> NoLines,
            report |-> 0, loaded |-> {}, verdict |-> None]

\* left: the places in the queue of the sessions an upload has still to deliver.
Idle == [at |-> "idle", left |-> {}, synced |-> {}, answer |-> None]

SaveSteps == {"begin", "deleteLines", "deleteReport", "deleteServed",
              "insertReport", "insert"}

TypeOK ==
    /\ db \in Database
    /\ undo \in Database \union {None}
    /\ cap \in [at : {"none", "reading", "queued"}, had : BOOLEAN,
                id : Captures \union {None}, pair : Pairs \union {None},
                todo : SUBSET Reads, lines : Lines, report : Numbers,
                loaded : SUBSET Vins, verdict : Verdicts \union {None}]
    /\ task \in [at : {"idle", "upload", "record"} \union SaveSteps,
                 left : SUBSET Nat, synced : SUBSET Captures,
                 answer : Answers \union {None}]
    /\ server \in [report : Numbers, loaded : SUBSET Vins, stored : SUBSET Captures]
    /\ shown \in [Captures -> [line : Vins \union {None}, report : Numbers] \union {None}]
    /\ cached \in Answers \union {None}
    /\ dropped \subseteq Captures \X {"row", "mark"}
    /\ kills \in 0..MaxKills

Init ==
    /\ db = [lines |-> NoLines, report |-> 0, vins |-> [v \in Vins |-> "none"],
             queue |-> <<>>, synced |-> {}]
    /\ undo = None
    /\ cap = Nothing
    /\ task = Idle
    /\ server = [report |-> 0, loaded |-> {}, stored |-> {}]
    /\ shown = [s \in Captures |-> None]
    /\ cached = None
    /\ dropped = {}
    /\ kills = 0

history == <<shown, cached, dropped, kills>>

\* What a kill leaves of the database.
Committed == IF undo = None THEN db ELSE undo

InQueue(d, s) == \E i \in 1..Len(d.queue) : d.queue[i].id = s
Waiting(s) == InQueue(db, s) /\ s \notin db.synced
Known(d) == {v \in Vins : d.vins[v] # "none"}

-----------------------------------------------------------------------------
(***************************************************************************)
(* A capture: commitCapture.                                               *)
(***************************************************************************)
StartCapture(s, pair) ==
    /\ cap.at = "none"
    /\ shown[s] = None /\ ~InQueue(db, s)
    /\ cap' = [Nothing EXCEPT !.at = "reading", !.had = Committed.report # 0,
                              !.id = s, !.pair = pair, !.todo = Reads]
    /\ UNCHANGED <<db, undo, task, server, history>>

\* The three reads are started together; nothing orders their results.
Read(what) ==
    /\ cap.at = "reading" /\ what \in cap.todo
    /\ cap' = [cap EXCEPT !.todo = @ \ {what},
                   !.lines = IF what = "lines" THEN db.lines ELSE @,
                   !.report = IF what = "report" THEN db.report ELSE @,
                   !.loaded = IF what = "loaded" THEN Known(db) ELSE @]
    /\ UNCHANGED <<db, undo, task, server, history>>

\* Without a cached report nothing is known to have expired.
DeviceVerdict ==
    Reconcile(cap.pair[1], cap.pair[2], cap.lines, cap.loaded,
              cap.report # 0 /\ Versions[cap.report].over)

\* The verdict is reached; the photographs are queued first (see Evidence).
EnqueueSession ==
    /\ cap.at = "reading" /\ cap.todo = {}
    /\ db' = [db EXCEPT !.queue = Append(@, [id |-> cap.id, pair |-> cap.pair])]
    /\ cap' = [Nothing EXCEPT !.at = "queued", !.had = cap.had, !.id = cap.id,
                              !.pair = cap.pair, !.verdict = DeviceVerdict]
    /\ UNCHANGED <<undo, task, server, history>>

MarkLoadedLocally(vins) == [vins EXCEPT ![cap.verdict.line] = "local"]

\* A MATCH is remembered on the phone; commitCapture returns and the verdict shows.
ShowVerdict ==
    /\ cap.at = "queued"
    /\ db' = IF cap.verdict.outcome = "MATCH"
             THEN [db EXCEPT !.vins = MarkLoadedLocally(@)] ELSE db
    /\ shown' = [shown EXCEPT ![cap.id] =
                    [line |-> cap.verdict.line, report |-> Committed.report]]
    /\ cap' = Nothing
    /\ UNCHANGED <<undo, task, server, cached, dropped, kills>>

-----------------------------------------------------------------------------
(***************************************************************************)
(* The upload half of runSync.                                             *)
(***************************************************************************)
\* getPendingSessions: the oldest rows that are not synced, Batch at most.
Unsynced(n) == {i \in 1..n : db.queue[i].id \notin db.synced}
PendingSessions ==
    {i \in Unsynced(Len(db.queue)) : Cardinality(Unsynced(i - 1)) < Batch}

StartSync ==
    /\ task.at = "idle"
    /\ task' = [Idle EXCEPT !.at = IF PendingSessions = {} THEN "record" ELSE "upload",
                            !.left = PendingSessions]
    /\ UNCHANGED <<db, undo, cap, server, history>>

\* What the rules give on the server's own report and loaded set.
ServerVerdict(pair) ==
    Reconcile(pair[1], pair[2], LinesIn(server.report), server.loaded,
              server.report # 0 /\ Versions[server.report].over)

\* Mutant: any answer takes a session off the queue.
Handle_AnyAnswer(i) ==
    /\ task.at = "upload" /\ i \in task.left /\ \A j \in task.left : i <= j
    /\ task' = [task EXCEPT !.left = @ \ {i}, !.synced = @ \union {db.queue[i].id}]
    /\ UNCHANGED <<db, undo, cap, server, history>>

\* Mutant: a session the server knows already is not taken off the queue.
Handle_NewOnly(i) ==
    LET s == db.queue[i].id
    IN  /\ task.at = "upload" /\ i \in task.left /\ \A j \in task.left : i <= j
        /\ task' = [task EXCEPT !.left = @ \ {i},
                        !.synced = IF s \in Refused \union server.stored THEN @ ELSE @ \union {s}]
        /\ server' = [server EXCEPT !.stored = @ \union ({s} \ Refused)]
        /\ UNCHANGED <<db, undo, cap, history>>

(***************************************************************************)
(* The server's turn for the next session of the request: rejected where   *)
(* the officer may not act, a duplicate if it is stored, else stored and   *)
(* judged.  A misread near a loaded line ends 'failed' (see SyncServer).   *)
(***************************************************************************)
Handle(i) ==
    LET s == db.queue[i].id
        v == ServerVerdict(db.queue[i].pair)
        new == s \notin Refused \union server.stored
        failed == new /\ v.outcome = "MATCH" /\ v.line \in server.loaded
    IN  /\ task.at = "upload" /\ i \in task.left /\ \A j \in task.left : i <= j
        /\ task' = [task EXCEPT !.left = @ \ {i},
                        !.synced = IF s \in Refused \/ failed THEN @ ELSE @ \union {s}]
        /\ server' = IF new
                     THEN [server EXCEPT !.stored = @ \union {s},
                               !.loaded = @ \union (IF v.outcome = "MATCH" THEN {v.line} ELSE {})]
                     ELSE server
        /\ UNCHANGED <<db, undo, cap, history>>

\* The answer arrives: markSynced for each session it accepts or knows.
Answered ==
    /\ task.at = "upload" /\ task.left = {}
    /\ task' = [task EXCEPT !.at = "record"]
    /\ UNCHANGED <<db, undo, cap, server, history>>

MarkSynced(s) ==
    /\ task.at = "record" /\ s \in task.synced
    /\ task' = [task EXCEPT !.synced = @ \ {s}]
    /\ db' = [db EXCEPT !.synced = @ \union {s}]
    /\ UNCHANGED <<undo, cap, server, history>>

\* No answer, however far the server came: every session is kept for the next run.
UploadLost ==
    /\ task.at = "upload"
    /\ task' = [Idle EXCEPT !.at = "record"]
    /\ UNCHANGED <<db, undo, cap, server, history>>

-----------------------------------------------------------------------------
(***************************************************************************)
(* The refresh half: fetchReport and saveReport.                           *)
(***************************************************************************)
FetchReport ==
    /\ task.at = "record" /\ task.synced = {}
    /\ server.report # 0
    /\ task' = [Idle EXCEPT !.at = "begin",
                    !.answer = [report |-> server.report, loaded |-> server.loaded]]
    /\ UNCHANGED <<db, undo, cap, server, history>>

\* No network, or no active report: the cache stays as it is.
NothingFetched ==
    /\ task.at = "record" /\ task.synced = {}
    /\ task' = Idle
    /\ UNCHANGED <<db, undo, cap, server, history>>

Step(from, to) == task.at = from /\ task' = [task EXCEPT !.at = to]

\* Mutant: the statements of a refresh run without a transaction.
Begin_Without ==
    /\ Step("begin", "deleteLines")
    /\ UNCHANGED <<db, undo, cap, server, history>>

Begin ==
    /\ Step("begin", "deleteLines")
    /\ undo' = db
    /\ UNCHANGED <<db, cap, server, history>>

DeleteLines ==
    /\ Step("deleteLines", "deleteReport")
    /\ db' = [db EXCEPT !.lines = NoLines]
    /\ UNCHANGED <<undo, cap, server, history>>

DeleteReport ==
    /\ Step("deleteReport", "deleteServed")
    /\ db' = [db EXCEPT !.report = 0]
    /\ UNCHANGED <<undo, cap, server, history>>

\* Mutant: all loaded VINs go, the phone's own too.
DeleteServed_All ==
    /\ Step("deleteServed", "insertReport")
    /\ db' = [db EXCEPT !.vins = [v \in Vins |-> "none"]]
    /\ UNCHANGED <<undo, cap, server, history>>

DeleteServed ==
    /\ Step("deleteServed", "insertReport")
    /\ db' = [db EXCEPT !.vins =
                 [v \in Vins |-> IF @[v] = "server" THEN "none" ELSE @[v]]]
    /\ UNCHANGED <<undo, cap, server, history>>

InsertReport ==
    /\ Step("insertReport", "insert")
    /\ db' = [db EXCEPT !.report = task.answer.report]
    /\ UNCHANGED <<undo, cap, server, history>>

LinesLeft == Listed(LinesIn(task.answer.report)) \ Listed(db.lines)

InsertLine(v) ==
    /\ task.at = "insert" /\ v \in LinesLeft
    /\ db' = [db EXCEPT !.lines[v] = LinesIn(task.answer.report)[v]]
    /\ UNCHANGED <<undo, cap, task, server, history>>

\* One INSERT OR REPLACE per VIN: one the phone marked itself becomes the server's.
InsertServed(v) ==
    /\ task.at = "insert" /\ LinesLeft = {}
    /\ v \in task.answer.loaded /\ db.vins[v] # "server"
    /\ db' = [db EXCEPT !.vins[v] = "server"]
    /\ UNCHANGED <<undo, cap, task, server, history>>

\* COMMIT; the drain that ends the run is in Evidence.
Commit ==
    /\ task.at = "insert" /\ LinesLeft = {}
    /\ \A v \in task.answer.loaded : db.vins[v] = "server"
    /\ undo' = None
    /\ cached' = task.answer
    /\ task' = Idle
    /\ UNCHANGED <<db, cap, server, shown, dropped, kills>>

-----------------------------------------------------------------------------
\* The app is killed: what it was doing is gone, an open transaction rolled back.
Killed ==
    /\ kills < MaxKills
    /\ cap.at # "none" \/ task.at # "idle"
    /\ kills' = kills + 1
    /\ cap' = Nothing
    /\ task' = Idle
    /\ db' = Committed
    /\ undo' = None
    /\ dropped' = dropped \union
           {<<s, "row">> : s \in {t \in Captures :
               /\ shown[t] # None
               /\ InQueue(db, t) /\ ~InQueue(Committed, t)}} \union
           {<<s, "mark">> : s \in {t \in Captures :
               /\ shown[t] # None /\ shown[t].line # None
               /\ shown[t].line \in Known(db) \ Known(Committed)}}
    /\ UNCHANGED <<server, shown, cached>>

(***************************************************************************)
(* Elsewhere: the report is given out or amended, which starts a loaded    *)
(* set of its own; another phone loads a listed car.                       *)
(***************************************************************************)
Amend ==
    /\ server.report < Len(Versions)
    /\ server' = [server EXCEPT !.report = @ + 1, !.loaded = {}]
    /\ UNCHANGED <<db, undo, cap, task, history>>

LoadedElsewhere(v) ==
    /\ v \in Listed(LinesIn(server.report)) \ server.loaded
    /\ server' = [server EXCEPT !.loaded = @ \union {v}]
    /\ UNCHANGED <<db, undo, cap, task, history>>

-----------------------------------------------------------------------------
HandleNext == \E i \in task.left : Handle(i)

Upload == HandleNext \/ Answered \/ \E s \in Captures : MarkSynced(s)

Save ==
    \/ Begin \/ DeleteLines \/ DeleteReport \/ DeleteServed \/ InsertReport
    \/ \E v \in Vins : InsertLine(v) \/ InsertServed(v)
    \/ Commit

Next ==
    \/ \E s \in Captures, pair \in Pairs : StartCapture(s, pair)
    \/ \E what \in Reads : Read(what)
    \/ EnqueueSession \/ ShowVerdict
    \/ StartSync \/ Upload \/ UploadLost
    \/ FetchReport \/ NothingFetched \/ Save
    \/ Killed \/ Amend \/ \E v \in Vins : LoadedElsewhere(v)

Spec == Init /\ [][Next]_vars

\* What a run does of its own accord; what the network decides is left out.
Proceeds ==
    \/ StartSync \/ \E s \in Captures : MarkSynced(s)
    \/ FetchReport \/ NothingFetched \/ Save

(***************************************************************************)
(* The timer starts a run every minute and the phone executes what it can: *)
(* a run is always at one step, and every fetch ends one way or the other. *)
(* An upload that is made again and again is at last answered.             *)
(***************************************************************************)
FairSpec == Spec /\ WF_vars(Proceeds) /\ SF_vars(HandleNext) /\ SF_vars(Answered)
-----------------------------------------------------------------------------
(***************************************************************************)
(* "Replace wholesale" (store.ts): whenever no refresh is being written,   *)
(* and whatever captures, refreshes and kills went before, the cache is    *)
(* one answer of the server entire: its lines, its report row, and no VIN  *)
(* marked as the server's that the answer does not name.  Nothing the      *)
(* answer calls loaded is missing.                                         *)
(***************************************************************************)
CacheIsOneAnswer ==
    undo = None =>
        IF cached = None
        THEN db.lines = NoLines /\ db.report = 0 /\ \A v \in Vins : db.vins[v] # "server"
        ELSE /\ db.report = cached.report
             /\ db.lines = LinesIn(cached.report)
             /\ {v \in Vins : db.vins[v] = "server"} \subseteq cached.loaded
             /\ cached.loaded \subseteq Known(db)

(***************************************************************************)
(* "Record the local MATCH immediately so a second scan of the same        *)
(* vehicle is caught before the queue has drained" (capture.ts): a car     *)
(* this phone passed stays in its loaded set as long as its session waits, *)
(* through every refresh, except in two cases: the mark was rolled back    *)
(* with a refresh the app was killed in, or the report was amended since.  *)
(***************************************************************************)
OwnMatchRemembered ==
    undo = None =>
        \A s \in Captures :
            shown[s] # None /\ Waiting(s) /\ shown[s].line # None =>
                \/ shown[s].line \in Known(db)
                \/ <<s, "mark">> \in dropped
                \/ db.report > shown[s].report

(***************************************************************************)
(* "A row survives app restarts and bad connections until the server       *)
(* acknowledges it" (store.ts): a session whose verdict was shown waits in *)
(* the queue until the server has stored it.  The one hole: its row fell   *)
(* into a refresh that a kill rolled back.                                 *)
(***************************************************************************)
NothingShownIsLost ==
    \A s \in Captures : shown[s] # None =>
        \/ Waiting(s)
        \/ s \in server.stored
        \/ <<s, "row">> \in dropped

(***************************************************************************)
(* "A partial cache is worse than none: it would produce confident         *)
(* VIN_NOT_IN_REPORT verdicts for vehicles that are on the report"         *)
(* (store.ts): with a cached report, a pair that every version lists is    *)
(* not called unknown.                                                     *)
(***************************************************************************)
AlwaysListed(pair) ==
    \A r \in 1..Len(Versions) : Versions[r].lines[pair[2]] = pair[1]

NoVerdictOnPartialCache ==
    cap.at = "queued" /\ cap.had /\ AlwaysListed(cap.pair) =>
        cap.verdict.outcome \notin {"VIN_NOT_IN_REPORT", "CONTAINER_NOT_IN_REPORT"}

(***************************************************************************)
(* Every session the server would take is at last sent, unless as many     *)
(* sessions as fit in one upload are refused for ever and wait before it.  *)
(***************************************************************************)
Crowded == Cardinality({r \in Refused : Waiting(r)}) >= Batch

TurnsCome == \A s \in Captures \ Refused : Waiting(s) ~> ~Waiting(s) \/ Crowded
=============================================================================
