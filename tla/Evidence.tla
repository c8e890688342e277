------------------------------ MODULE Evidence ------------------------------
(***************************************************************************)
(* A photograph's way from the phone to the evidence store.  The phone     *)
(* queues a capture's images and then its session (capture.ts, store.ts),  *)
(* uploads sessions and drains images in one background run (sync.ts,      *)
(* imageQueue.ts); the server declares an image when it accepts the        *)
(* session, issues upload URLs, and compares what was stored with the      *)
(* declared hash (evidence.ts).                                            *)
(*                                                                         *)
(* The network may drop any request before it arrives or lose its answer,  *)
(* the app and the server may die at any step, an upload URL may die at    *)
(* any time, and a transfer may be corrupted.  A call that throws ends the *)
(* run like one that finds no network.  Only runSync touches the queues,   *)
(* one run at a time.                                                      *)
(***************************************************************************)
EXTENDS Naturals, FiniteSets

CONSTANTS
    Sessions,      \* capture sessions of one phone
    Images,        \* photographs: a scan each, identified by the scan's id
    SessionOf,     \* the session an image belongs to
    None,
    MaxAttempts,   \* MAX_IMAGE_ATTEMPTS
    MaxDeaths      \* bound: app kills and server crashes together

States == {"awaiting_url", "ready", "verified", "failed"}
ImageRow == [state : States, url : {"none", "live", "dead"}, attempts : 0..MaxAttempts]
Replies == {"accepted", "duplicate", "failed", "rejected"}
Bytes == {"good", "bad"}

ASSUME EvidenceAssumption ==
    /\ SessionOf \in [Images -> Sessions]
    /\ MaxAttempts \in Nat \ {0}
    /\ MaxDeaths \in Nat
    /\ None \notin Images \union ImageRow \union Replies \union Bytes

VARIABLES
    queue,      \* phone: each session's place in queued_sessions
    images,     \* phone: queued_images, None where there is no row
    files,      \* phone: images whose local file exists
    task,       \* phone: the one background run
    sent,       \* sessions of the last upload request not yet reached
    reply,      \* what that request's answer will say of a session
    stored,     \* server: sessions with a row
    parked,     \* server: requests waiting for the verdict's e-mail
    declared,   \* server: images with an image_key
    verified,   \* server: images with image_verified = 1
    object,     \* server: what lies at the image's key in the store
    late,       \* server: finalize calls past their stat, caller gone
    deaths,     \* app kills and server crashes so far
    abandoned,  \* history: sessions stored by a request that did not finish
    overwritten,\* history: a corrupted transfer replaced bytes found intact
    purged      \* history: images whose file the phone's system deleted

phone == <<queue, images, files, task>>
server == <<stored, parked, declared, verified, object, late>>
wire == <<sent, reply>>
history == <<deaths, abandoned, overwritten, purged>>
vars == <<phone, server, wire, history>>

Idle == [at |-> "idle", left |-> {}, image |-> None, seen |-> None]

TypeOK ==
    /\ queue \in [Sessions -> {"absent", "capturing", "queued", "synced", "lost"}]
    /\ images \in [Images -> ImageRow \union {None}]
    /\ files \subseteq Images
    /\ task \in [at : {"idle", "upload", "drain", "refresh", "put", "finalize", "compare"},
                 left : SUBSET Images, image : Images \union {None},
                 seen : Bytes \union {None}]
    /\ sent \subseteq Sessions
    /\ reply \in [Sessions -> Replies \union {None}]
    /\ stored \subseteq Sessions
    /\ parked \in [Sessions -> {"no", "current", "old"}]
    /\ declared \subseteq Images /\ verified \subseteq declared
    /\ object \in [Images -> Bytes \union {None}]
    /\ late \subseteq Images
    /\ deaths \in 0..MaxDeaths
    /\ abandoned \subseteq Sessions
    /\ overwritten \subseteq Images /\ purged \subseteq Images

Init ==
    /\ queue = [s \in Sessions |-> "absent"]
    /\ images = [i \in Images |-> None]
    /\ files = {}
    /\ task = Idle
    /\ sent = {}
    /\ reply = [s \in Sessions |-> None]
    /\ stored = {}
    /\ parked = [s \in Sessions |-> "no"]
    /\ declared = {} /\ verified = {}
    /\ object = [i \in Images |-> None]
    /\ late = {}
    /\ deaths = 0
    /\ abandoned = {} /\ overwritten = {} /\ purged = {}

-----------------------------------------------------------------------------
(***************************************************************************)
(* Capture: the image rows are written before the session's row.           *)
(***************************************************************************)
ImagesOf(s) == {i \in Images : SessionOf[i] = s}
Queued(s) == {i \in ImagesOf(s) : images[i] # None}

\* Compressing or hashing a photograph may fail; the capture goes on.
EnqueueImages(s) ==
    /\ queue[s] = "absent"
    /\ queue' = [queue EXCEPT ![s] = "capturing"]
    /\ \E taken \in SUBSET ImagesOf(s) :
          /\ images' = [i \in Images |->
                           IF i \in taken
                           THEN [state |-> "awaiting_url", url |-> "none", attempts |-> 0]
                           ELSE images[i]]
          /\ files' = files \union taken
    /\ UNCHANGED <<task, server, wire, history>>

EnqueueSession(s) ==
    /\ queue[s] = "capturing"
    /\ queue' = [queue EXCEPT ![s] = "queued"]
    /\ UNCHANGED <<images, files, task, server, wire, history>>

-----------------------------------------------------------------------------
(***************************************************************************)
(* Uploading the queued sessions: runSync and POST /v1/sync/scans.         *)
(***************************************************************************)
\* getPendingImages.
Pending ==
    {i \in Images :
        /\ images[i] # None
        /\ images[i].state \in {"awaiting_url", "ready"}
        /\ images[i].attempts < MaxAttempts}

Drain(left) == [at |-> "drain", left |-> left, image |-> None, seen |-> None]

NoReply == [s \in Sessions |-> None]

StartSync ==
    /\ task.at = "idle"
    /\ task' = [Idle EXCEPT !.at = "upload"]
    /\ sent' = {s \in Sessions : queue[s] = "queued"}
    /\ reply' = NoReply
    /\ parked' = [s \in Sessions |-> IF parked[s] = "no" THEN "no" ELSE "old"]
    /\ UNCHANGED <<queue, images, files, stored, declared, verified, object, late, history>>

\* The request's loop is at await: it has not come to the next session.
Waiting == \E s \in Sessions : parked[s] = "current"

\* Answers reach the phone only while it waits for them.
Reply(s, status) ==
    reply' = IF task.at = "upload" THEN [reply EXCEPT ![s] = status] ELSE reply

(***************************************************************************)
(* One turn of the request's loop.  A session is refused where the officer *)
(* is not assigned; a new one is stored and then waits for its mail, or    *)
(* its reconciliation fails (see SyncServer).                              *)
(***************************************************************************)
Reached(s) ==
    /\ s \in sent /\ ~Waiting
    /\ sent' = sent \ {s}

ReceiveDuplicate(s) ==
    /\ Reached(s)
    /\ s \in stored
    /\ Reply(s, "duplicate")
    /\ UNCHANGED <<phone, server, history>>

ReceiveRejected(s) ==
    /\ Reached(s)
    /\ s \notin stored
    /\ Reply(s, "rejected")
    /\ UNCHANGED <<phone, server, history>>

ReceiveFailed(s) ==
    /\ Reached(s)
    /\ s \notin stored
    /\ stored' = stored \union {s}
    /\ abandoned' = abandoned \union {s}
    /\ Reply(s, "failed")
    /\ UNCHANGED <<phone, parked, declared, verified, object, late, deaths, overwritten,
                   purged>>

ReceiveNew(s) ==
    /\ Reached(s)
    /\ s \notin stored
    /\ stored' = stored \union {s}
    /\ parked' = [parked EXCEPT ![s] = "current"]
    /\ UNCHANGED <<phone, reply, declared, verified, object, late, history>>

\* The mail is out: presignScanImage for every image the session declares.
Declare(s) ==
    /\ parked[s] # "no"
    /\ parked' = [parked EXCEPT ![s] = "no"]
    /\ declared' = declared \union Queued(s)
    /\ IF parked[s] = "current" THEN Reply(s, "accepted") ELSE UNCHANGED reply
    /\ UNCHANGED <<phone, sent, stored, verified, object, late, history>>

Answered == task.at = "upload" /\ sent = {} /\ ~Waiting

AttachUploadUrl(i) ==
    IF images[i].state # "verified"
    THEN [state |-> "ready", url |-> "live", attempts |-> images[i].attempts]
    ELSE images[i]

\* Mutant: only 'accepted' takes a session off the queue.
Arrived_Accepted(status) == status = "accepted"

\* Mutant: any answer does.
Arrived_Any(status) == status # None

\* The answers that take a session off the queue.
Arrived(status) == status \in {"accepted", "duplicate"}

\* markSynced or markFailed, then attachUploadUrl for the URLs that came along.
RecordReply(s) ==
    /\ Answered
    /\ reply[s] # None
    /\ reply' = [reply EXCEPT ![s] = None]
    /\ queue' = [queue EXCEPT ![s] = IF Arrived(reply[s]) THEN "synced" ELSE @]
    /\ images' = [i \in Images |->
                     IF reply[s] = "accepted" /\ i \in Queued(s)
                     THEN AttachUploadUrl(i) ELSE images[i]]
    /\ UNCHANGED <<files, task, sent, server, history>>

StartDrain ==
    /\ Answered /\ reply = NoReply
    /\ task' = Drain(Pending)
    /\ UNCHANGED <<queue, images, files, server, wire, history>>

\* No answer: the request never arrived, or the server still works on it.
UploadLost ==
    /\ task.at = "upload"
    /\ sent # {} \/ Waiting \/ reply # NoReply
    /\ task' = Drain(Pending)
    /\ sent' \in {sent, {}}
    /\ reply' = NoReply
    /\ UNCHANGED <<queue, images, files, server, history>>

-----------------------------------------------------------------------------
(***************************************************************************)
(* Draining the image queue: drainImageQueue.                              *)
(***************************************************************************)
At(step, i) == task.at = step /\ task.image = i

NextImage(i) == task' = Drain(task.left \ {i})

\* Whether a URL still looks usable is the phone's clock's opinion.
Pick(i) ==
    /\ task.at = "drain"
    /\ i \in task.left
    /\ \E step \in (IF images[i].url = "none" THEN {"refresh"} ELSE {"refresh", "put"}) :
          task' = [at |-> step, left |-> task.left, image |-> i, seen |-> None]
    /\ UNCHANGED <<queue, images, files, server, wire, history>>

EndDrain ==
    /\ task.at = "drain" /\ task.left = {}
    /\ task' = Idle
    /\ UNCHANGED <<queue, images, files, server, wire, history>>

\* Mutant: a failed attempt is not counted.
AttemptFailed_Uncounted(row) ==
    [row EXCEPT !.state = IF row.attempts + 1 >= MaxAttempts THEN "failed" ELSE @]

\* markImageAttemptFailed.
AttemptFailed(row) ==
    [state |-> IF row.attempts + 1 >= MaxAttempts THEN "failed" ELSE row.state,
     url |-> row.url, attempts |-> row.attempts + 1]

\* markImageVerified, then the local file goes, if the delete succeeds.
Delivered(i) ==
    /\ images' = [images EXCEPT ![i] =
                     [state |-> "verified", url |-> images[i].url,
                      attempts |-> images[i].attempts]]
    /\ files' \in {files, files \ {i}}
    /\ NextImage(i)

\* refreshScanUploadUrl.
Refreshed(i) ==
    /\ At("refresh", i)
    /\ i \in declared \ verified
    /\ images' = [images EXCEPT ![i] = AttachUploadUrl(i)]
    /\ task' = [task EXCEPT !.at = "put"]
    /\ UNCHANGED <<queue, files, server, wire, history>>

\* 409: the server has it, the acknowledgement was lost.
AlreadyVerified(i) ==
    /\ At("refresh", i)
    /\ i \in verified
    /\ Delivered(i)
    /\ UNCHANGED <<queue, server, wire, history>>

\* 404: the session has not arrived, or arrived without its images.
UnknownScan(i) ==
    /\ At("refresh", i)
    /\ i \notin declared
    /\ images' = [images EXCEPT ![i] = AttemptFailed(@)]
    /\ NextImage(i)
    /\ UNCHANGED <<queue, files, server, wire, history>>

\* The bytes arrive, intact or not, under a URL the server still honours.
Stored(i, bytes) ==
    /\ At("put", i)
    /\ i \in files
    /\ images[i].url = "live"
    /\ object' = [object EXCEPT ![i] = bytes]
    /\ overwritten' = IF bytes = "bad" /\ i \in verified \union late
                      THEN overwritten \union {i} ELSE overwritten
    /\ UNCHANGED <<queue, images, files, stored, parked, declared, verified, late, wire,
                   deaths, abandoned, purged>>

Put(i) == Stored(i, "good") /\ task' = [task EXCEPT !.at = "finalize"]
PutCorrupted(i) == Stored(i, "bad") /\ task' = [task EXCEPT !.at = "finalize"]
PutUnanswered(i) == \E bytes \in Bytes : Stored(i, bytes) /\ task' = Idle

\* The local file is gone: the upload throws, which ends the run as if offline.
FileMissing(i) ==
    /\ At("put", i)
    /\ i \notin files
    /\ task' = Idle
    /\ UNCHANGED <<queue, images, files, server, wire, history>>

\* 403: the URL is dropped, the attempt counts.
PutForbidden(i) ==
    /\ At("put", i)
    /\ i \in files
    /\ images[i].url = "dead"
    /\ images' = [images EXCEPT ![i] =
                     AttemptFailed([state |-> "awaiting_url", url |-> "none",
                                    attempts |-> images[i].attempts])]
    /\ NextImage(i)
    /\ UNCHANGED <<queue, files, server, wire, history>>

\* finalizeScanImage up to its await: the store is asked what it holds.
Stat(i) ==
    /\ At("finalize", i)
    /\ task' = [at |-> "compare", left |-> task.left, image |-> i, seen |-> object[i]]
    /\ UNCHANGED <<queue, images, files, server, wire, history>>

\* Mutant: the declared hash is not compared with the stored one.
Finalized_Unchecked(i) ==
    /\ At("compare", i)
    /\ verified' = verified \union {i}
    /\ Delivered(i)
    /\ UNCHANGED <<queue, stored, parked, declared, object, late, wire, history>>

Finalized(i) ==
    /\ At("compare", i)
    /\ task.seen = "good"
    /\ verified' = verified \union {i}
    /\ Delivered(i)
    /\ UNCHANGED <<queue, stored, parked, declared, object, late, wire, history>>

\* 422 or 409: logged, image_verified stays as it was.
Mismatch(i) ==
    /\ At("compare", i)
    /\ task.seen # "good"
    /\ images' = [images EXCEPT ![i] = AttemptFailed(@)]
    /\ NextImage(i)
    /\ UNCHANGED <<queue, files, server, wire, history>>

\* Any other error status: a lapsed login, a proxy's 502.
Refused(i) ==
    /\ At("refresh", i) \/ At("put", i) \/ At("finalize", i)
    /\ images' = [images EXCEPT ![i] = AttemptFailed(@)]
    /\ NextImage(i)
    /\ UNCHANGED <<queue, files, server, wire, history>>

-----------------------------------------------------------------------------
(***************************************************************************)
(* Failures.                                                               *)
(***************************************************************************)
\* A finalize call whose caller is gone still commits what it saw.
Orphaned == IF task.at = "compare" /\ task.seen = "good" THEN {task.image} ELSE {}

\* No network: the run stops, no attempt is counted.
Offline ==
    /\ task.at \in {"refresh", "put", "finalize", "compare"}
    /\ task' = Idle
    /\ late' = late \union Orphaned
    /\ UNCHANGED <<queue, images, files, stored, parked, declared, verified, object, wire,
                   history>>

LateVerify(i) ==
    /\ i \in late
    /\ late' = late \ {i}
    /\ verified' = verified \union {i}
    /\ UNCHANGED <<phone, stored, parked, declared, object, wire, history>>

UrlDies(i) ==
    /\ images[i] # None /\ images[i].url = "live"
    /\ images' = [images EXCEPT ![i] =
                     [state |-> images[i].state, url |-> "dead",
                      attempts |-> images[i].attempts]]
    /\ UNCHANGED <<queue, files, task, server, wire, history>>

Death == deaths < MaxDeaths /\ deaths' = deaths + 1

\* The app is killed; a capture in progress loses its session, not its images.
AppKilled ==
    /\ Death
    /\ task # Idle \/ \E s \in Sessions : queue[s] = "capturing"
    /\ task' = Idle
    /\ queue' = [s \in Sessions |-> IF queue[s] = "capturing" THEN "lost" ELSE queue[s]]
    /\ late' = late \union Orphaned
    /\ sent' \in {sent, {}}
    /\ reply' = NoReply
    /\ UNCHANGED <<images, files, stored, parked, declared, verified, object, abandoned,
                   overwritten, purged>>

\* Requests being handled, and the connections they came on, are gone.
ServerCrash ==
    /\ Death
    /\ parked' = [s \in Sessions |-> "no"]
    /\ abandoned' = abandoned \union {s \in Sessions : parked[s] # "no"}
    /\ late' = {}
    /\ sent' = {}
    /\ reply' = NoReply
    /\ \/ task.at = "upload" /\ task' = Drain(Pending)
       \/ task.at \in {"finalize", "compare"} /\ task' = Idle
       \/ task.at \notin {"upload", "finalize", "compare"} /\ UNCHANGED task
    /\ UNCHANGED <<queue, images, files, stored, declared, verified, object, overwritten,
                   purged>>

\* The phone's system clears cached files (external to the code).
Purge(i) ==
    /\ i \in files
    /\ images[i].state # "verified"
    /\ files' = files \ {i}
    /\ purged' = purged \union {i}
    /\ UNCHANGED <<queue, images, task, server, wire, deaths, abandoned, overwritten>>

-----------------------------------------------------------------------------
\* The phone's and the server's own steps, which nothing outside holds up.
LocalSession(s) == EnqueueSession(s) \/ Declare(s) \/ ReceiveDuplicate(s)
LocalImage(i) == Pick(i) \/ FileMissing(i) \/ LateVerify(i)

\* The three round trips of an image, each coming to its regular answer.
RefreshAnswered(i) == Refreshed(i) \/ AlreadyVerified(i) \/ UnknownScan(i)
PutAnswered(i) == Put(i) \/ PutForbidden(i)
FinalizeAnswered(i) == Stat(i) \/ Finalized(i) \/ Mismatch(i)

Next ==
    \/ \E s \in Sessions :
          \/ EnqueueImages(s) \/ LocalSession(s)
          \/ ReceiveRejected(s) \/ ReceiveFailed(s) \/ ReceiveNew(s)
          \/ RecordReply(s)
    \/ StartSync \/ StartDrain \/ EndDrain
    \/ \E i \in Images :
          \/ LocalImage(i) \/ RefreshAnswered(i) \/ PutAnswered(i) \/ FinalizeAnswered(i)
          \/ PutCorrupted(i) \/ PutUnanswered(i) \/ Refused(i)
          \/ UrlDies(i) \/ Purge(i)
    \/ UploadLost \/ Offline \/ AppKilled \/ ServerCrash

Spec == Init /\ [][Next]_vars

(***************************************************************************)
(* The timer starts a run every minute and both programs execute what they *)
(* can.  A session's upload is not lost for ever.  The images' requests    *)
(* may fail for ever, but one tried again and again is at last answered    *)
(* (SF); and the officer is at last assigned where the capture was made.   *)
(***************************************************************************)
FairSpec ==
    /\ Spec
    /\ <>[][~UploadLost]_vars
    /\ WF_vars(StartSync) /\ SF_vars(StartDrain) /\ WF_vars(EndDrain)
    /\ \A s \in Sessions :
          /\ WF_vars(LocalSession(s))
          /\ SF_vars(ReceiveNew(s) \/ ReceiveDuplicate(s))
          /\ WF_vars(RecordReply(s)) /\ SF_vars(RecordReply(s) /\ Arrived(reply[s]))
    /\ \A i \in Images :
          /\ SF_vars(Pick(i)) /\ WF_vars(FileMissing(i)) /\ WF_vars(LateVerify(i))
          /\ SF_vars(RefreshAnswered(i)) /\ SF_vars(PutAnswered(i))
          /\ SF_vars(Stat(i)) /\ SF_vars(Finalized(i) \/ Mismatch(i))
-----------------------------------------------------------------------------
(***************************************************************************)
(* A photograph on the queue is on the phone, or intact in the store:      *)
(* through lost requests and answers, dead URLs, kills and crashes, and    *)
(* corrupted transfers too, unless one replaced bytes the server had       *)
(* already found intact (or the phone's own system cleared the file).      *)
(***************************************************************************)
EvidenceNotLost ==
    \A i \in Images : images[i] # None =>
        i \in files \union purged \union overwritten \/ object[i] = "good"

(***************************************************************************)
(* A session that has left the phone's queue has its images declared, or a *)
(* request is about to: otherwise no URL is ever issued for them.  Only a  *)
(* request that died between storing the session and declaring breaks it.  *)
(***************************************************************************)
SyncedMeansDeclared ==
    \A s \in Sessions : queue[s] = "synced" =>
        \/ Queued(s) \subseteq declared
        \/ parked[s] # "no"
        \/ s \in abandoned

(***************************************************************************)
(* Every queued session leaves the queue, whatever is lost and whoever     *)
(* crashes on the way.                                                     *)
(***************************************************************************)
SessionsArrive == \A s \in Sessions : queue[s] = "queued" ~> queue[s] = "synced"

(***************************************************************************)
(* Every queued image is delivered or runs out of attempts, unless the     *)
(* phone's system deleted a file: then its upload throws, which ends the   *)
(* run as if offline, costs no attempt, and holds up the images behind it. *)
(***************************************************************************)
Settled(i) ==
    /\ images[i] # None
    /\ images[i].state = "verified" \/ images[i].attempts = MaxAttempts

ImagesSettle ==
    \A i \in Images : images[i] # None ~> Settled(i) \/ purged # {}
=============================================================================
