------------------------------ MODULE OcrQueue ------------------------------
(***************************************************************************)
(* Text recognition of verified documents (documents.ts, ocr.ts,           *)
(* ocrWorker.ts).  A pass takes a snapshot of the open jobs and works      *)
(* through it one job at a time: claim, look for text that makes the call  *)
(* unnecessary, otherwise await the provider and write its outcome.        *)
(*                                                                         *)
(* Passes overlap: the interval timer starts one whether or not the last   *)
(* has ended, and POST /v1/admin/ocr/run starts another.  Between awaits a *)
(* pass runs alone: loop names the pass that holds the event loop.  Every  *)
(* statement commits by itself and the process may die after any of them.  *)
(*                                                                         *)
(* The provider is one that polls and reads the bucket (Textract).  Every  *)
(* document has a file of a recognisable type; its upload URL is taken to  *)
(* be alive throughout.  What text links a document to is left out:        *)
(* nothing here reads document_links.                                      *)
(***************************************************************************)
EXTENDS Naturals, FiniteSets

CONSTANTS
    Docs,            \* documents declared and uploaded
    Hashes,          \* file contents; text recognised in a file is its hash
    Uploads,         \* what the documents may declare, and have at their keys at first
    Passes,          \* worker passes that may be under way at once
    None,
    MaxOcrAttempts,  \* MAX_OCR_ATTEMPTS
    MaxOcrPolls,     \* MAX_OCR_POLLS
    Limit,           \* jobs a pass takes
    MaxJobs,         \* bound: rows of ocr_jobs
    MaxEvents        \* bound: later uploads, requeues and process deaths together

JobIds == 1..MaxJobs      \* in the order of queued_at
Texts == Hashes \union {"typed"}
OcrStates == {"queued", "pending", "done", "no_text", "failed"}
JobStates == {"queued", "running", "pending_provider", "done", "failed", "skipped"}
DocRow == [verified : BOOLEAN, text : Texts \union {None}, ocr : OcrStates \union {None}]
JobRow == [doc : Docs, state : JobStates, ref : Hashes \union {None},
           attempts : 0..MaxOcrPolls, forced : BOOLEAN]
PassRow == [at : {"idle", "next", "claimed", "asking"}, job : JobIds \union {None},
            seen : [JobIds -> JobRow \union {None}]]

ASSUME OcrAssumption ==
    /\ Uploads \subseteq [sha : [Docs -> Hashes], bytes : [Docs -> Hashes]]
    /\ MaxOcrAttempts \in Nat \ {0}
    /\ MaxOcrPolls \in Nat /\ MaxOcrAttempts <= MaxOcrPolls
    /\ Limit \in Nat /\ MaxJobs \in Nat /\ MaxEvents \in Nat
    /\ None \notin JobIds /\ None \notin Texts /\ None \notin JobRow
    /\ None \notin Passes /\ None \notin OcrStates

VARIABLES
    sha,       \* documents.file_sha256, as declared
    bytes,     \* the store: what lies at each document's key
    docs,      \* documents: verified, extracted_text, ocr_state
    jobs,      \* ocr_jobs, None where there is no row yet
    passes,    \* the passes: where each is, its claimed job and its snapshot
    loop,      \* the pass that holds the event loop, or None
    late,      \* documents that a finalize past its stat may still verify
    stale,     \* history: jobs a pass claimed that had changed since its snapshot
    stranded,  \* history: jobs that were running when the process died
    replaced,  \* history: documents verified while other bytes lay at their key
    events     \* later uploads, requeues and process deaths so far

store == <<sha, bytes, late, replaced>>
history == <<stale, stranded, events>>
vars == <<store, docs, jobs, passes, loop, history>>

IdlePass == [at |-> "idle", job |-> None, seen |-> [j \in JobIds |-> None]]

TypeOK ==
    /\ sha \in [Docs -> Hashes] /\ bytes \in [Docs -> Hashes]
    /\ docs \in [Docs -> DocRow]
    /\ jobs \in [JobIds -> JobRow \union {None}]
    /\ passes \in [Passes -> PassRow]
    /\ loop \in Passes \union {None}
    /\ late \subseteq Docs /\ replaced \subseteq Docs
    /\ stale \subseteq JobIds /\ stranded \subseteq JobIds
    /\ events \in 0..MaxEvents

\* A declaration may carry text an admin pasted.
Init ==
    /\ \E u \in Uploads : sha = u.sha /\ bytes = u.bytes
    /\ docs \in [Docs -> [verified : {FALSE}, text : {None, "typed"}, ocr : {None}]]
    /\ jobs = [j \in JobIds |-> None]
    /\ passes = [p \in Passes |-> IdlePass]
    /\ loop = None /\ late = {}
    /\ stale = {} /\ stranded = {} /\ replaced = {} /\ events = 0

-----------------------------------------------------------------------------
Happens == events < MaxEvents /\ events' = events + 1

\* The process dies, with the rows as jobs' has them, and starts again: no job
\* is picked up from 'running'.
Dies ==
    /\ Happens
    /\ passes' = [p \in Passes |-> IdlePass]
    /\ loop' = None /\ late' = {}
    /\ stranded' = stranded \union
           {j \in JobIds : jobs'[j] # None /\ jobs'[j].state = "running"}
    /\ UNCHANGED <<sha, bytes, stale>>

(***************************************************************************)
(* Uploads and requests.                                                   *)
(***************************************************************************)
Job(d, state, ref, attempts, forced) ==
    [doc |-> d, state |-> state, ref |-> ref, attempts |-> attempts, forced |-> forced]
Doc(verified, text, ocr) == [verified |-> verified, text |-> text, ocr |-> ocr]

Rows == {j \in JobIds : jobs[j] # None}

\* Mutant: a document with only a running job does not count as queued.
Open_NotRunning(d) == {j \in Rows : /\ jobs[j].doc = d
                                    /\ jobs[j].state \in {"queued", "pending_provider"}}

Open(d) == {j \in Rows : /\ jobs[j].doc = d
                         /\ jobs[j].state \in {"queued", "running", "pending_provider"}}

Insert(d, forced) ==
    \E j \in JobIds :
        /\ Rows = 1..(j - 1)
        /\ jobs' = [jobs EXCEPT ![j] = Job(d, "queued", None, 0, forced)]

\* A PUT with the document's upload URL replaces what lies at its key, also
\* after a finalize has compared it.  Nothing looks at the store while a pass
\* holds the loop.
Put(d, h) ==
    /\ loop = None
    /\ Happens
    /\ h # bytes[d]
    /\ bytes' = [bytes EXCEPT ![d] = h]
    /\ late' = IF bytes[d] = sha[d] THEN late \union {d} ELSE late
    /\ replaced' = IF docs[d].verified /\ h # sha[d] THEN replaced \union {d} ELSE replaced
    /\ UNCHANGED <<sha, docs, jobs, passes, loop, stale, stranded>>

\* Mutant: a document is verified whatever was stored.
Matches_Any(d) == TRUE

\* The stored bytes are the declared ones, or were when stat looked.
Matches(d) == bytes[d] = sha[d] \/ d \in late

Verifies(d) ==
    /\ loop = None
    /\ Matches(d)
    /\ replaced' = IF d \in late /\ bytes[d] # sha[d] THEN replaced \union {d} ELSE replaced

\* Recognition has a point, and none is under way.
Wanted(d) == docs[d].text = None /\ Open(d) = {}

\* The document is verified and, where wanted, queued.  A client may report
\* the same upload again.
FinalizeDocument(d) ==
    /\ Verifies(d)
    /\ IF Wanted(d)
       THEN /\ docs' = [docs EXCEPT ![d] = Doc(TRUE, docs[d].text, "queued")]
            /\ Insert(d, FALSE)
       ELSE /\ docs' = [docs EXCEPT ![d] = Doc(TRUE, docs[d].text, docs[d].ocr)]
            /\ UNCHANGED jobs
    /\ UNCHANGED <<sha, bytes, late, passes, loop, history>>

\* The process dies with the verdict written, and the job or not.
CrashInFinalize(d) ==
    /\ Verifies(d)
    /\ Wanted(d)
    /\ docs' = [docs EXCEPT ![d] = Doc(TRUE, docs[d].text, docs[d].ocr)]
    /\ UNCHANGED jobs \/ Insert(d, FALSE)
    /\ Dies

RequeueOcr(d) ==
    /\ loop = None
    /\ Happens
    /\ docs[d].verified
    /\ Insert(d, TRUE)
    /\ docs' = [docs EXCEPT ![d] = Doc(TRUE, docs[d].text, "queued")]
    /\ UNCHANGED <<store, passes, loop, stale, stranded>>

\* The process dies before the document's state follows.
CrashInRequeue(d) ==
    /\ loop = None
    /\ docs[d].verified
    /\ Insert(d, TRUE)
    /\ UNCHANGED <<docs, replaced>>
    /\ Dies

-----------------------------------------------------------------------------
(***************************************************************************)
(* A pass.                                                                 *)
(***************************************************************************)
\* Mutant: failed jobs with retries left are taken up again.
Eligible_Failed == {j \in Rows :
    \/ jobs[j].state \in {"queued", "failed"} /\ jobs[j].attempts < MaxOcrAttempts
    \/ jobs[j].state = "pending_provider" /\ jobs[j].attempts < MaxOcrPolls}

\* Mutant: a job that waits for the provider is never polled.
Eligible_Queued == {j \in Rows : jobs[j].state = "queued" /\ jobs[j].attempts < MaxOcrAttempts}

Eligible == {j \in Rows :
    \/ jobs[j].state = "queued" /\ jobs[j].attempts < MaxOcrAttempts
    \/ jobs[j].state = "pending_provider" /\ jobs[j].attempts < MaxOcrPolls}

Batch == {j \in Eligible : Cardinality({k \in Eligible : k < j}) < Limit}

Todo(p) == {j \in JobIds : passes[p].seen[j] # None}

StartPass(p) ==
    /\ loop = None
    /\ passes[p].at = "idle"
    /\ passes' = [passes EXCEPT ![p] =
           [at |-> "next", job |-> None,
            seen |-> [j \in JobIds |-> IF j \in Batch THEN jobs[j] ELSE None]]]
    /\ loop' = p
    /\ UNCHANGED <<store, docs, jobs, history>>

\* The claim writes the snapshot's count and does not look at the row.
Claim(p) ==
    /\ loop = p
    /\ passes[p].at = "next"
    /\ \E j \in Todo(p) :
          /\ \A k \in Todo(p) : j <= k
          /\ LET seen == passes[p].seen[j]
             IN  /\ jobs' = [jobs EXCEPT ![j] =
                        Job(seen.doc, "running", jobs[j].ref, seen.attempts + 1, seen.forced)]
                 /\ stale' = IF jobs[j] = seen THEN stale ELSE stale \union {j}
          /\ passes' = [passes EXCEPT ![p] =
                 [at |-> "claimed", job |-> j, seen |-> passes[p].seen]]
    /\ UNCHANGED <<store, docs, loop, stranded, events>>

\* An outcome is written as the document's text, the job's row and the
\* document's state, in this order; then the pass goes on.  The process may die
\* after each of the three.
Deaths == {"text", "row", "state"}

GoesOn(p) ==
    /\ passes' = [passes EXCEPT ![p] =
           [at |-> "next", job |-> None,
            seen |-> [passes[p].seen EXCEPT ![passes[p].job] = None]]]
    /\ loop' = p
    /\ UNCHANGED <<store, history>>

Settle(p, upto, state, ref, text, ocr) ==
    LET j == passes[p].job
        d == passes[p].seen[j].doc
    IN  /\ docs' = [docs EXCEPT ![d] =
               Doc(docs[d].verified, text,
                   IF upto \in {"text", "row"} THEN docs[d].ocr ELSE ocr)]
        /\ jobs' = IF upto = "text" THEN jobs
                   ELSE [jobs EXCEPT ![j] =
                            Job(d, state, ref, jobs[j].attempts, jobs[j].forced)]
        /\ IF upto = "all" THEN GoesOn(p) ELSE Dies /\ UNCHANGED replaced

Ref(p) == jobs[passes[p].job].ref
Text(p) == docs[passes[p].seen[passes[p].job].doc].text

\* Mutant: the text of any document is taken.
Reusable_Any(d) == {e \in Docs \ {d} : docs[e].text # None}

\* Documents whose recognised text can be taken for d's: the same bytes.
Reusable(d) == {e \in Docs \ {d} : sha[e] = sha[d] /\ docs[e].text # None}

\* applyText writes 'done' first.
Skip(p, upto) ==
    /\ loop = p /\ passes[p].at = "claimed"
    /\ Text(p) # None
    /\ Settle(p, upto, IF upto = "all" THEN "skipped" ELSE "done", Ref(p), Text(p), "done")

Reuse(p, upto) ==
    /\ loop = p /\ passes[p].at = "claimed"
    /\ Text(p) = None
    /\ \E e \in Reusable(passes[p].seen[passes[p].job].doc) :
          Settle(p, upto, "done", Ref(p), docs[e].text, "done")

Ask(p) ==
    /\ loop = p /\ passes[p].at = "claimed"
    /\ Text(p) = None
    /\ Reusable(passes[p].seen[passes[p].job].doc) = {}
    /\ passes' = [passes EXCEPT ![p] =
           [at |-> "asking", job |-> passes[p].job, seen |-> passes[p].seen]]
    /\ loop' = None
    /\ UNCHANGED <<store, docs, jobs, history>>

EndPass(p) ==
    /\ loop = p
    /\ passes[p].at = "next"
    /\ Todo(p) = {}
    /\ passes' = [passes EXCEPT ![p] = IdlePass]
    /\ loop' = None
    /\ UNCHANGED <<store, docs, jobs, history>>

-----------------------------------------------------------------------------
(***************************************************************************)
(* The provider's answer: a poll of the snapshot's handle when the         *)
(* snapshot was pending, a fresh recognition otherwise.                    *)
(***************************************************************************)
Answers(p) == loop = None /\ passes[p].at = "asking"
Polls(p) == passes[p].seen[passes[p].job].state = "pending_provider"
Read(p) == IF Polls(p) THEN passes[p].seen[passes[p].job].ref
                       ELSE bytes[passes[p].seen[passes[p].job].doc]

Pending(p, upto) ==
    Answers(p) /\ Settle(p, upto, "pending_provider", Read(p), Text(p), "pending")

\* Mutant: a refusal ends the job's turn without writing its row.
Unsupported_Unwritten(p, upto) ==
    Answers(p) /\ upto = "all" /\ GoesOn(p) /\ UNCHANGED <<docs, jobs>>

\* Unsupported, failed at the provider, or more than MAX_OCR_PAGES pages.
Unsupported(p, upto) == Answers(p) /\ Settle(p, upto, "failed", Ref(p), Text(p), "failed")

Blank(p, upto) == Answers(p) /\ Settle(p, upto, "done", Ref(p), Text(p), "no_text")

Recognised(p, upto) == Answers(p) /\ Settle(p, upto, "done", Ref(p), Read(p), "done")

\* A call that throws costs a retry, whatever the count was spent on.
Exhausted(p) == passes[p].seen[passes[p].job].attempts + 1 >= MaxOcrAttempts
Thrown(p, upto) ==
    /\ Answers(p)
    /\ LET to == IF Exhausted(p) THEN "failed" ELSE "queued"
       IN  Settle(p, upto, to, Ref(p), Text(p), to)

Answer(p, upto) ==
    \/ Pending(p, upto) \/ Unsupported(p, upto) \/ Blank(p, upto)
    \/ Recognised(p, upto) \/ Thrown(p, upto)

Crash == UNCHANGED <<docs, jobs, replaced>> /\ Dies

-----------------------------------------------------------------------------
Step(p) == Claim(p) \/ Skip(p, "all") \/ Reuse(p, "all") \/ Ask(p) \/ EndPass(p)

Next ==
    \/ \E d \in Docs : FinalizeDocument(d) \/ RequeueOcr(d)
    \/ \E d \in Docs, h \in Hashes : Put(d, h)
    \/ \E p \in Passes : StartPass(p) \/ Step(p) \/ Answer(p, "all")
    \/ Crash
    \/ \E d \in Docs : CrashInFinalize(d) \/ CrashInRequeue(d)
    \/ \E p \in Passes, upto \in Deaths : Skip(p, upto) \/ Reuse(p, upto) \/ Answer(p, upto)

Spec == Init /\ [][Next]_vars

\* What holds the event loop runs to its next await.  The provider answers
\* every call and the timer keeps firing; neither callback is overtaken for
\* ever by others that take the loop (strong fairness).
Fairness ==
    /\ SF_vars(\E p \in Passes : StartPass(p))
    /\ WF_vars(\E p \in Passes : Step(p))
    /\ \A p \in Passes : SF_vars(Answer(p, "all"))

FairSpec == Spec /\ Fairness

-----------------------------------------------------------------------------
(***************************************************************************)
(* Safety.                                                                 *)
(***************************************************************************)
Finished(j) == jobs[j] # None /\ jobs[j].state \in {"done", "failed", "skipped"}

\* A document's text was pasted with a declaration or read from bytes of the
\* declared hash, whichever document, pass or provider handle it came by
\* (findReusableText, provider_job_ref): finalizeDocument lets nothing else be
\* recognised.  Only an overwrite of bytes already compared brings in foreign
\* text, and from such a document it goes to those declared equal.
TextIsOwn ==
    \A d \in Docs :
        \/ docs[d].text \in {None, "typed", sha[d]}
        \/ \E e \in replaced : sha[e] = sha[d]

\* A job is in 'running' only while a pass is at work on it; only the death of
\* the process leaves one there, where no pass and no enqueueOcr picks it up.
StuckOnlyByCrash ==
    \A j \in Rows \ stranded :
        jobs[j].state = "running" => \E p \in Passes : passes[p].job = j

\* enqueueOcr's check keeps a document to one open job besides those a person
\* forced, unless a pass reopened an old one from its stale snapshot.
OneOpenJob ==
    \A j, k \in {r \in Rows \ stale : ~Finished(r) /\ ~jobs[r].forced} :
        jobs[j].doc = jobs[k].doc => j = k

\* A finished job is not taken up again, except by a pass that took its
\* snapshot before the job was finished.
FinishedStaysFinished ==
    [][\A j \in JobIds \ stale' : Finished(j) => Finished(j)']_vars

\* Every job that is claimed as it stood ends, is given up at the poll ceiling,
\* or is lost with the process: retries and polls are both counted.
GivenUp(j) ==
    /\ jobs[j] # None
    /\ jobs[j].state = "pending_provider" /\ jobs[j].attempts >= MaxOcrPolls
JobsSettle ==
    \A j \in JobIds :
        (jobs[j] # None) ~> (Finished(j) \/ GivenUp(j) \/ j \in stale \union stranded)
=============================================================================
