-------------------------- MODULE OcrQueue_proofs ---------------------------
(***************************************************************************)
(* Proofs about the recognition queue, for any documents, uploads, passes  *)
(* and budgets: text is a document's own, a job runs while a pass works on *)
(* it, and only an old snapshot opens a finished one again.                *)
(***************************************************************************)
EXTENDS OcrQueue, TLAPS

\* What may be read for a document: its declared bytes, or anything once a
\* document that declares the same has had its verified bytes overwritten.
Fits(d, h) == h = sha[d] \/ \E e \in replaced : sha[e] = sha[d]

\* A row's provider handle was given for its own document's bytes, and a
\* pending row has one.
OwnHandle(r) ==
    /\ r.ref # None => Fits(r.doc, r.ref)
    /\ r.state = "pending_provider" => r.ref # None

HandlesFit == \A j \in JobIds : jobs[j] # None => OwnHandle(jobs[j])

\* Only verified documents have jobs, and verified means compared.
VerifiedFit ==
    /\ \A d \in Docs : docs[d].verified => bytes[d] = sha[d] \/ d \in replaced
    /\ \A j \in JobIds : jobs[j] # None => docs[jobs[j].doc].verified

\* A snapshot is of a row there still is, taken when the row was eligible.
SnapshotsFit ==
    \A p \in Passes : \A j \in JobIds : passes[p].seen[j] # None =>
        /\ jobs[j] # None
        /\ passes[p].seen[j].doc = jobs[j].doc
        /\ passes[p].seen[j].attempts < MaxOcrPolls
        /\ OwnHandle(passes[p].seen[j])

\* A pass has a job exactly between its claim and its outcome.
ClaimsFit ==
    \A p \in Passes :
        IF passes[p].at \in {"claimed", "asking"}
        THEN passes[p].job \in JobIds /\ passes[p].seen[passes[p].job] # None
        ELSE passes[p].job = None

\* What outlives the process: the rows and the store.
RowsTyped ==
    /\ sha \in [Docs -> Hashes] /\ bytes \in [Docs -> Hashes]
    /\ docs \in [Docs -> DocRow]
    /\ jobs \in [JobIds -> JobRow \union {None}]
    /\ late \subseteq Docs /\ replaced \subseteq Docs
RowsFit == RowsTyped /\ HandlesFit /\ VerifiedFit /\ TextIsOwn

Consistent == TypeOK /\ RowsFit /\ SnapshotsFit /\ ClaimsFit /\ StuckOnlyByCrash

LEMMA InitConsistent == Init => Consistent
<1> SUFFICES ASSUME Init PROVE Consistent
    OBVIOUS
<1> USE OcrAssumption
<1>1. TypeOK
  <2>1. IdlePass \in PassRow
      BY DEF IdlePass, PassRow
  <2>2. docs \in [Docs -> DocRow]
      BY DEF Init, DocRow, Texts
  <2>3. sha \in [Docs -> Hashes] /\ bytes \in [Docs -> Hashes]
      BY DEF Init
  <2> QED BY <2>1, <2>2, <2>3 DEF Init, TypeOK
<1>2. HandlesFit /\ VerifiedFit /\ StuckOnlyByCrash
    BY DEF Init, HandlesFit, VerifiedFit, StuckOnlyByCrash, Rows
<1>3. SnapshotsFit /\ ClaimsFit
    BY DEF Init, SnapshotsFit, ClaimsFit, IdlePass
<1>4. TextIsOwn
    BY DEF Init, TextIsOwn
<1> QED BY <1>1, <1>2, <1>3, <1>4 DEF Consistent, RowsFit, RowsTyped, TypeOK

\* What is bounded is counted within its bound.
LEMMA EventsTyped ==
    ASSUME Consistent, Happens \/ UNCHANGED events
    PROVE  events' \in 0..MaxEvents
  BY OcrAssumption DEF Happens, Consistent, TypeOK

\* A death leaves rows that fit; nothing else outlives it.
LEMMA DeathConsistent ==
    ASSUME Consistent, Dies, RowsFit'
    PROVE  Consistent'
<1> USE OcrAssumption
<1>1. IdlePass \in PassRow
    BY DEF IdlePass, PassRow
<1>2. TypeOK'
    BY <1>1, EventsTyped DEF Dies, Consistent, TypeOK, RowsFit, RowsTyped
<1>3. SnapshotsFit' /\ ClaimsFit'
    BY DEF Dies, SnapshotsFit, ClaimsFit, IdlePass
<1>4. StuckOnlyByCrash'
    BY DEF Dies, StuckOnlyByCrash, Rows
<1> QED BY <1>2, <1>3, <1>4 DEF Consistent

-----------------------------------------------------------------------------
(***************************************************************************)
(* What the outcome of a claimed job leaves in the rows, whichever it is   *)
(* and however much of it is written.                                      *)
(***************************************************************************)
LEMMA SettleRows ==
    ASSUME Consistent, NEW p \in Passes, passes[p].at \in {"claimed", "asking"},
           NEW upto, NEW state \in JobStates \ {"running"},
           NEW ref \in Hashes \union {None},
           NEW text \in Texts \union {None}, NEW ocr \in OcrStates,
           NEW d \in Docs, d = passes[p].seen[passes[p].job].doc,
           ref # None => Fits(d, ref), state = "pending_provider" => ref # None,
           text \notin {None, "typed"} => Fits(d, text),
           Settle(p, upto, state, ref, text, ocr)
    PROVE  RowsFit'
<1> USE OcrAssumption
<1> DEFINE j == passes[p].job
           row == Job(d, state, ref, jobs[j].attempts, jobs[j].forced)
           mirror == IF upto \in {"text", "row"} THEN docs[d].ocr ELSE ocr
           doc == Doc(docs[d].verified, text, mirror)
<1>1. /\ j \in JobIds /\ jobs[j] \in JobRow /\ passes[p].seen[j] # None
      /\ jobs[j].doc = d /\ jobs[j] # None
    BY DEF Consistent, ClaimsFit, SnapshotsFit, TypeOK
<1>2. row \in JobRow /\ row # None /\ row.doc = d /\ row.state = state /\ row.ref = ref
    BY <1>1 DEF Job, JobRow
<1>3. doc \in DocRow /\ doc.verified = docs[d].verified /\ doc.text = text
    BY DEF Consistent, TypeOK, Doc, DocRow
<1>4. /\ jobs' \in {jobs, [jobs EXCEPT ![j] = row]}
      /\ docs' = [docs EXCEPT ![d] = doc]
      /\ sha' = sha /\ bytes' = bytes /\ replaced' = replaced
      /\ late' \subseteq late
    BY DEF Settle, GoesOn, Dies, store
<1> HIDE DEF row, doc
<1>5. RowsTyped'
    BY <1>1, <1>2, <1>3, <1>4 DEF Consistent, RowsFit, RowsTyped
<1>6. HandlesFit'
  <2> SUFFICES ASSUME NEW k \in JobIds, jobs'[k] # None PROVE OwnHandle(jobs[k])'
      BY DEF HandlesFit
  <2>1. CASE jobs'[k] = jobs[k]
      BY <1>4, <2>1 DEF Consistent, RowsFit, HandlesFit, OwnHandle, Fits
  <2>2. CASE k = j /\ jobs'[k] = row
      BY <1>2, <1>4, <2>2 DEF OwnHandle, Fits
  <2> QED BY <1>1, <1>4, <2>1, <2>2 DEF Consistent, TypeOK
<1>7. VerifiedFit'
  <2>1. \A e \in Docs : docs'[e].verified = docs[e].verified
      BY <1>3, <1>4 DEF Consistent, TypeOK
  <2>2. \A k \in JobIds : jobs'[k] # None =>
            jobs[k] # None /\ jobs'[k].doc = jobs[k].doc /\ jobs[k].doc \in Docs
      BY <1>1, <1>2, <1>4 DEF Consistent, TypeOK, JobRow
  <2> QED BY <1>4, <2>1, <2>2 DEF Consistent, RowsFit, VerifiedFit
<1>8. TextIsOwn'
    BY <1>3, <1>4 DEF Consistent, TypeOK, RowsFit, TextIsOwn, Fits
<1> QED BY <1>5, <1>6, <1>7, <1>8 DEF RowsFit

LEMMA SettleConsistent ==
    ASSUME Consistent, NEW p \in Passes, passes[p].at \in {"claimed", "asking"},
           NEW upto, NEW state \in JobStates \ {"running"},
           NEW ref \in Hashes \union {None},
           NEW text \in Texts \union {None}, NEW ocr \in OcrStates,
           NEW d \in Docs, d = passes[p].seen[passes[p].job].doc,
           ref # None => Fits(d, ref), state = "pending_provider" => ref # None,
           text \notin {None, "typed"} => Fits(d, text),
           Settle(p, upto, state, ref, text, ocr)
    PROVE  Consistent'
<1> USE OcrAssumption
<1> DEFINE j == passes[p].job
           row == Job(d, state, ref, jobs[j].attempts, jobs[j].forced)
           pass == [at |-> "next", job |-> None, seen |-> [passes[p].seen EXCEPT ![j] = None]]
<1>0. RowsFit'
    BY SettleRows
<1>a. CASE upto # "all"
  <2>1. Dies
      BY <1>a DEF Settle
  <2> QED BY <1>0, <2>1, DeathConsistent
<1>b. CASE upto = "all"
  <2>1. /\ j \in JobIds /\ jobs[j] \in JobRow /\ passes[p].seen[j] # None
        /\ jobs[j].doc = d /\ jobs[j] # None
      BY DEF Consistent, ClaimsFit, SnapshotsFit, TypeOK
  <2>2. row \in JobRow /\ row # None /\ row.doc = d /\ row.state = state
      BY <2>1 DEF Job, JobRow
  <2>3. pass \in PassRow
      BY <2>1 DEF Consistent, TypeOK, PassRow
  <2>4. /\ jobs' = [jobs EXCEPT ![j] = row]
        /\ passes' = [passes EXCEPT ![p] = pass]
        /\ loop' = p /\ sha' = sha /\ replaced' = replaced
        /\ stale' = stale /\ stranded' = stranded /\ events' = events
      BY <1>b DEF Settle, GoesOn, store, history
  <2> HIDE DEF row, pass
  <2>5. TypeOK'
      BY <1>0, <2>3, <2>4 DEF Consistent, TypeOK, RowsFit, RowsTyped
  <2>7. SnapshotsFit'
    <3> SUFFICES ASSUME NEW q \in Passes, NEW k \in JobIds, passes'[q].seen[k] # None
                 PROVE  /\ jobs'[k] # None
                        /\ passes'[q].seen[k].doc = jobs'[k].doc
                        /\ passes'[q].seen[k].attempts < MaxOcrPolls
                        /\ OwnHandle(passes[q].seen[k])'
        BY DEF SnapshotsFit
    <3>1. passes'[q].seen[k] = passes[q].seen[k]
        BY <2>1, <2>4 DEF pass, Consistent, TypeOK, PassRow
    <3>2. OwnHandle(passes[q].seen[k])'
        BY <3>1, <2>4 DEF Consistent, SnapshotsFit, OwnHandle, Fits
    <3> QED BY <2>1, <2>2, <2>4, <3>1, <3>2 DEF Consistent, TypeOK, SnapshotsFit
  <2>8. ClaimsFit'
      BY <2>4 DEF pass, Consistent, TypeOK, ClaimsFit
  <2>10. StuckOnlyByCrash'
    <3> SUFFICES ASSUME NEW k \in JobIds, jobs'[k] # None, k \notin stranded,
                        jobs'[k].state = "running"
                 PROVE  \E q \in Passes : passes'[q].job = k
        BY <2>4 DEF StuckOnlyByCrash, Rows
    <3>1. k # j
        BY <2>1, <2>2, <2>4 DEF Consistent, TypeOK
    <3>2. jobs'[k] = jobs[k]
        BY <3>1, <2>4
    <3>3. PICK q \in Passes : passes[q].job = k
        BY <3>2 DEF Consistent, StuckOnlyByCrash, Rows
    <3> QED BY <3>1, <3>3, <2>4 DEF Consistent, TypeOK
  <2> QED BY <1>0, <2>5, <2>7, <2>8, <2>10 DEF Consistent
<1> QED BY <1>a, <1>b

-----------------------------------------------------------------------------
(***************************************************************************)
(* Requests.                                                               *)
(***************************************************************************)
\* A request for document d leaves every text and verdict, with d verified.
Keeps(d) ==
    /\ docs' \in [Docs -> DocRow]
    /\ \A e \in Docs : docs'[e].text = docs[e].text /\ (docs[e].verified => docs'[e].verified)
    /\ \A e \in Docs : docs'[e].verified => bytes[e] = sha[e] \/ e \in replaced'
    /\ docs'[d].verified
    /\ replaced \subseteq replaced' /\ replaced' \subseteq Docs
    /\ UNCHANGED <<sha, bytes>> /\ late' \subseteq late

LEMMA VerdictKeeps ==
    ASSUME Consistent, NEW d \in Docs, Verifies(d), NEW ocr \in OcrStates \union {None},
           docs' = [docs EXCEPT ![d] = Doc(TRUE, docs[d].text, ocr)],
           UNCHANGED <<sha, bytes>>, late' \subseteq late
    PROVE  Keeps(d)
<1>1. Doc(TRUE, docs[d].text, ocr) \in DocRow
    BY DEF Consistent, TypeOK, Doc, DocRow
<1>2. /\ docs'[d].verified /\ docs'[d].text = docs[d].text
      /\ \A e \in Docs \ {d} : docs'[e] = docs[e]
    BY DEF Consistent, TypeOK, Doc
<1>3. /\ replaced \subseteq replaced' /\ replaced' \subseteq Docs
      /\ bytes[d] = sha[d] \/ d \in replaced'
    BY DEF Verifies, Matches, Consistent, TypeOK
<1> QED BY <1>1, <1>2, <1>3 DEF Keeps, Consistent, TypeOK, RowsFit, VerifiedFit

LEMMA RequeueKeeps ==
    ASSUME Consistent, NEW d \in Docs, docs[d].verified, NEW ocr \in OcrStates \union {None},
           \/ docs' = [docs EXCEPT ![d] = Doc(TRUE, docs[d].text, ocr)]
           \/ UNCHANGED docs,
           UNCHANGED <<sha, bytes, replaced>>, late' \subseteq late
    PROVE  Keeps(d)
<1>1. Doc(TRUE, docs[d].text, ocr) \in DocRow
    BY DEF Consistent, TypeOK, Doc, DocRow
<1>2. /\ docs' \in [Docs -> DocRow]
      /\ \A e \in Docs : docs'[e].text = docs[e].text
      /\ \A e \in Docs : docs'[e].verified <=> docs[e].verified
  <2>1. CASE docs' = [docs EXCEPT ![d] = Doc(TRUE, docs[d].text, ocr)]
    <3>1. /\ docs'[d].verified /\ docs'[d].text = docs[d].text
          /\ \A e \in Docs \ {d} : docs'[e] = docs[e]
        BY <2>1 DEF Consistent, TypeOK, Doc
    <3> QED BY <1>1, <2>1, <3>1 DEF Consistent, TypeOK
  <2>2. CASE UNCHANGED docs
      BY <2>2 DEF Consistent, TypeOK
  <2> QED BY <2>1, <2>2
<1> QED BY <1>2 DEF Keeps, Consistent, TypeOK, RowsFit, VerifiedFit

\* A job is added where there was none.
LEMMA InsertFacts ==
    ASSUME Consistent, NEW d \in Docs, NEW forced \in BOOLEAN, Insert(d, forced)
    PROVE  \E j \in JobIds :
             /\ jobs[j] = None
             /\ jobs'[j] \in JobRow /\ jobs'[j] # None /\ jobs'[j].doc = d
             /\ jobs'[j].ref = None /\ jobs'[j].state = "queued" /\ jobs'[j].forced = forced
             /\ jobs' = [jobs EXCEPT ![j] = jobs'[j]]
<1> USE OcrAssumption
<1>1. PICK j \in JobIds : /\ Rows = 1..(j - 1)
                          /\ jobs' = [jobs EXCEPT ![j] = Job(d, "queued", None, 0, forced)]
    BY DEF Insert
<1>2. jobs[j] = None
    BY <1>1 DEF JobIds, Rows
<1> DEFINE row == Job(d, "queued", None, 0, forced)
<1>3. /\ row \in JobRow /\ row # None /\ row.doc = d
      /\ row.ref = None /\ row.state = "queued" /\ row.forced = forced
    BY DEF Job, JobRow, JobStates
<1>4. jobs' = [jobs EXCEPT ![j] = row]
    BY <1>1
<1> HIDE DEF row
<1>5. jobs'[j] = row
    BY <1>4 DEF Consistent, TypeOK
<1> QED BY <1>2, <1>3, <1>4, <1>5

LEMMA RequestRows ==
    ASSUME Consistent, NEW d \in Docs, NEW forced \in BOOLEAN, Keeps(d),
           UNCHANGED jobs \/ Insert(d, forced)
    PROVE  /\ RowsFit'
           /\ SnapshotsFit' \/ passes' # passes
           /\ StuckOnlyByCrash' \/ passes' # passes \/ stranded' # stranded
<1> USE OcrAssumption
<1>1. /\ jobs' \in [JobIds -> JobRow \union {None}]
      /\ \A k \in JobIds : jobs'[k] # None =>
           \/ jobs'[k] = jobs[k]
           \/ jobs'[k].doc = d /\ jobs'[k].ref = None /\ jobs'[k].state = "queued"
      /\ \A k \in JobIds : jobs[k] # None => jobs'[k] = jobs[k]
  <2>1. CASE UNCHANGED jobs
      BY <2>1 DEF Consistent, TypeOK
  <2>2. CASE Insert(d, forced)
      BY <2>2, InsertFacts DEF Consistent, TypeOK
  <2> QED BY <2>1, <2>2
<1>2. RowsTyped'
    BY <1>1 DEF Keeps, Consistent, RowsFit, RowsTyped
<1>3. HandlesFit'
    BY <1>1 DEF Keeps, Consistent, RowsFit, HandlesFit, OwnHandle, Fits
<1>4. VerifiedFit'
    BY <1>1 DEF Keeps, Consistent, TypeOK, JobRow, RowsFit, VerifiedFit
<1>5. TextIsOwn'
    BY DEF Keeps, Consistent, RowsFit, TextIsOwn
<1>6. SnapshotsFit' \/ passes' # passes
    BY <1>1 DEF Keeps, Consistent, SnapshotsFit, OwnHandle, Fits
<1>7. StuckOnlyByCrash' \/ passes' # passes \/ stranded' # stranded
    BY <1>1 DEF Consistent, StuckOnlyByCrash, Rows
<1> QED BY <1>2, <1>3, <1>4, <1>5, <1>6, <1>7 DEF RowsFit

\* Requests that are served.
LEMMA RequestConsistent ==
    ASSUME Consistent, NEW d \in Docs, NEW forced \in BOOLEAN, Keeps(d),
           UNCHANGED jobs \/ Insert(d, forced), Happens \/ UNCHANGED events,
           UNCHANGED <<passes, loop, stale, stranded>>
    PROVE  Consistent'
<1>1. RowsFit' /\ SnapshotsFit' /\ StuckOnlyByCrash'
    BY RequestRows
<1>2. TypeOK'
    BY <1>1, EventsTyped DEF Consistent, TypeOK, RowsFit, RowsTyped
<1>3. ClaimsFit'
    BY DEF Consistent, ClaimsFit
<1> QED BY <1>1, <1>2, <1>3 DEF Consistent

-----------------------------------------------------------------------------
\* Pass p writes an outcome of the job it claimed, or as much as upto says of
\* it: a handle, if any, and a text pasted or read, that fit the document.
Settles(p, upto) ==
    LET d == passes[p].seen[passes[p].job].doc
    IN  /\ passes[p].at \in {"claimed", "asking"}
        /\ \E state \in JobStates \ {"running"}, ref \in Hashes \union {None},
              text \in Texts \union {None}, ocr \in OcrStates :
              /\ ref # None => Fits(d, ref)
              /\ state = "pending_provider" => ref # None
              /\ text \notin {None, "typed"} => Fits(d, text)
              /\ Settle(p, upto, state, ref, text, ocr)

\* What a pass finds of the job it claimed.
LEMMA ClaimedFacts ==
    ASSUME Consistent, NEW p \in Passes, passes[p].at \in {"claimed", "asking"}
    PROVE  /\ passes[p].job \in JobIds
           /\ passes[p].seen[passes[p].job].doc \in Docs
           /\ passes[p].seen[passes[p].job].doc = jobs[passes[p].job].doc
           /\ jobs[passes[p].job] # None /\ jobs[passes[p].job] \in JobRow
           /\ Ref(p) \in Hashes \union {None}
           /\ Ref(p) # None => Fits(passes[p].seen[passes[p].job].doc, Ref(p))
           /\ Text(p) \in Texts \union {None}
           /\ Text(p) \notin {None, "typed"} => Fits(passes[p].seen[passes[p].job].doc, Text(p))
           /\ Read(p) \in Hashes
           /\ Fits(passes[p].seen[passes[p].job].doc, Read(p))
<1> USE OcrAssumption
<1>1. passes[p].job \in JobIds /\ passes[p].seen[passes[p].job] # None
    BY DEF Consistent, ClaimsFit
<1>2. /\ passes[p].seen[passes[p].job] \in JobRow
      /\ OwnHandle(passes[p].seen[passes[p].job])
      /\ jobs[passes[p].job] # None /\ jobs[passes[p].job] \in JobRow
      /\ passes[p].seen[passes[p].job].doc = jobs[passes[p].job].doc
      /\ OwnHandle(jobs[passes[p].job])
    BY <1>1 DEF Consistent, TypeOK, PassRow, SnapshotsFit, RowsFit, HandlesFit
<1>3. passes[p].seen[passes[p].job].doc \in Docs
    BY <1>2 DEF JobRow
<1>4. Fits(passes[p].seen[passes[p].job].doc, bytes[passes[p].seen[passes[p].job].doc])
    BY <1>1, <1>2, <1>3 DEF Consistent, RowsFit, VerifiedFit, Fits
<1>5. Read(p) \in Hashes /\ Fits(passes[p].seen[passes[p].job].doc, Read(p))
  <2>1. CASE Polls(p)
      BY <1>2, <2>1 DEF Polls, Read, OwnHandle, JobRow
  <2>2. CASE ~Polls(p)
      BY <1>3, <1>4, <2>2 DEF Read, Consistent, TypeOK
  <2> QED BY <2>1, <2>2
<1>6. /\ Text(p) \in Texts \union {None}
      /\ Text(p) \notin {None, "typed"} => Fits(passes[p].seen[passes[p].job].doc, Text(p))
    BY <1>3 DEF Text, Consistent, TypeOK, DocRow, RowsFit, TextIsOwn, Fits
<1>7. /\ Ref(p) \in Hashes \union {None}
      /\ Ref(p) # None => Fits(passes[p].seen[passes[p].job].doc, Ref(p))
    BY <1>2 DEF Ref, OwnHandle, JobRow
<1> QED BY <1>1, <1>2, <1>3, <1>5, <1>6, <1>7

\* Skipping, reusing and every answer of the provider write such an outcome.
LEMMA OutcomesSettle ==
    ASSUME Consistent, NEW p \in Passes, NEW upto, Skip(p, upto) \/ Reuse(p, upto) \/ Answer(p, upto)
    PROVE  Settles(p, upto)
<1> DEFINE d == passes[p].seen[passes[p].job].doc
<1>0. OcrAssumption
    BY OcrAssumption
<1>1. CASE Skip(p, upto)
  <2>1. /\ passes[p].at \in {"claimed", "asking"}
        /\ \/ Settle(p, upto, "skipped", Ref(p), Text(p), "done")
           \/ Settle(p, upto, "done", Ref(p), Text(p), "done")
      BY <1>1 DEF Skip
  <2>2. /\ Ref(p) \in Hashes \union {None} /\ (Ref(p) # None => Fits(d, Ref(p)))
        /\ Text(p) \in Texts \union {None}
        /\ (Text(p) \notin {None, "typed"} => Fits(d, Text(p)))
      BY <2>1, ClaimedFacts
  <2> QED BY <2>1, <2>2 DEF Settles, JobStates, OcrStates
<1>2. CASE Reuse(p, upto)
  <2>1. PICK e \in Reusable(d) : Settle(p, upto, "done", Ref(p), docs[e].text, "done")
      BY <1>2 DEF Reuse
  <2>0. passes[p].at \in {"claimed", "asking"}
      BY <1>2 DEF Reuse
  <2>2. /\ docs[e].text \in Texts \union {None}
        /\ docs[e].text \notin {None, "typed"} => Fits(d, docs[e].text)
    <3>1. e \in Docs /\ sha[e] = sha[d]
        BY <2>1 DEF Reusable
    <3> QED BY <3>1 DEF Consistent, TypeOK, DocRow, RowsFit, TextIsOwn, Fits
  <2>3. Ref(p) \in Hashes \union {None} /\ (Ref(p) # None => Fits(d, Ref(p)))
      BY <2>0, ClaimedFacts
  <2> QED BY <2>0, <2>1, <2>2, <2>3 DEF Settles, JobStates, OcrStates
<1>3. CASE Answer(p, upto)
  <2>1. /\ passes[p].at \in {"claimed", "asking"}
        /\ \/ Settle(p, upto, "pending_provider", Read(p), Text(p), "pending")
           \/ Settle(p, upto, "failed", Ref(p), Text(p), "failed")
           \/ Settle(p, upto, "done", Ref(p), Text(p), "no_text")
           \/ Settle(p, upto, "done", Ref(p), Read(p), "done")
           \/ Settle(p, upto, "queued", Ref(p), Text(p), "queued")
      BY <1>3 DEF Answer, Answers, Pending, Unsupported, Blank, Recognised, Thrown
  <2>2. /\ Ref(p) \in Hashes \union {None} /\ (Ref(p) # None => Fits(d, Ref(p)))
        /\ Text(p) \in Texts \union {None}
        /\ (Text(p) \notin {None, "typed"} => Fits(d, Text(p)))
        /\ Read(p) \in Hashes /\ Fits(d, Read(p))
      BY <2>1, ClaimedFacts
  <2>3. Read(p) # None /\ Read(p) \in Texts
      BY <1>0, <2>2 DEF OcrAssumption, Texts
  <2> HIDE DEF d
  <2> QED BY <2>1, <2>2, <2>3 DEF Settles, JobStates, OcrStates, d
<1> QED BY <1>1, <1>2, <1>3

LEMMA StepConsistent == Consistent /\ [Next]_vars => Consistent'
<1> SUFFICES ASSUME Consistent, [Next]_vars PROVE Consistent'
    OBVIOUS
<1> USE OcrAssumption
<1>1. ASSUME NEW d \in Docs, FinalizeDocument(d) PROVE Consistent'
  <2>1. PICK ocr \in OcrStates \union {None} :
            docs' = [docs EXCEPT ![d] = Doc(TRUE, docs[d].text, ocr)]
      BY <1>1 DEF FinalizeDocument, OcrStates, Consistent, TypeOK, DocRow
  <2>2. Keeps(d)
      BY <1>1, <2>1, VerdictKeeps DEF FinalizeDocument
  <2> QED BY <1>1, <2>2, RequestConsistent DEF FinalizeDocument, history
<1>2. ASSUME NEW d \in Docs, RequeueOcr(d) PROVE Consistent'
  <2>1. Keeps(d)
      BY <1>2, RequeueKeeps DEF RequeueOcr, OcrStates, store
  <2> QED BY <1>2, <2>1, RequestConsistent DEF RequeueOcr
<1>a. ASSUME NEW d \in Docs, CrashInFinalize(d) PROVE Consistent'
  <2>1. docs[d].ocr \in OcrStates \union {None}
      BY DEF Consistent, TypeOK, DocRow
  <2>2. Keeps(d)
      BY <1>a, <2>1, VerdictKeeps DEF CrashInFinalize, Dies
  <2>3. RowsFit'
      BY <1>a, <2>2, RequestRows DEF CrashInFinalize
  <2> QED BY <1>a, <2>3, DeathConsistent DEF CrashInFinalize
<1>b. ASSUME NEW d \in Docs, CrashInRequeue(d) PROVE Consistent'
  <2>1. Keeps(d)
      BY <1>b, RequeueKeeps DEF CrashInRequeue, Dies, OcrStates
  <2>2. RowsFit'
      BY <1>b, <2>1, RequestRows DEF CrashInRequeue
  <2> QED BY <1>b, <2>2, DeathConsistent DEF CrashInRequeue
<1>c. ASSUME NEW d \in Docs, NEW h \in Hashes, Put(d, h) PROVE Consistent'
  <2>1. /\ bytes' = [bytes EXCEPT ![d] = h]
        /\ late' \subseteq Docs
        /\ replaced \subseteq replaced' /\ replaced' \subseteq Docs
        /\ docs[d].verified /\ h # sha[d] => d \in replaced'
        /\ UNCHANGED <<sha, docs, jobs, passes, loop, stale, stranded>>
        /\ Happens
      BY <1>c DEF Put, Consistent, TypeOK
  <2>2. RowsTyped'
      BY <2>1 DEF Consistent, RowsFit, RowsTyped
  <2>3. HandlesFit'
      BY <2>1 DEF Consistent, RowsFit, HandlesFit, OwnHandle, Fits
  <2>4. VerifiedFit'
      BY <2>1 DEF Consistent, TypeOK, RowsFit, VerifiedFit
  <2>5. TextIsOwn'
      BY <2>1 DEF Consistent, RowsFit, TextIsOwn
  <2>6. SnapshotsFit' /\ ClaimsFit' /\ StuckOnlyByCrash'
      BY <2>1 DEF Consistent, SnapshotsFit, OwnHandle, Fits, ClaimsFit, StuckOnlyByCrash, Rows
  <2>7. TypeOK'
      BY <2>1, <2>2, EventsTyped DEF Consistent, TypeOK, RowsTyped
  <2> QED BY <2>2, <2>3, <2>4, <2>5, <2>6, <2>7 DEF Consistent, RowsFit
<1>3. ASSUME NEW p \in Passes, StartPass(p) PROVE Consistent'
  <2> DEFINE seen == [j \in JobIds |-> IF j \in Batch THEN jobs[j] ELSE None]
             pass == [at |-> "next", job |-> None, seen |-> seen]
  <2>1. seen \in [JobIds -> JobRow \union {None}]
      BY DEF Consistent, TypeOK
  <2>2. \A j \in JobIds : seen[j] # None =>
            seen[j] = jobs[j] /\ jobs[j] # None /\ jobs[j].attempts < MaxOcrPolls
      BY DEF Batch, Eligible, Rows, Consistent, TypeOK, JobRow
  <2> HIDE DEF seen
  <2>3. pass \in PassRow /\ pass.at = "next" /\ pass.job = None /\ pass.seen = seen
      BY <2>1 DEF PassRow
  <2>4. passes' = [passes EXCEPT ![p] = pass] /\ loop' = p
        /\ UNCHANGED <<store, docs, jobs, history>>
      BY <1>3 DEF StartPass, seen
  <2> HIDE DEF pass
  <2>5. RowsFit'
      BY <2>4 DEF store, Consistent, RowsFit, RowsTyped, HandlesFit, VerifiedFit, TextIsOwn,
                  OwnHandle, Fits
  <2>a. TypeOK'
      BY <2>3, <2>4 DEF Consistent, TypeOK, store, history
  <2>6. SnapshotsFit'
      BY <2>2, <2>3, <2>4 DEF store, Consistent, TypeOK, SnapshotsFit, RowsFit, HandlesFit,
                              OwnHandle, Fits
  <2>7. ClaimsFit'
      BY <2>3, <2>4 DEF Consistent, TypeOK, ClaimsFit
  <2>8. StuckOnlyByCrash'
      BY <1>3, <2>3, <2>4 DEF StartPass, Consistent, TypeOK, ClaimsFit, StuckOnlyByCrash, Rows, history
  <2> QED BY <2>5, <2>a, <2>6, <2>7, <2>8 DEF Consistent
<1>4. ASSUME NEW p \in Passes, Claim(p) PROVE Consistent'
  <2> DEFINE Row(j) == Job(passes[p].seen[j].doc, "running", jobs[j].ref,
                           passes[p].seen[j].attempts + 1, passes[p].seen[j].forced)
             Pass(j) == [at |-> "claimed", job |-> j, seen |-> passes[p].seen]
  <2>1. PICK j \in Todo(p) : /\ jobs' = [jobs EXCEPT ![j] = Row(j)]
                             /\ stale' \in {stale, stale \union {j}}
                             /\ passes' = [passes EXCEPT ![p] = Pass(j)]
      BY <1>4 DEF Claim
  <2>2. /\ j \in JobIds /\ passes[p].seen[j] # None /\ passes[p].seen[j] \in JobRow
        /\ jobs[j] # None /\ jobs[j] \in JobRow /\ passes[p].seen[j].doc = jobs[j].doc
        /\ passes[p].seen[j].attempts < MaxOcrPolls
      BY DEF Todo, Consistent, TypeOK, PassRow, SnapshotsFit
  <2>3. /\ Row(j) \in JobRow /\ Row(j) # None /\ Row(j).doc = jobs[j].doc
        /\ Row(j).ref = jobs[j].ref /\ Row(j).state = "running"
      BY <2>2 DEF Job, JobRow, JobStates
  <2>4. Pass(j) \in PassRow /\ Pass(j).at = "claimed" /\ Pass(j).job = j
        /\ Pass(j).seen = passes[p].seen
      BY <2>2 DEF Consistent, TypeOK, PassRow
  <2> HIDE DEF Row, Pass
  <2>a. UNCHANGED <<sha, bytes, late, replaced, docs, loop, stranded, events>>
      BY <1>4 DEF Claim, store
  <2>5. TypeOK'
      BY <2>a, <2>1, <2>2, <2>3, <2>4 DEF Consistent, TypeOK
  <2>6. RowsFit'
    <3>1. RowsTyped' /\ TextIsOwn'
        BY <2>5, <2>a DEF TypeOK, RowsTyped, Consistent, RowsFit, TextIsOwn
    <3>2. HandlesFit'
        BY <2>a, <2>1, <2>2, <2>3 DEF Consistent, TypeOK, RowsFit, HandlesFit, OwnHandle, Fits
    <3>3. VerifiedFit'
        BY <2>a, <2>1, <2>2, <2>3 DEF Consistent, TypeOK, RowsFit, VerifiedFit
    <3> QED BY <3>1, <3>2, <3>3 DEF RowsFit
  <2>7. SnapshotsFit'
      BY <2>a, <2>1, <2>2, <2>3, <2>4 DEF Consistent, TypeOK, SnapshotsFit, OwnHandle, Fits
  <2>8. ClaimsFit'
      BY <2>1, <2>2, <2>4 DEF Consistent, TypeOK, ClaimsFit
  <2>9. StuckOnlyByCrash'
      BY <1>4, <2>a, <2>1, <2>2, <2>3, <2>4 DEF Claim, Consistent, TypeOK, ClaimsFit, StuckOnlyByCrash, Rows
  <2> QED BY <2>5, <2>6, <2>7, <2>8, <2>9 DEF Consistent
<1>5. ASSUME NEW p \in Passes, NEW upto, Settles(p, upto) PROVE Consistent'
  <2> DEFINE d == passes[p].seen[passes[p].job].doc
  <2>1. PICK state \in JobStates \ {"running"}, ref \in Hashes \union {None},
              text \in Texts \union {None}, ocr \in OcrStates :
              /\ ref # None => Fits(d, ref)
              /\ state = "pending_provider" => ref # None
              /\ text \notin {None, "typed"} => Fits(d, text)
              /\ Settle(p, upto, state, ref, text, ocr)
      BY <1>5 DEF Settles
  <2>2. passes[p].at \in {"claimed", "asking"} /\ d \in Docs
      BY <1>5, ClaimedFacts DEF Settles
  <2> QED BY <2>1, <2>2, SettleConsistent
<1>6. ASSUME NEW p \in Passes, Ask(p) \/ EndPass(p) PROVE Consistent'
  <2>1. passes'[p] \in PassRow /\ passes'[p].job = passes[p].job
        /\ (passes'[p].seen = passes[p].seen \/ passes'[p].seen = [j \in JobIds |-> None])
        /\ ClaimsFit'
    <3>1. CASE Ask(p)
        BY <3>1 DEF Ask, Consistent, TypeOK, PassRow, ClaimsFit
    <3>2. CASE EndPass(p)
        BY <3>2 DEF EndPass, IdlePass, Consistent, TypeOK, PassRow, ClaimsFit
    <3> QED BY <1>6, <3>1, <3>2
  <2>2. /\ passes' = [passes EXCEPT ![p] = passes'[p]]
        /\ loop' = None /\ UNCHANGED <<store, docs, jobs, history>>
      BY <1>6 DEF Ask, EndPass, Consistent, TypeOK
  <2>3. RowsFit'
      BY <2>2 DEF store, Consistent, RowsFit, RowsTyped, HandlesFit, VerifiedFit, TextIsOwn,
                  OwnHandle, Fits
  <2>a. TypeOK'
      BY <2>1, <2>2 DEF Consistent, TypeOK, store, history
  <2>4. SnapshotsFit'
      BY <2>1, <2>2 DEF store, Consistent, TypeOK, SnapshotsFit, OwnHandle, Fits
  <2>5. StuckOnlyByCrash'
      BY <2>1, <2>2 DEF Consistent, TypeOK, StuckOnlyByCrash, Rows, history
  <2> QED BY <2>1, <2>3, <2>a, <2>4, <2>5 DEF Consistent
<1>7. ASSUME Crash PROVE Consistent'
  <2>1. RowsFit'
      BY <1>7 DEF Crash, Dies, Consistent, RowsFit, RowsTyped, HandlesFit, VerifiedFit, TextIsOwn,
                  OwnHandle, Fits
  <2> QED BY <1>7, <2>1, DeathConsistent DEF Crash
<1>8. ASSUME UNCHANGED vars PROVE Consistent'
    BY <1>8 DEF vars, store, history, Consistent, TypeOK, RowsFit, RowsTyped, HandlesFit, VerifiedFit,
       SnapshotsFit, ClaimsFit, TextIsOwn, StuckOnlyByCrash, OwnHandle, Fits, Rows
<1>9. ASSUME NEW p \in Passes, NEW upto, Skip(p, upto) \/ Reuse(p, upto) \/ Answer(p, upto)
      PROVE  Consistent'
    BY <1>5, <1>9, OutcomesSettle
<1> QED
    BY <1>1, <1>2, <1>a, <1>b, <1>c, <1>3, <1>4, <1>6, <1>7, <1>8, <1>9 DEF Next, Step

LEMMA AlwaysConsistent == Spec => []Consistent
  BY InitConsistent, StepConsistent, PTL DEF Spec

\* Type correctness; no job is claimed beyond the poll ceiling.
THEOREM TypeCorrect == Spec => []TypeOK
<1>1. Consistent => TypeOK
    BY DEF Consistent
<1> QED BY <1>1, AlwaysConsistent, PTL

\* However passes overlap, snapshots age and files coincide, a document's text
\* is pasted or read from bytes of its declared hash, but for what comes from
\* verified bytes that were overwritten (finalizeDocument, findReusableText, poll).
THEOREM TextStaysOwn == Spec => []TextIsOwn
<1>1. Consistent => TextIsOwn
    BY DEF Consistent, RowsFit
<1> QED BY <1>1, AlwaysConsistent, PTL

\* A job left in 'running' with no pass at work on it was left there by the
\* death of the process (setJobState on every path of runOcrWorker).
THEOREM RunningHasPass == Spec => []StuckOnlyByCrash
<1>1. Consistent => StuckOnlyByCrash
    BY DEF Consistent
<1> QED BY <1>1, AlwaysConsistent, PTL

-----------------------------------------------------------------------------
(***************************************************************************)
(* Jobs that were claimed as they stood.                                   *)
(*                                                                         *)
(* The claim does not look at the row, so a job may be finished and opened *)
(* again by a pass with an old snapshot; those are the stale ones.  What   *)
(* holds of the others is that a pass claims an open job, alone, and that  *)
(* the job is running until that pass writes its outcome.                  *)
(***************************************************************************)
Works(p, j) == passes[p].at \in {"claimed", "asking"} /\ passes[p].job = j

SnapshotsOpen ==
    \A p \in Passes : \A j \in Todo(p) :
        passes[p].seen[j].state \in {"queued", "pending_provider"}

ClaimedRuns ==
    \A p \in Passes : \A j \in JobIds \ stale : Works(p, j) => jobs[j].state = "running"

OneWorker ==
    \A p, q \in Passes : \A j \in JobIds \ stale : Works(p, j) /\ Works(q, j) => p = q

Exclusive == SnapshotsOpen /\ ClaimedRuns /\ OneWorker

\* What claiming and settling do to the row of the pass's job.
LEMMA ClaimFacts ==
    ASSUME Consistent, SnapshotsOpen, NEW p \in Passes, Claim(p)
    PROVE  \E j \in JobIds :
             /\ jobs[j] # None /\ jobs'[j] # None
             /\ jobs'[j].state = "running"
             /\ \A k \in JobIds \ {j} : jobs'[k] = jobs[k]
             /\ j \notin stale' =>
                  /\ jobs[j].state \in {"queued", "pending_provider"}
                  /\ jobs'[j].doc = jobs[j].doc /\ jobs'[j].forced = jobs[j].forced
             /\ stale \subseteq stale' /\ stale' \subseteq stale \union {j}
             /\ passes'[p].at = "claimed" /\ passes'[p].job = j
             /\ passes'[p].seen = passes[p].seen
             /\ \A q \in Passes \ {p} : passes'[q] = passes[q]
<1> DEFINE Row(j) == Job(passes[p].seen[j].doc, "running", jobs[j].ref,
                         passes[p].seen[j].attempts + 1, passes[p].seen[j].forced)
<1>1. PICK j \in Todo(p) :
          /\ jobs' = [jobs EXCEPT ![j] = Row(j)]
          /\ stale' = IF jobs[j] = passes[p].seen[j] THEN stale ELSE stale \union {j}
          /\ passes' = [passes EXCEPT ![p] =
                 [at |-> "claimed", job |-> j, seen |-> passes[p].seen]]
    BY DEF Claim
<1>2. /\ j \in JobIds /\ passes[p].seen[j] # None /\ passes[p].seen[j] \in JobRow
      /\ jobs[j] # None /\ jobs[j] \in JobRow
      /\ passes[p].seen[j].attempts < MaxOcrPolls
      /\ passes[p].seen[j].state \in {"queued", "pending_provider"}
    BY DEF Todo, Consistent, TypeOK, PassRow, SnapshotsFit, SnapshotsOpen
<1>3. /\ Row(j) \in JobRow /\ Row(j).state = "running"
      /\ Row(j).doc = passes[p].seen[j].doc /\ Row(j).forced = passes[p].seen[j].forced
    BY <1>2, OcrAssumption DEF Job, JobRow, JobStates
<1> HIDE DEF Row
<1>4. /\ jobs'[j] = Row(j) /\ \A k \in JobIds \ {j} : jobs'[k] = jobs[k]
      /\ passes'[p].at = "claimed" /\ passes'[p].job = j /\ passes'[p].seen = passes[p].seen
      /\ \A q \in Passes \ {p} : passes'[q] = passes[q]
    BY <1>1, <1>2 DEF Consistent, TypeOK
<1>5. j \notin stale' => jobs[j] = passes[p].seen[j]
    BY <1>1
<1>6. stale \subseteq stale' /\ stale' \subseteq stale \union {j}
    BY <1>1
<1> QED BY <1>2, <1>3, <1>4, <1>5, <1>6, OcrAssumption

LEMMA SettlesFacts ==
    ASSUME Consistent, NEW p \in Passes, NEW upto, Settles(p, upto)
    PROVE  \E j \in JobIds :
             /\ Works(p, j) /\ jobs[j] # None /\ jobs'[j] # None
             /\ jobs'[j].doc = jobs[j].doc /\ jobs'[j].forced = jobs[j].forced
             /\ \A k \in JobIds \ {j} : jobs'[k] = jobs[k]
             /\ stale' = stale
             /\ \/ passes' = [q \in Passes |-> IdlePass]
                \/ /\ passes'[p].at = "next"
                   /\ \A k \in JobIds : passes'[p].seen[k] \in {passes[p].seen[k], None}
                   /\ \A q \in Passes \ {p} : passes'[q] = passes[q]
<1> DEFINE j == passes[p].job
           d == passes[p].seen[j].doc
           pass == [at |-> "next", job |-> None, seen |-> [passes[p].seen EXCEPT ![j] = None]]
<1>1. PICK state \in JobStates, ref \in Hashes \union {None},
           text \in Texts \union {None}, ocr \in OcrStates :
           Settle(p, upto, state, ref, text, ocr)
    BY DEF Settles
<1> DEFINE row == Job(d, state, ref, jobs[j].attempts, jobs[j].forced)
<1>2. /\ passes[p].at \in {"claimed", "asking"}
      /\ j \in JobIds /\ d \in Docs /\ d = jobs[j].doc
      /\ jobs[j] # None /\ jobs[j] \in JobRow
    BY ClaimedFacts DEF Settles
<1>3. row \in JobRow /\ row.doc = d /\ row.forced = jobs[j].forced
    BY <1>2 DEF Job, JobRow
<1>4. /\ jobs' \in {jobs, [jobs EXCEPT ![j] = row]}
      /\ passes' = [passes EXCEPT ![p] = pass] \/ passes' = [q \in Passes |-> IdlePass]
      /\ stale' = stale
    BY <1>1 DEF Settle, GoesOn, Dies, history
<1> HIDE DEF row
<1>5. /\ pass.at = "next"
      /\ \A k \in JobIds : pass.seen[k] \in {passes[p].seen[k], None}
    BY DEF Consistent, TypeOK, PassRow
<1> HIDE DEF pass
<1>6. jobs'[j] \in {jobs[j], row} /\ \A k \in JobIds \ {j} : jobs'[k] = jobs[k]
    BY <1>2, <1>4 DEF Consistent, TypeOK
<1>7. CASE passes' = [passes EXCEPT ![p] = pass]
  <2>1. passes'[p] = pass /\ \A q \in Passes \ {p} : passes'[q] = passes[q]
    BY <1>7 DEF Consistent, TypeOK
  <2> QED BY <1>2, <1>3, <1>4, <1>5, <1>6, <2>1, OcrAssumption DEF Works
<1>8. CASE passes' = [q \in Passes |-> IdlePass]
  BY <1>2, <1>3, <1>4, <1>6, <1>8, OcrAssumption DEF Works
<1> QED BY <1>4, <1>7, <1>8

LEMMA ExclusiveInvariant == Spec => []Exclusive
<1>1. Init => Exclusive
    BY DEF Init, IdlePass, Exclusive, SnapshotsOpen, ClaimedRuns, OneWorker, Works, Todo
<1>2. ASSUME Consistent, Exclusive, [Next]_vars PROVE Exclusive'
  <2> USE DEF Exclusive
  <2>1. ASSUME NEW d \in Docs, NEW forced \in BOOLEAN, Insert(d, forced),
               UNCHANGED <<passes, stale>>
        PROVE  Exclusive'
    <3>1. PICK j \in JobIds : j \notin Rows /\ \A k \in JobIds \ {j} : jobs'[k] = jobs[k]
        BY <1>2, <2>1 DEF Insert, JobIds, Consistent, TypeOK
    <3>2. \A p \in Passes : \A k \in JobIds : Works(p, k) => jobs'[k] = jobs[k]
        BY <1>2, <3>1, ClaimedFacts DEF Works, Rows
    <3> QED BY <1>2, <2>1, <3>2 DEF SnapshotsOpen, ClaimedRuns, OneWorker, Works, Todo
  <2>2. ASSUME UNCHANGED <<jobs, passes, stale>> PROVE Exclusive'
    BY <1>2, <2>2 DEF SnapshotsOpen, ClaimedRuns, OneWorker, Works, Todo
  <2>a. ASSUME passes' = [p \in Passes |-> IdlePass], stale' = stale PROVE Exclusive'
    BY <2>a DEF IdlePass, SnapshotsOpen, ClaimedRuns, OneWorker, Works, Todo
  <2>3. ASSUME NEW d \in Docs, FinalizeDocument(d) \/ RequeueOcr(d) PROVE Exclusive'
    BY <2>1, <2>2, <2>3 DEF FinalizeDocument, RequeueOcr, history
  <2>b. ASSUME NEW d \in Docs, NEW h \in Hashes, Put(d, h) PROVE Exclusive'
    BY <2>2, <2>b DEF Put
  <2>4. ASSUME NEW p \in Passes, StartPass(p) PROVE Exclusive'
    <3>1. /\ UNCHANGED <<jobs, stale>>
          /\ passes'[p].at = "next"
          /\ \A j \in JobIds : passes'[p].seen[j] # None =>
                passes'[p].seen[j].state \in {"queued", "pending_provider"}
          /\ \A q \in Passes \ {p} : passes'[q] = passes[q]
        BY <1>2, <2>4 DEF StartPass, Batch, Eligible, history, Consistent, TypeOK
    <3> QED BY <1>2, <3>1 DEF SnapshotsOpen, ClaimedRuns, OneWorker, Works, Todo
  <2>5. ASSUME NEW p \in Passes, Claim(p) PROVE Exclusive'
    <3>1. PICK j \in JobIds :
             /\ jobs[j] # None /\ jobs'[j] # None
             /\ jobs'[j].state = "running"
             /\ \A k \in JobIds \ {j} : jobs'[k] = jobs[k]
             /\ j \notin stale' => jobs[j].state \in {"queued", "pending_provider"}
             /\ stale \subseteq stale' /\ stale' \subseteq stale \union {j}
             /\ passes'[p].at = "claimed" /\ passes'[p].job = j
             /\ passes'[p].seen = passes[p].seen
             /\ \A q \in Passes \ {p} : passes'[q] = passes[q]
        BY <1>2, <2>5, ClaimFacts
    <3>2. ASSUME NEW q \in Passes \ {p}, j \notin stale' PROVE ~Works(q, j)
        BY <1>2, <3>1, <3>2 DEF ClaimedRuns
    <3> QED BY <1>2, <3>1, <3>2 DEF SnapshotsOpen, ClaimedRuns, OneWorker, Works, Todo
  <2>6. ASSUME NEW p \in Passes, NEW upto, Settles(p, upto) PROVE Exclusive'
    <3>1. PICK j \in JobIds :
             /\ Works(p, j)
             /\ \A k \in JobIds \ {j} : jobs'[k] = jobs[k]
             /\ stale' = stale
             /\ \/ passes' = [q \in Passes |-> IdlePass]
                \/ /\ passes'[p].at = "next"
                   /\ \A k \in JobIds : passes'[p].seen[k] \in {passes[p].seen[k], None}
                   /\ \A q \in Passes \ {p} : passes'[q] = passes[q]
        BY <1>2, <2>6, SettlesFacts
    <3>2. \A q \in Passes \ {p} : j \notin stale => ~Works(q, j)
        BY <1>2, <3>1 DEF OneWorker
    <3>3. CASE passes' = [q \in Passes |-> IdlePass]
        BY <2>a, <3>1, <3>3
    <3>4. CASE /\ passes'[p].at = "next"
               /\ \A k \in JobIds : passes'[p].seen[k] \in {passes[p].seen[k], None}
               /\ \A q \in Passes \ {p} : passes'[q] = passes[q]
        BY <1>2, <3>1, <3>2, <3>4 DEF SnapshotsOpen, ClaimedRuns, OneWorker, Works, Todo
    <3> QED BY <3>1, <3>3, <3>4
  <2>7. ASSUME NEW p \in Passes, Ask(p) PROVE Exclusive'
    <3>1. /\ UNCHANGED <<jobs, stale>>
          /\ passes[p].at = "claimed" /\ passes'[p].at = "asking"
          /\ passes'[p].job = passes[p].job /\ passes'[p].seen = passes[p].seen
          /\ \A q \in Passes \ {p} : passes'[q] = passes[q]
        BY <1>2, <2>7 DEF Ask, history, Consistent, TypeOK
    <3> QED BY <1>2, <3>1 DEF SnapshotsOpen, ClaimedRuns, OneWorker, Works, Todo
  <2>8. ASSUME NEW p \in Passes, EndPass(p) PROVE Exclusive'
    <3>1. /\ UNCHANGED <<jobs, stale>>
          /\ passes'[p] = IdlePass
          /\ \A q \in Passes \ {p} : passes'[q] = passes[q]
        BY <1>2, <2>8 DEF EndPass, history, Consistent, TypeOK
    <3> QED BY <1>2, <3>1 DEF IdlePass, SnapshotsOpen, ClaimedRuns, OneWorker, Works, Todo
  <2>9. ASSUME Dies PROVE Exclusive'
    BY <2>9, <2>a DEF Dies
  <2>10. ASSUME UNCHANGED vars PROVE Exclusive'
    BY <2>2, <2>10 DEF vars, history
  <2>11. ASSUME NEW p \in Passes, NEW upto,
                Skip(p, upto) \/ Reuse(p, upto) \/ Answer(p, upto)
         PROVE  Exclusive'
    BY <1>2, <2>6, <2>11, OutcomesSettle
  <2> QED
    BY <1>2, <2>3, <2>b, <2>4, <2>5, <2>7, <2>8, <2>9, <2>10, <2>11
       DEF Next, Step, Crash, CrashInFinalize, CrashInRequeue
<1> QED BY <1>1, <1>2, AlwaysConsistent, PTL DEF Spec

\* What a step does to the rows: it adds one, which is forced or its document's
\* only open one, or it keeps every finished row and the document and the kind
\* of every other, but for the stale ones.
LEMMA JobsKept ==
    ASSUME Consistent, Exclusive, [Next]_vars
    PROVE  /\ stale \subseteq stale'
           /\ \/ \E j \in JobIds, d \in Docs :
                   /\ jobs[j] = None
                   /\ jobs'[j].doc = d /\ (jobs'[j].forced \/ Open(d) = {})
                   /\ \A k \in JobIds \ {j} : jobs'[k] = jobs[k]
              \/ \A k \in JobIds \ stale' :
                   /\ jobs[k] = None <=> jobs'[k] = None
                   /\ jobs[k] # None =>
                        /\ jobs'[k].doc = jobs[k].doc /\ jobs'[k].forced = jobs[k].forced
                        /\ Finished(k) => jobs'[k] = jobs[k]
<1> DEFINE Adds == \E j \in JobIds, d \in Docs :
                      /\ jobs[j] = None
                      /\ jobs'[j].doc = d /\ (jobs'[j].forced \/ Open(d) = {})
                      /\ \A k \in JobIds \ {j} : jobs'[k] = jobs[k]
           Stays == \A k \in JobIds \ stale' :
                      /\ jobs[k] = None <=> jobs'[k] = None
                      /\ jobs[k] # None =>
                           /\ jobs'[k].doc = jobs[k].doc /\ jobs'[k].forced = jobs[k].forced
                           /\ Finished(k) => jobs'[k] = jobs[k]
           Goal == stale \subseteq stale' /\ (Adds \/ Stays)
<1>1. ASSUME NEW d \in Docs, NEW forced \in BOOLEAN, Insert(d, forced),
             forced \/ Open(d) = {}, UNCHANGED stale
      PROVE  Goal
  <2>1. PICK j \in JobIds : /\ Rows = 1..(j - 1)
                            /\ jobs' = [jobs EXCEPT ![j] = Job(d, "queued", None, 0, forced)]
      BY <1>1 DEF Insert
  <2>2. jobs[j] = None
      BY <2>1 DEF JobIds, Rows
  <2>3. /\ jobs'[j] = Job(d, "queued", None, 0, forced)
        /\ \A k \in JobIds \ {j} : jobs'[k] = jobs[k]
      BY <2>1 DEF Consistent, TypeOK
  <2>4. jobs'[j].doc = d /\ jobs'[j].forced = forced
      BY <2>3 DEF Job
  <2> QED BY <1>1, <2>2, <2>3, <2>4
<1>2. ASSUME UNCHANGED <<jobs, stale>> PROVE Goal
    BY <1>2
<1>3. ASSUME NEW d \in Docs, FinalizeDocument(d) \/ RequeueOcr(d) PROVE Goal
    BY <1>1, <1>2, <1>3 DEF FinalizeDocument, RequeueOcr, Wanted, history
<1>a. ASSUME NEW d \in Docs, CrashInFinalize(d) \/ CrashInRequeue(d) PROVE Goal
    BY <1>1, <1>2, <1>a DEF CrashInFinalize, CrashInRequeue, Wanted, Dies
<1>4. ASSUME NEW p \in Passes, Claim(p) PROVE Goal
  <2>1. PICK j \in JobIds :
           /\ jobs[j] # None /\ jobs'[j] # None
           /\ \A k \in JobIds \ {j} : jobs'[k] = jobs[k]
           /\ j \notin stale' =>
                /\ jobs[j].state \in {"queued", "pending_provider"}
                /\ jobs'[j].doc = jobs[j].doc /\ jobs'[j].forced = jobs[j].forced
           /\ stale \subseteq stale'
      BY <1>4, ClaimFacts DEF Exclusive
  <2> QED BY <2>1 DEF Finished
<1>5. ASSUME NEW p \in Passes, NEW upto, Settles(p, upto) PROVE Goal
  <2>1. PICK j \in JobIds :
           /\ Works(p, j) /\ jobs[j] # None /\ jobs'[j] # None
           /\ jobs'[j].doc = jobs[j].doc /\ jobs'[j].forced = jobs[j].forced
           /\ \A k \in JobIds \ {j} : jobs'[k] = jobs[k]
           /\ stale' = stale
      BY <1>5, SettlesFacts
  <2>2. j \notin stale => ~Finished(j)
      BY <2>1 DEF Exclusive, ClaimedRuns, Finished
  <2> QED BY <2>1, <2>2
<1>6. ASSUME NEW p \in Passes, StartPass(p) \/ Ask(p) \/ EndPass(p) PROVE Goal
    BY <1>2, <1>6 DEF StartPass, Ask, EndPass, history
<1>7. ASSUME Crash \/ \E d \in Docs, h \in Hashes : Put(d, h) PROVE Goal
    BY <1>2, <1>7 DEF Crash, Dies, Put, history
<1>8. ASSUME UNCHANGED vars PROVE Goal
    BY <1>2, <1>8 DEF vars, history
<1> HIDE DEF Goal
<1>b. ASSUME NEW p \in Passes, NEW upto, Skip(p, upto) \/ Reuse(p, upto) \/ Answer(p, upto)
      PROVE  Goal
    BY <1>5, <1>b, OutcomesSettle
<1>9. Goal
    BY <1>3, <1>a, <1>b, <1>4, <1>6, <1>7, <1>8 DEF Next, Step
<1> QED BY <1>9 DEF Goal

\* enqueueOcr's look for an open job and the passes' rewriting of rows leave a
\* document at most one open job, besides those a person forced and those an
\* old snapshot reopened.
THEOREM NoSecondOpenJob == Spec => []OneOpenJob
<1>1. Init => OneOpenJob
    BY DEF Init, OneOpenJob, Rows
<1>2. ASSUME Consistent, Exclusive, [Next]_vars, OneOpenJob PROVE OneOpenJob'
  <2> DEFINE Counts(j) == jobs[j] # None /\ ~Finished(j) /\ ~jobs[j].forced
  <2>1. OneOpenJob <=> \A j, k \in JobIds \ stale :
                          Counts(j) /\ Counts(k) /\ jobs[j].doc = jobs[k].doc => j = k
      BY DEF OneOpenJob, Rows
  <2>2. OneOpenJob' <=> \A j, k \in JobIds \ stale' :
                          Counts(j)' /\ Counts(k)' /\ jobs'[j].doc = jobs'[k].doc => j = k
      BY DEF OneOpenJob, Rows, Finished
  <2>3. stale \subseteq stale'
      BY <1>2, JobsKept
  <2>4. ASSUME NEW i \in JobIds, NEW d \in Docs, jobs[i] = None,
               jobs'[i].doc = d, jobs'[i].forced \/ Open(d) = {},
               \A k \in JobIds \ {i} : jobs'[k] = jobs[k]
        PROVE  OneOpenJob'
    <3>1. ASSUME NEW k \in JobIds \ {i}, Counts(k)', jobs'[k].doc = d PROVE k \in Open(d)
        BY <1>2, <2>4, <3>1 DEF Open, Rows, Finished, Consistent, TypeOK, JobRow, JobStates
    <3>2. \A k \in JobIds \ {i} : Counts(k)' <=> Counts(k)
        BY <2>4 DEF Finished
    <3> QED BY <1>2, <2>1, <2>2, <2>3, <2>4, <3>1, <3>2
  <2>5. ASSUME \A k \in JobIds \ stale' :
                  /\ jobs[k] = None <=> jobs'[k] = None
                  /\ jobs[k] # None =>
                       /\ jobs'[k].doc = jobs[k].doc /\ jobs'[k].forced = jobs[k].forced
                       /\ Finished(k) => jobs'[k] = jobs[k]
        PROVE  OneOpenJob'
    <3>1. ASSUME NEW k \in JobIds \ stale', Counts(k)'
          PROVE  Counts(k) /\ jobs'[k].doc = jobs[k].doc
        BY <2>5, <3>1 DEF Finished
    <3> QED BY <1>2, <2>1, <2>2, <2>3, <3>1
  <2> QED BY <1>2, <2>4, <2>5, JobsKept
<1> QED BY <1>1, <1>2, AlwaysConsistent, ExclusiveInvariant, PTL DEF Spec

\* No step takes a finished job up again, unless a pass claims it from a
\* snapshot taken before it was finished (the claim of runOcrWorker).
THEOREM FinishedIsFinal == Spec => FinishedStaysFinished
<1>1. ASSUME Consistent, Exclusive, [Next]_vars
      PROVE  [\A j \in JobIds \ stale' : Finished(j) => Finished(j)']_vars
  <2>1. ASSUME NEW j \in JobIds \ stale', Finished(j) PROVE jobs'[j] = jobs[j]
      BY <1>1, <2>1, JobsKept DEF Finished
  <2> QED BY <2>1 DEF Finished
<1> QED BY <1>1, AlwaysConsistent, ExclusiveInvariant, PTL DEF Spec, FinishedStaysFinished
=============================================================================
