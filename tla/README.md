# TLA+ verification of DP Logistics

DP Logistics reconciles vehicles with shipping containers at a gate or yard. An officer
scans a container and a vehicle (VIN) with a phone; the phone decides offline, against a
cached pickup report, whether the pair may be loaded; the server decides again with
authority, records the verdict, mails those concerned, and collects the photographs as
evidence. This directory holds TLA+ models of that program, the TLC runs that check them,
and TLAPS proofs about them. Line numbers below refer to `src/packages/`.

## 1. The system

### Parts, their state and how they interact

| Part | Source | State it keeps | Operations | What makes it correct |
|---|---|---|---|---|
| Rules engine | `shared-rules/src/reconcile.ts`, `types.ts` | none (pure) | `reconcile`, `findVinLine`, `progressFor`, `isContainerComplete` | a pass is unambiguous; a stale loaded set is only ever too optimistic, in known cases; the two completeness counts agree |
| Identifier rules | `shared-rules/src/normalize.ts`, `checkDigit.ts` | none (pure) | container check digit, OCR repair, extraction, edit distance | one misread character never makes another plate's number pass unflagged; the capped distance is the true one where it decides |
| Reconciliation server | `api/src/server.ts`, `modules/reconciliation.ts` | `scan_sessions`, `scans`, `reconciliations` | `POST /v1/sync/scans`, override, read-only views | one verdict per session, one live match per report line, completion announced once and truly |
| Pickup reports | `api/src/modules/ingest.ts` | `pickup_reports`, `pickup_lines` | CSV preview, commit with version and superseding | exactly the newest version of a reference is active |
| Notifications | `api/src/lib/notifications.ts` | `notifications` | `sendNotification` with cooldown, subscriptions, batching | no verdict without its notification row; no row queued for ever |
| Database schema | `api/src/lib/db.ts` | all tables of the server | migrations, unique indices | the indices say what the comments beside them say |
| Evidence images, server | `api/src/modules/evidence.ts` | `scans.image_*` | presign, refresh, finalize, view | verified means the declared bytes are stored |
| Object storage | `api/src/lib/storage.ts` | one object per key | presign, PUT, stat, get | a capability writes its own key only |
| Phone queue and background run | `mobile/src/lib/store.ts`, `sync.ts`, `imageQueue.ts`, `capture.ts`, `images.ts` | `queued_sessions`, `queued_images`, files, cached report, local loaded VINs | `commitCapture`, `saveReport`, `runSync`, `drainImageQueue` | nothing captured is lost; the cache is one answer of the server; a car passed here is remembered; everything queued at last leaves the queue |
| Phone API client | `mobile/src/lib/api.ts` | token pair | authorised fetch with refresh, the endpoints | a 401 costs one refresh; the token kept is one that can be refreshed |
| Documents and dossier | `api/src/modules/documents.ts` | `documents`, `document_links`, requirements | declare, finalize, link, dossier | the dossier never calls a container complete before the gate does |
| Recognition queue | `api/src/modules/ocrWorker.ts`, `ocr.ts` | `ocr_jobs`, `documents.extracted_text`, `ocr_state` | enqueue, requeue, `runOcrWorker` | text belongs to the bytes it is shown with; a job ends |
| Sign-in and tokens | `api/src/lib/auth.ts` | `refresh_tokens` | issue, rotate, revoke, verify | one live token per chain |
| Login rate limiter | `api/src/lib/rateLimit.ts` | attempts per key | check, sweep, evict, reset | a budget counts exactly the attempts of the last window; Retry-After is honest |
| Backup and restore | `api/src/lib/backup.ts`, `backup.ts`, `restore.ts` | files on disk | copy, verify, restore | what the copied database calls verified is in the copied store; a restore that says ok is whole |
| Start-up and shutdown | `api/src/start.ts`, `main.ts` | timers, the listener | configuration checks, one signal handler | |
| Recognition on the phone | `mobile/src/lib/ocr.ts`, `imageCodec.ts` | none | `interpret`, compress | proposes what is on the plate, or nothing |
| Phone screens | `mobile/App.tsx`, `mobile/src/screens/` | the stage, the state of the mounted `ScanScreen` | shoot, type, retake, confirm, cancel | what is recorded as read was read from that plate; photograph and reading belong together |
| Admin pages, fixtures, seed | `admin/index.html`, `fixtures/`, `api/src/lib/seed.ts` | presentation, demonstration data | | |

How they interact. *Phone to server, over HTTP:* `runSync` fetches the active report,
uploads queued sessions to `POST /v1/sync/scans`, receives upload URLs, PUTs each
photograph to the store, and calls finalize, which makes the server compare what was
stored with the declared hash. *Within the server:* one Node process over one SQLite
database; handlers interleave only at their `await`s (mail, stat, provider calls). Every
statement commits by itself, except the transaction of `commitReport`. *Timers:* the phone
runs `runSync` once a minute, the server `runOcrWorker` every 30 s, and an administrator
may call the same worker at any time. *Shared code:* phone and server run the same rules
engine, on different loaded sets. *Within the phone:* one JavaScript thread; captures and
the background run interleave at every query of one shared SQLite connection, and a transaction on it
(`withTransactionAsync`) is not exclusive; a shot in flight writes to whatever screen its component shows.

### What is hard

- Interleaving at awaits: completeness is tested on a set read before the verdict's mail is
  awaited; two worker passes hold snapshots of the same jobs; a PUT can come between a
  finalize's `stat` and the verdict it writes.
- Retries of what was done: sessions, PUTs and finalizes are all repeated after a lost
  answer, sometimes while the first call is still running.
- Partial failure and crashes: rows written one by one, a verdict refused by a unique index
  after the session was stored, a process that dies with a mail queued or a job running.
- Two processes over one directory: a backup copies files while the server writes them.
- Two officers on one phone: a background call outlives a sign-out, and token pairs are kept
  and cleared one key at a time.
- A cache replaced statement by statement under a capture that reads it, and a capture whose rows fall
  into that transaction when the app is killed.
- Answers that land late on a screen: a recognition after a retake, or on the other plate's screen.
- Staleness: the phone's loaded set, amended reports under running sessions, the worker's
  snapshot.
- Limits: six attempts per image, three tries and sixty polls per recognition job, where
  retries and polls share one counter; fifty sessions per upload; a limiter table of bounded size.
- Numbers: a misread character the check digit cannot see, a distance given up one row too early.

`PROJECT.json` lists each hazard at its line, with the properties that would catch it.

## 2. Modules

```
ReconRules -- ReconTable --+---- MCSharedRules      ReconRules_proofs, SharedRules_proofs
     |  \      Identifiers -+
     |   \
     |    LoadingBoard   (abstract)
     |         ^ refined by
     +----- SyncServer -- Dossier -- MCSyncServer   SyncServer_proofs
     +----- OfflineGate ------------ MCOfflineGate  OfflineGate_proofs
ScanFlow ----------------------- MCScanFlow         Evidence_proofs
Evidence ----------------------- MCEvidence         Evidence_proofs
OcrQueue ----------------------- MCOcrQueue         OcrQueue_proofs
Access ------------------------- MCAccess           Access_proofs
LoginLimiter ------------------- MCLoginLimiter     Access_proofs
Backup ------------------------- MCBackup           Backup_proofs
```

**ReconRules** states the engine as operators over report lines (a function from VINs to
the container they are listed for) and a `Confidence` table. The table stands for the
string similarity and holds the five values the code gives it in percent: 100 exactly for
equal VINs, 90 for one edit, 85 for equal suffixes, 70 for two edits, 0 for the rest.
**ReconTable** is the state machine that asks the engine every question there is: each
state is a report, a pairing, a loaded set and an expiry; the properties relate the answer to
the one another caller (a phone that knows fewer loaded vehicles, a second scan) gets.

**Identifiers** is the string side of the same package: the ISO 6346 check digit, the repair of a misread
container number (`Candidates`), its extraction from the tokens in view (`Windows`), the phone's
`Interpret`, and `Levenshtein` with its cap and its early exit, a recursive function row by row.
`Likeness` is what the engine makes of the distance; **MCSharedRules** computes the engine's `Confidence` table
from it, over VINs spelt out, and asks the engine and the identifier rules one question each.

**SyncServer** is the server's authoritative side. `reports`, `sessions`, `recon`, `notes`
are the tables, in insertion order; `handler` says for each request in flight which await
it is parked on and what it read before; `answered`, `payload` and `expired` record what
the outside saw or did. The code between two awaits is one action: `UploadJudged` is the
section of `POST /v1/sync/scans` up to the verdict's mail, `VerdictMailed`,
`ContainerSealed`, `SealMailed` and `Accept` are the sections after each await; the early
returns are `UploadRejected`, `UploadDuplicate`, `UploadIncomplete`, `UploadConflict`. Since
statements commit singly, a death between two of them is an action too
(`CrashAfterSession`, `CrashAfterVerdict`, `CrashAfterOverride`, `CrashAfterMail`,
`CrashAfterPresign`, and `Crash` at an await). The request body's loop over a batch
is a handler per turn: the loop keeps nothing between turns but the answers.

**LoadingBoard** is the abstract specification of the same thing: reports are pinned up,
each session gets one verdict for good, a line is crossed off once, a container is declared
complete once and with every line crossed off. `SyncServer!ImplementsBoard` maps
reconciliation rows to verdicts and crossed-off lines and checks that every step of the
server, crashes included, is a step or a stutter of the board.

**Dossier** extends `SyncServer` with the query behind the container dossier
(`documents.ts:441-530`), which joins the active reports with the newest verdict on each VIN. It has
no state; its answer is compared with the gate's `IsContainerComplete`.

**OfflineGate** is the phone between two signals. `db` is its database as a query sees it, `undo` what a rollback
restores, `cap` the capture in progress (`commitCapture`: three reads in any order, the verdict, the queued row,
the local mark) and `task` the run in progress (`runSync`: an upload of at most `Batch` sessions, the answer's
`markSynced` one by one, the refresh). `saveReport` is an action per statement, from `Begin` through `DeleteLines`,
`DeleteReport`, `DeleteServed`, `InsertReport`, `InsertLine`, `InsertServed` to `Commit`. A kill rolls the open
transaction back, with everything a capture wrote meanwhile. The server is one action per session (`Handle`), judged with the
same `Reconcile`; its own interleavings are in `SyncServer`. Elsewhere the report is amended and other
phones load cars.

**ScanFlow** is what the officer does: the stages of `App.tsx` and the state of `ScanScreen`. A shot is awaited
twice, for the photograph and for its recognition, and carries the plate the shutter was pressed for. The container
and the VIN screen are the same component at the same place, so that `ConfirmContainer` and `CancelVin` keep the screen's
state (`Carry`) while every other change of stage drops it (`Unmount`).

**Evidence** follows a photograph. Phone state: `queue`, `images`, `files` and the one
background run `task`; wire: `sent`, `reply`; server: `stored`, `parked` (uploads waiting for
their mail), `declared`, `verified`, `object` (the store), `late` (finalizes past their
`stat` whose caller is gone). Any request or answer can be lost, any transfer corrupted, any
URL can die, and phone or server can be killed at any point. `EnqueueImages` and
`EnqueueSession` are the two writes of a capture; `StartSync` … `RecordReply` the session
half of `runSync`; `StartDrain`, `Pick`, refresh, `Put`, `Stat`, `Finalized`/`Mismatch` the
drain.

**OcrQueue** models `finalizeDocument` and `requeueOcr` as far as they open jobs, and
`runOcrWorker` pass by pass. A pass takes a snapshot (`passes[p].seen`), then for each job
claims it, skips it or reuses known text, or asks the provider and settles it. `loop` names
the pass that holds the event loop, so that a pass is interrupted only where the code
awaits. Two passes may overlap, as the timer and the administrator's route allow. `bytes` is
what lies at each document's key: `Put` replaces it, also after it was compared, and a finalize past its
`stat` (`late`) then still verifies what is gone; `Read` is of what lies there when the provider is asked.
Statements commit singly here too: `Settle` writes text, job row and document state, and its
`upto` says after which of them the process dies (`Deaths`) or that the pass goes on; `CrashInFinalize` and
`CrashInRequeue` are the deaths inside those handlers, `Crash` the one between two sections.

**Access** is the token pair's life on both sides. Server: `tokens`, the rows of
`refresh_tokens`, each with the sign-in (`chain`) and the token (`parent`) it descends from.
Phone: the two keys `access` and `refresh`, the officer `shown`, and up to two calls, the
background run's and the login screen's, which interleave at every await. A run starts while somebody is
signed in (`StartRun`), makes its calls one after the other with whatever is stored by then
(`StartSync`), also after a sign-out, and ends (`EndRun`). A call asks
(`SyncAccepted`, `SyncUnauthorised`, `LoginGranted`, `LoginRefused`), on a 401 refreshes once
(`RefreshServed`, `RefreshRefused`), stores the pair key by key (`SaveAccess`, `SaveRefresh`)
and asks again; `PairLost` loses an answer, `AppKilled` restarts the app in the middle.
`ClearAccess` and `ClearRefresh` are the two deletions of a sign-out.

**LoginLimiter** is `SlidingWindowLimiter` with the part of the login handler that spends an address's budget before
an identifier's. Its `Map` is the attempts `at` each key, none for a key that is not in it, and for the insertion order
the keys `younger` than each: the keys that `evictIfOverCapacity` takes from the front are those with a table's worth of
younger ones. `WithinWindow` is the `filter` of the code; since attempts are pushed in the order of time, it keeps what
comes from `FirstWithin` on. `spent`, `forgotten` and `told` are history: what a key was charged for, which keys a
full table forgot, and the wait a key was last given.

**Backup** has three processes over files. The server writes in place (`WriteBegins`, `WriteEnds`),
dies half way, and verifies (`Finalize`); `createBackup` copies the database at one instant and then
file after file (`CopyDatabase`, `CopyFile`), and judges the copy (`WriteManifest`); the kept copy
rots; `restoreBackup` copies and checks (`RestoreCopies`, `RestoreChecks`). `lib/backup.ts` is a
module apart from `Evidence`: it needs of the server only which bytes lie where and which rows say verified.

`PROJECT.json` maps every definition of the code to its lines; what is left out there is specifications,
properties with their helpers, mutants, and the abstract board.

## 3. Runs

| Run | What it asks | Result |
|---|---|---|
| `SharedRules` | every question to the engine over two containers and four VINs, one a misread equally close to two lines, one a suffix twin exactly at the threshold; every plate of two owners with one character misread, whole or in parts; every pair of words and cap for the edit distance | `MatchIsUnambiguous`, `ProgressAgreesWithComplete`, `StaleLoadedIsOptimistic`, `ExactRescanIsCaught`, `ProposalIsThePlate`, `DistanceIsExact` hold |
| `SyncServer` | two sessions uploaded concurrently and repeatedly, an amendment that moves a car, an expiry, overrides, a crash at any statement | `OneVerdictPerSession`, `OneLiveMatchPerLine`, `VerdictsReplay`, `ActiveIsLatest`, `SealedOnceAndTruly`, `AcceptedMeansDelivered`, `StrandedOnlyByCrashOrMisread`, `DossierNeverEarly` hold |
| `SyncServerLive` | the same with the odd payloads (one scan only, a location nobody is assigned to) under fairness | implements `LoadingBoard`; `RequestsFinish`, `NotesSettle` hold |
| `OfflineGate` | two captures of one car, one of them refused by the server, beside uploads, refreshes, an amendment, another phone and a kill, under fairness | `CacheIsOneAnswer`, `OwnMatchRemembered`, `NothingShownIsLost`, `TurnsCome` hold |
| `ScanFlow` | two sessions, with photographs and readings that land after a retake, an edit or a change of screen | `ReadMeansRead`, `EvidenceFits` hold |
| `Evidence` | a photograph against every loss, corruption, dead URL and two kills or crashes, under fairness | `EvidenceNotLost`, `SyncedMeansDeclared`, `SessionsArrive`, `ImagesSettle` hold |
| `OcrQueue` | two documents, two overlapping passes, an upload that overwrites or a requeue or a death after any statement, fairness | `TextIsOwn`, `StuckOnlyByCrash`, `OneOpenJob`, `FinishedStaysFinished`, `JobsSettle` hold |
| `Access` | two officers on one phone, the calls of a background run and a login beside sign-outs, lost answers and kills | `OneLivePerChain`, `HeldTokenWorks`, `CallsEnd` hold |
| `LoginLimiter` | one address, three identifiers, a table of two: refusals, successes, sweeps, evictions, restarts | `BudgetIsExact`, `RetryAfterIsHonest` hold |
| `Backup` | a backup beside uploads, overwrites and deaths, kept, rotted and restored | `IncompleteOnlyIfRewritten`, `RestoredIsWhole`, `OkBackupRestores` hold |
| `SyncDuplicate`, `OfflinePartial` | what a comment says | violated; see section 6 |

Every module of a running part of the system has a type invariant, `TypeOK` (`FlowTypeOK`, `LimiterTypeOK`). It is in no run: the theorems
`TypeCorrect`, `FlowTypeCorrect` and `LimiterTypeCorrect` prove it for every value of the constants.

### Bounds, and why they are enough

- `SharedRules`, the engine: it compares one reading with the lines of one container and then
  with the whole report. Two containers and four VINs give every relation it tells apart:
  equal, one edit from two lines at once (a tie, 90), at the threshold (85), below it (70, 0),
  listed here, elsewhere, nowhere. All reports over them and all loaded sets, with all
  their subsets for the stale phone, are enumerated.
- `SharedRules`, the plates: two owners, one of them with a letter (J) next to lookalikes, and serials of 0, 6
  and 8, which are in or beside the class where check digit 0 hides an error; one misread per plate at each of the eleven places,
  by one of eleven characters that OCR confuses or whose values are congruent. Words of at most four
  letters over {A, B} reach every branch of the distance for every cap up to 3, the one the engine uses.
- `SyncServer`: the interactions are pairwise (two uploads for a line, an upload and an
  amendment, a sealing and the match before its await), so two sessions and two handlers
  interleave them all; three events let a report be committed, amended, and an override, an
  expiry or a crash follow. `MaxEvents` bounds commits, expiries, overrides and crashes
  together; `MaxCrashes` is 1, since a crash leaves nothing in memory and the invariants
  compare rows only. Uploads are not bounded: a session may arrive again for ever.
  Sessions and handlers are interchangeable (symmetry) in the safety run only.
- `Evidence`: one photograph, which has the whole protocol to itself; what a second one adds, an
  image that holds up those behind it, is in the model, and the theorems of section 4 cover any number
  of images and sessions. `MaxAttempts` is 3 instead of 6: the count is compared with the limit
  and nothing else. Two deaths (`MaxDeaths`) at any points, of app or server, so that a recovery
  can be interrupted again.
- `OfflineGate`: two sessions and `Batch` 1, so that one waits behind the other; one of them is refused for ever, which
  is what can fill a batch. `Versions` swaps one car for another, or (in `OfflinePartial`) lists both in
  both versions. One kill (`MaxKills`) at any point; uploads and refreshes are not bounded. The
  theorems hold for any sessions, reports, batch and number of kills.
- `ScanFlow`: two shots (`MaxShots`), as many as can be on their way to be confused, and two sessions
  (`MaxSessions`), so that the second starts from what the first left.
- `LoginLimiter`: `Window` 3 ticks, `Second` 2, so that a wait is rounded up; nine ticks (`MaxTime`) are two sweeps
  after the first; three identifiers in a table of two (`MaxTracked`) force an eviction.
- `OcrQueue`: two documents that declare the same or different bytes (every choice up to renaming);
  those that differ have one file at first (`MCUploads`), so that one document is verified only after
  another upload. `MaxEvents` bounds later uploads, requeues and deaths together and is 1: an upload before or after the
  bytes were compared, read or taken over; a requeue beside two passes; a death after any statement, the requeue's own
  included. Two of these in one behaviour are not run; the theorems on the safety properties hold for any number of them.
  Finalizes are not bounded. Two passes, two jobs (`MaxJobs`), `MaxOcrAttempts` 2 and `MaxOcrPolls` 3
  instead of 3 and 60, which keeps the order between them, `Limit` 2.
- `Access`: two officers, since a pair can only be mixed of two; two calls, as many as the app runs
  at once; `MaxTokens` 5 lets a login, a refresh and another login follow each other with a token
  to spare for each call, which `Room` reserves. A run makes any number of calls in turn, after a
  sign-out too, so that its call and the login screen's can present the same refresh token.
- `Backup`: two files, so that one is copied while the other is still to come; a file is written, verified and
  overwritten any number of times, backups and restores follow each other without a bound.

Deadlock checking is off where the environment is bounded and the system may really come
to rest (an officer who scans no more, events used up), on for `OcrQueue`, whose timer never
stops, for `ScanFlow`, where the officer can always go back, and for `Backup`.

### Fairness

- `SyncServer!FairSpec`: weak fairness of `Proceed(h)`. `sendMail` and local presigning
  settle (the sender's library ends a silent connection by its own timeouts) and Node then runs
  the continuation. No fairness on uploads, commits or expiries. `NotesSettle` assumes that the process does not
  die: after a crash nothing sends a queued row again, which is the hazard at
  `notifications.ts:181`.
- `Evidence!FairSpec`: the one-minute timer starts runs and both programs execute what they
  can (weak fairness); the upload of sessions is at last no longer lost; an image request
  that is made again and again is answered at last (strong fairness); the officer is at last
  assigned to the capture's location, without which the server answers `rejected` for ever.
  It is also assumed that every `fetch` ends; it has no timeout of its own.
- `OcrQueue!Fairness`: the pass that holds the loop runs to its next await (weak); the timer
  fires, and a provider's answer is handled though others may take the loop in between
  (strong).
- `Access!FairSpec`: a request is answered or fails, and the phone goes on from there (weak
  fairness of each call's steps). It too assumes that every `fetch` ends.
- `OfflineGate!FairSpec`: the timer starts runs and the phone executes what it can (weak fairness of `Proceeds`, a
  run being always at one step); an upload made again and again is at last handled and answered (strong fairness). Captures,
  amendments and losses get none. `TurnsCome` gives up a session only while refused ones fill the batch before it.
- `SyncServer`, `ScanFlow`, `LoginLimiter`, `Backup`, `SharedRules` and the runs of section 6 state safety only.

Each property of a passing run has a mutant in `PROJECT.json`: a definition of the model
changed as a plausible bug in that code would change it, under which the run's own
configuration finds the property violated.

## 4. What is proved

Every theorem below is checked by TLAPS to its last leaf, for every value of the constants
that satisfies the module's named assumption: `RulesAssumption` (the similarity table gives one
of the engine's five values per pair of VINs, 100 exactly for equal ones), `ServerAssumption`, `EvidenceAssumption`,
`OfflineAssumption`, `OcrAssumption`, `AccessAssumption`, `BackupAssumption` (typing of the constants; attempts at least one; `MaxOcrAttempts <= MaxOcrPolls`
as in the code), `YardAssumption` (finitely many VINs, since progress counts them; only `ReconTable` needs it;
`Identifiers` has no constants),
`FlowAssumption` and `NoPhotoAssumption` (no number is a container's and a vehicle's; "none" is neither a number nor a
photograph), `LimiterAssumption` (a key is an address or an identifier, window and limits are at least one, and the
clock starts a window after the epoch). The bounds are constants too, so a result for every bound is a result for
the unbounded system.

| Module | Theorem | Property |
|---|---|---|
| `SharedRules_proofs` | `PassIsUnambiguous` | `MatchIsUnambiguous` |
| | `StaleLoadedSetIsOptimistic` | `StaleLoadedIsOptimistic` |
| | `ExactRescanIsADuplicate` | `ExactRescanIsCaught` |
| | `ProgressAndCompleteAgree` | `ProgressAgreesWithComplete` |
| | `MisreadPlateIsCaught` | `ProposalIsThePlate` |
| | `ProposalIsAContainerNumber` | (any tokens in frame) |
| | `DistanceIsTrue` | `DistanceIsExact` |
| `SyncServer_proofs` | `TypeCorrect` | `TypeOK` |
| | `OneVerdict` | `OneVerdictPerSession` |
| | `OneLiveMatch` | `OneLiveMatchPerLine` |
| | `NewestIsActive` | `ActiveIsLatest` |
| | `LogReplays` | `VerdictsReplay` |
| | `NeverEarly` | `DossierNeverEarly` |
| | `SealedOnce` | `SealedOnceAndTruly` |
| | `AcceptedIsDelivered` | `AcceptedMeansDelivered` |
| | `OnlyCrashOrMisreadStrands` | `StrandedOnlyByCrashOrMisread` |
| | `ServerImplementsBoard` | `ImplementsBoard` |
| `OfflineGate_proofs` | `TypeCorrect` | `TypeOK` |
| | `OneAnswer` | `CacheIsOneAnswer` |
| | `Remembered` | `OwnMatchRemembered` |
| | `NotLost` | `NothingShownIsLost` |
| `Evidence_proofs` | `FlowTypeCorrect` | `FlowTypeOK` |
| | `RecordedAsReadIsRead` | `ReadMeansRead` |
| | `PhotographsFit` | `EvidenceFits` |
| | `TypeCorrect` | `TypeOK` |
| | `NoPhotographLost` | `EvidenceNotLost` |
| | `SyncedIsDeclared` | `SyncedMeansDeclared` |
| `OcrQueue_proofs` | `TypeCorrect` | `TypeOK` |
| | `TextStaysOwn` | `TextIsOwn` |
| | `RunningHasPass` | `StuckOnlyByCrash` |
| | `NoSecondOpenJob` | `OneOpenJob` |
| | `FinishedIsFinal` | `FinishedStaysFinished` |
| `Access_proofs` | `TypeCorrect` | `TypeOK` |
| | `OneLive` | `OneLivePerChain` |
| | `HeldWorks` | `HeldTokenWorks` |
| | `LimiterTypeCorrect` | `LimiterTypeOK` |
| | `BudgetsAreExact` | `BudgetIsExact` |
| | `RetryAfterHonest` | `RetryAfterIsHonest` |
| `Backup_proofs` | `TypeCorrect` | `TypeOK` |
| | `IncompleteMeansRewritten` | `IncompleteOnlyIfRewritten` |
| | `WholeRestore` | `RestoredIsWhole` |
| | `OkRestores` | `OkBackupRestores` |

**The engine.** `ReconRules_proofs` holds the lemmas on `FindVinLine` (what it returns is
listed, close enough, and closer than every rival; an exact line wins) and on `Reconcile`
with a smaller loaded set. The theorems of `SharedRules_proofs` about `ReconTable` are these lemmas applied to
any reachable question. `ProgressAndCompleteAgree` counts: of finitely many lines, those loaded and those that remain
are two parts of one set.

**Plates.** `IdentifierSpec` is the state machine of `Identifiers` with nothing bounded: any number of the right shape,
check digit and category, any place of it read as any letter or digit, broken into one to three pieces, and any two
texts with any cap. The argument for `MisreadPlateIsCaught`: the pieces of the plate make one window, and it is what
was seen (`PlateWindow`); a valid text is its own only candidate and whatever a repair yields is valid
(`CandidatesAre`); a text of eleven characters holds one number, itself (`HoldsOnlyItself`); so an unflagged proposal
other than the plate would be a valid number that differs from a valid number in one place. One place moves the check
sum by its weight, a power of two, which 11 does not divide (`MisreadWeighs`): either the two characters' values are
congruent, which two letters of the owner code can be and two digits cannot, or the remainders are 0 and 10 and the
number ends in the ambiguous 0 (`MisreadIsCongruent`). With other text beside the plate the theorem does not speak: a
second container's number in frame may be proposed. For any tokens at all, `ProposalIsAContainerNumber` says that what
is proposed is a valid number of a standard category; the size code beside the plate is in TLC's run.

**The edit distance.** `DistanceIsExact` compares what a matrix, filled row by row, gives with what edits do, and the
proof goes both ways. The matrix of a text against `b` exists and each row follows the one above it (`MatrixExists`,
`NextRowIs`); neighbouring entries of a row, and of two rows one below the other, differ by at most one
(`MatrixIsGentle`, `OneMore`, `OneLess`); hence two texts one edit apart have last rows that differ by at most one
(`EditIsClose`), the matrix of `b` itself ends in 0 (`OwnDistance`), and no fewer edits than the last entry says lead
to `b` (`EditsReachNoSooner`). Conversely the entry at row `i`, column `j` is reached: that many edits lead from `a` to
the text that begins with `j` characters of `b` and goes on with those of `a` after the first `i` (`Mixed`,
`EditsReachInTime`). Giving up is safe since a row beyond `max` has only rows beyond `max` below it
(`GivesUpForGood`), so the rows kept are those of the matrix, or both are given up (`KeptOrGivenUp`). The inductions run
over sets of numbers: a set of numbers that is not empty has a least element (`LeastExists`, as for the limiter), so what
holds at 0 and passes on holds up to any bound (`Reaches`), and a function defined step by step exists (`Iterates`).

**The server.** `TypeOK` alone is not inductive: that a handler parked on a mail points to
an existing row, and that a live match names a line of the report it cites, are needed to
type the next row. `Consistent` adds `SessionsHavePayloads`, `RowsHaveSessions`,
`MatchesNameLines` and `HandlersHaveRows`. `OneVerdictPerSession` rests on "a row's
session is stored" (a stored session is answered `duplicate` before any verdict);
`OneLiveMatchPerLine` on the unique index, whose refusal `IndexRefuses` is the guard of every
insertion; `ActiveIsLatest` on `AmendmentChain`, which says that older versions are superseded
and that one is active, and that `Previous` therefore finds the newest. `VerdictsReplay` is
inductive once the log is known to grow at its end only: what an old row saw is never
changed by a later one, and an expiry only adds to `expired`.

**The server's mails and promises.** `MailsFollowVerdicts` says that a request past its verdict knows an original row,
that the mail it waits for bears that row's outcome and that the loaded set it keeps over the await is one the log had
when the row was written (`RequestsKnowTheirVerdict`); that no two requests wait for the mail of one row
(`VerdictMailsAreOwn`); that a match's row is of its payload's container (`MatchesAreThePayloads`); and that a row
a container was announced for filled it, going by the log up to that row (`SealsFollowTheLog`). `SealedOnceAndTruly`
follows by order: were a container announced for two rows, the line of the later one would be among those the earlier
one found loaded, and the unique index lets a line be matched once. `AcceptedMeansDelivered` holds when the answer is
given, and no later step takes a mail, a verdict or a URL back. `StrandedOnlyByCrashOrMisread` looks at the two steps
that leave a session without a verdict, `UploadConflict` and a crash. `ServerImplementsBoard` is the refinement, one
lemma per kind of step: a commit pins a report, a verdict judges and may cross a line off, a seal declares; what the
other steps change (mails, answers, handlers, override rows) the board does not show, and a crash between two statements
is the step of the statements it lets through.

**The phone.** `Consistent` is `TypeOK` with `CaptureInOrder` and `TaskInOrder` (a capture is of a session not yet
shown; a transaction is open just between `Begin` and `Commit`), `Saving` (what is committed is one answer entire, and at each
statement of a refresh how far the cache has got to the next), `AnswersInOrder` (a later answer is a later report or
names more loaded cars), `RowsKept` (what the phone holds as synced is stored; a shown session has its row)
and `MarksKept`, which says of a local mark where it is in what a kill and in what a `Commit` would leave.

**The screens.** `ReadMeansRead` and `EvidenceFits` speak of stored sessions; `ScreensConsistent` carries them back
to the shutter. What the screen shows was made on it, or `mixed` says so (`ScreenFits`); a shot in flight that is not
`old` is awaited for the photograph shown (`ShotFits`); off the two plates' screens nothing is mounted and nothing in
flight (`Unmounted`); the container was a good capture when it was confirmed (`ContainerConfirmed`). That a text cannot
be valid for both plates makes the reading that a confirmed value equals one of the plate on the screen.

**The photographs.** `EvidenceNotLost` needs to know what a run in progress has already
seen: when the server compares, the bytes it saw (`task.seen`) were the object's then, and
only a PUT changes the object. `Consistent` is `TypeOK` with `RunInOrder` (the image being
worked on is one the run may still touch), `UrlsDeclared`, `SessionsInOrder`,
`StoredIsDeclared` and `FoundIntact` (bytes found intact are still there unless a corrupted
repeat replaced them).

**Recognition.** `TextIsOwn` needs that what is read is the declared file's or comes from an overwritten one, at every
place it passes through. `Fits(d, h)` says this of bytes `h` and document `d`; it holds of the bytes of a
verified document (`VerifiedFit`: it was compared, or is in `replaced`), of the provider's handle in a
job row (`HandlesFit`) and in a snapshot's row, which also names a job that still exists for the same document
(`SnapshotsFit`); only verified documents have jobs (`RowsFit`). A pass holds a job exactly between its claim and its
outcome (`ClaimsFit`), which also carries `StuckOnlyByCrash`. `OneOpenJob` and `FinishedStaysFinished` need
`Exclusive` besides: snapshots hold rows that were open when they were taken, and a claimed job, unless it is one of the
`stale` ones that an old snapshot opened again, is running and has one pass at work on it. What the rows say by
themselves outlives the process, whichever statement it dies after (`DeathConsistent`).

**The dossier.** It follows from the server's `Consistent` and `VerdictsStand` (an override marks its
own row, never the verdict it replaces): under one report, a newest verdict `MATCH` is a live row on
a line of that report, and the vehicles due are the lines the gate counts.

**Tokens.** `OneLivePerChain` is inductive with `ChainsInOrder`: a chain is named after the token that
began it, so a login's is new. `HeldTokenWorks` needs `NewTokensUnshared`: a token that a call has
received and not stored yet is in no other hand (not in the store, not with the other call), so
nobody can spend it before it gets there.

**Login attempts.** The invariant `KeyFits` is about one key: its attempts are in the order of time, those in the window
are the ones it was charged for unless the table forgot it (`CountFits`), and at the end of the wait it was told one has
left the window, up to a second before none (`WaitFits`, which speaks of every instant until then, so that the passing
of time preserves it). Two facts make the window tractable: what is within a window of a window is the later window
(`WithinTwice`, so pruning early or late is the same), and a set of numbers has a least one (`LeastExists`, from the
library's well-founded order of finite sets), so that the first attempt within a window is there to be found. Each
operation of the limiter is then one lemma on the key it touches and one on the others, which a sweep prunes
and an eviction empties.

**Backups.** `Consistent` says that what a verified row names lies on disk as declared until it is
written again (a half-written file included), that the copied files of the copied rows inherit this
because the database goes first (`CopyInOrder`), that the kept copy is what the manifest says until
something rots (`KeptAsRecorded`), and that the manifest's verdict is true of it (`ManifestTrue`).

**What is only model-checked.** The liveness properties (`NotesSettle`, `RequestsFinish`,
`SessionsArrive`, `ImagesSettle`, `JobsSettle`, `CallsEnd`, `TurnsCome`), since temporal reasoning with fairness and
`ENABLED` is beyond the prover; and what a door shows besides the plate, of which `MisreadPlateIsCaught` leaves out
all and TLC takes the size code. Every safety invariant and action property of a passing run, and the refinement, is a
theorem.

## 5. What is abstracted

- VINs and containers are model values and their likeness is the `Confidence` table, except in `Identifiers` and
  `MCSharedRules`, where they are sequences of characters. Case, separators and lookalikes of other alphabets are folded away. The
  cached report's expiry is a Boolean of the engine and a set of expired reports in the server.
- E-mail: recipients are the set of subscribed events, text is left out, and whether an
  earlier mail lies within the fifteen-minute window is left open (both cases are taken).
- In `Evidence` bytes are `good` (those hashed on the phone) or `bad`; an upload URL is `none`, `live` or
  `dead`, and may die at any time. In `OcrQueue` a document's upload URL does not expire, which allows more than the code does.
- `OfflineGate` keeps of a capture its pairing and of a refused session that it is refused (the officer was taken off the location);
  photographs are in `Evidence`. The batch limit is `Batch` there; in `Evidence` a request takes every queued session, and the
  number of images a drain takes is left out.
- `ScanFlow` keeps of a text whether it is valid, and for which plate; of a photograph which plate it was pointed at.
  Where a recognition proposes a valid text it is the one `Interpret` gives, any of the plate's.
- `LoginLimiter` assumes a clock that does not run backwards. Both limiters have the same window, as in the code.
- The provider of recognition is one that polls, as Textract does; every document is of a
  recognisable type; `document_links` found in the text are not modelled, since nothing in the
  queue reads them.
- Of the exceptions between `server.ts:480` and the verdict, `SyncServer` has the unique index's. A client that
  used a scan id twice would meet another and strand its session in the same way; this phone gives every scan a
  fresh UUID (`capture.ts:111`), so `StrandedOnlyByCrashOrMisread` is about it and not about any client.
- Authorisation in `SyncServer` is the part that changes the outcome (`Assigned`); tokens are in
  `Access`, where an access token is its user and whether it has expired. Roles are left out.
- A backup's copy of the database is the set of keys it calls verified. When the kept database rots,
  `PRAGMA integrity_check` may or may not notice, and the restored rows may be any. A missing or
  unreadable manifest is refused before anything is copied and is not modelled.

## 6. Where the code and its documents disagree

The first list are the runs whose one property restates a comment, with the counterexample TLC finds in the
code.

1. `SyncDuplicate`. A misread VIN near a loaded line is not a duplicate to the engine, but its
   `MATCH` hits the unique index after the session row has been committed. The upload is answered
   `failed`, the retry `duplicate`, and the session has no verdict, whereas `sync.ts:74` and
   `architecture.md:137` treat `duplicate` as success.
2. `OfflinePartial`. `store.ts:129` replaces the cache wholesale because a partial one would call listed
   vehicles unknown. The transaction is not exclusive: a capture confirmed while a refresh is between its first DELETE
   and its last INSERT reads the part that is there.

Met on the way, without a run:

- *Rules.* `reconcile.ts:168` looks for a similar VIN in the scanned container before `:188` looks for the exact
  VIN in the whole report: a car listed, letter for letter, for another container passes when its VIN is one edit
  from a line of this one. `reconciliation-rules.md:201` says that no single-character mutation of a valid container
  number validates; letters of congruent values and the class of check digit 0 do (the tests document both), and
  `ProposalIsThePlate` names these exceptions. `needsConfirmation` is computed and not read by `ScanScreen`, which
  asks for confirmation always.
- *Server.* `db.ts:187` promises that a vehicle cannot be loaded into two containers; the index is per report, and
  an amendment is a new report. After one, the dossier shows a car as loaded in the container it was moved to.
  A session is recorded under whoever uploads it (`server.ts:480`), not who captured it, although the queue outlives a
  sign-out and `README.md:52` promises the officer as evidence. `architecture.md:136-143` announces a priority
  alert when the server's verdict differs from the phone's; the code sets `outcome_differs` and no more.
  `rateLimit.ts:13` speaks of failed attempts; a success counts against the address too.
- *Phone.* A local `MATCH` that the server judges otherwise is never withdrawn from `loaded_vins`. A kill between
  `enqueueSession` and `markLoadedLocally` leaves a pass that is not remembered (no verdict was shown). When
  `commitCapture` throws after the row was queued, the officer's second attempt is a second session. `ConfirmContainer`
  leaves photograph and reading on the screen that asks for the VIN, and a VIN typed there is stored with the
  container's photograph (`EvidenceFits` says that this, or a Retake while a recognition is awaited, is the only way).
  Without a location Confirm does nothing and says nothing; `JobScreen` passes on a container number that
  nobody reads; `ChecklistScreen` is rendered by nobody.
- *Evidence.* `imageQueue.ts:171` deletes the file because the server confirmed an identical copy. When finalize's
  answer is lost, the phone repeats the PUT, and a corrupted repeat replaces the copy already verified. The next finalize
  reports the mismatch and leaves `image_verified` at 1 (`evidence.ts:203`), so that the following refresh answers
  "already verified" and the phone deletes the only good bytes. `EvidenceNotLost` says that nothing else loses
  them. An image whose URL is attached after its last attempt is `ready` and never drained again.
- *Recognition.* Uploaded bytes are compared once; an upload URL that is still alive (`server.ts:112`) can replace
  verified ones, and a finalize that then sees the mismatch leaves `verified` at 1 (`documents.ts:285-288`), although
  `documents.ts:294` and `ocr.ts:282` promise that nothing unverified is recognised. `TextIsOwn` says that nothing else
  brings in foreign text. `runOcrWorker` is documented as safe to call concurrently because each job is claimed before any
  work; the claim (`ocrWorker.ts:185`) does not test the state it overwrites, and two passes send one job twice.
  `requeueOcr` promises to discard the text there is and read again, and the worker (`ocrWorker.ts:205`) skips the job
  because there is text. A poll that throws after two quiet ones fails its job at once; a job left `running` by a crash
  blocks its document for ever.
- *Backup.* `running.md:298` says that manifest and restore check the same three things, but `createBackup` runs no
  integrity check, and the hash of the database in the manifest is compared by neither.

## 7. What is not modelled, and why

- `JobScreen`, `VerdictScreen`, `ChecklistScreen`, the admin pages, the read-only routes of `server.ts`, fixtures and seed
  show or produce data and decide nothing. Start-up is a list of configuration checks.
- CSV reports (`splitCsvLine`, `inferMapping`, `validateRow`): parsing of text whose result an operator confirms in a
  preview; `commitReport`, which acts on it, is in `SyncServer`.
- `normalizeVin`, `extractVins` and the ISO 3779 digit: a reading of a VIN is never exact and always confirmed by
  hand, and the digit gates nothing.
- Of documents, the links, requirements and photograph counts of the dossier; of `auth.ts`, hashing, signing and
  roles; of storage, token encoding, key layout and the S3 client.
- That a request which never settles stops the phone's runs for good (`sync.ts:41`, no timeout on `fetch`): every
  liveness property assumes it away. That a lost file holds up the images behind it (`api.ts:235`) is in the model and
  excepted by `ImagesSettle`.

## 8. Plan

Done: `ReconRules`, `ReconTable`; `SyncServer` refining `LoadingBoard`, with `Dossier`; `OfflineGate`; `Evidence`;
`OcrQueue`; `Access`; `Backup`; `ScanFlow`; `LoginLimiter`, and `Identifiers`,
each with proofs of its safety properties.

Still worth doing:

1. `Ingest`: header inference and row validation of CSV reports.
2. The VIN half of `Identifiers`; paperwork and photograph counts of the dossier.
3. `Evidence` and `Access` composed, for an upload run that refreshes half way; `OfflineGate` with photographs.
4. Proofs: a misread plate with other text in frame, under a condition on that text; that the phone of `OfflineGate`
   and the server of `SyncServer` agree on what the rules are asked.
