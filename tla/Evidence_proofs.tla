-------------------------- MODULE Evidence_proofs --------------------------
(***************************************************************************)
(* Proofs about photographs, from the shutter to the store.                *)
(*                                                                         *)
(* ScanFlow, for any plates and any number of shots and sessions: what the *)
(* officer's screens record as read was read, and what is stored together  *)
(* belongs together.                                                       *)
(*                                                                         *)
(* Evidence, for any number of sessions and images: no loss, kill or crash *)
(* loses a photograph, and a session that left the queue has its images    *)
(* declared.                                                               *)
(***************************************************************************)
EXTENDS Evidence, ScanFlow, TLAPS

-----------------------------------------------------------------------------
\* Recorded as read means read from that plate; nothing mixed in means it fits.
GoodCapture(c, target) ==
    /\ ~c.wasManual =>
          /\ c.reading # Nothing
          /\ c.reading.value = c.value
          /\ c.reading.photo.of = target
    /\ ~c.mixed =>
          /\ c.photo # Nothing => c.photo.of = target
          /\ c.reading # Nothing => c.reading.photo = c.photo

\* Off the two plates' screens no component is mounted, nothing in flight.
Unmounted == ~OnScreen => screen = Fresh /\ shot = Nothing

\* What the screen shows was made on it, unless it says so.
ScreenFits ==
    ~screen.mixed =>
        /\ screen.photo # Nothing => screen.photo.of = stage
        /\ screen.reading # Nothing => screen.reading.photo = screen.photo

\* What is in flight is awaited for the photograph the screen shows.
ShotFits ==
    shot # Nothing /\ ~shot.old =>
        /\ shot.photo.of = stage
        /\ shot.at = "taking" => screen.photo = Nothing
        /\ shot.at = "reading" => screen.photo = shot.photo

\* The container a VIN is confirmed for was confirmed before.
ContainerConfirmed ==
    stage \in {"vin", "busy"} => container \in Captures /\ GoodCapture(container, "container")

SessionsFit ==
    \A i \in 1..Len(sessions) :
        /\ GoodCapture(sessions[i].container, "container")
        /\ GoodCapture(sessions[i].vin, "vin")

ScreensConsistent ==
    FlowTypeOK /\ Unmounted /\ ScreenFits /\ ShotFits /\ ContainerConfirmed /\ SessionsFit

LEMMA ScreensInit == FlowInit => ScreensConsistent
  BY FlowAssumption DEF FlowInit, ScreensConsistent, FlowTypeOK, Unmounted, ScreenFits, ShotFits,
         ContainerConfirmed, SessionsFit, Fresh, Screens, Texts, OnScreen, Targets

\* What confirm builds is a capture of the plate on the screen: the reading it
\* equals is valid for the photographed plate, and a text is valid for one.
LEMMA CapturedIsGood ==
  ASSUME FlowTypeOK, ScreenFits, stage \in Targets, Valid
  PROVE  Captured \in Captures /\ GoodCapture(Captured, stage)
<1>1. screen \in Screens
  BY DEF FlowTypeOK
<1>2. Captured \in Captures
  BY <1>1 DEF Captured, Captures, Screens, Valid, ValidFor, Targets
<1>3. ASSUME ~Captured.wasManual
      PROVE  /\ Captured.reading # Nothing
             /\ Captured.reading.value = Captured.value
             /\ Captured.reading.photo.of = stage
  <2>1. screen.reading # Nothing /\ screen.reading.value = screen.field
    BY <1>1, <1>3 DEF Captured, Screens
  <2>2. /\ screen.reading.photo \in Photos
        /\ screen.reading.value \in ValidFor(screen.reading.photo.of) \union {Nothing}
    BY <1>1, <2>1 DEF Screens, Readings
  <2>3. screen.reading.photo.of = stage
    BY <2>1, <2>2, FlowAssumption DEF Valid, ValidFor, Photos, Targets
  <2> QED
    BY <2>1, <2>3 DEF Captured
<1>4. ASSUME ~Captured.mixed
      PROVE  /\ Captured.photo # Nothing => Captured.photo.of = stage
             /\ Captured.reading # Nothing => Captured.reading.photo = Captured.photo
  BY <1>4 DEF Captured, ScreenFits
<1> QED
  BY <1>2, <1>3, <1>4 DEF GoodCapture

LEMMA ScreensStep == ScreensConsistent /\ [FlowNext]_flowVars => ScreensConsistent'
<1> SUFFICES ASSUME ScreensConsistent, [FlowNext]_flowVars PROVE ScreensConsistent'
  OBVIOUS
<1> USE FlowAssumption, NoPhotoAssumption
    DEF ScreensConsistent, Unmounted, ScreenFits, ShotFits, ContainerConfirmed,
        FlowTypeOK, OnScreen, Targets
<1>1. CASE OpenScan
  BY <1>1 DEF OpenScan, Unmount, Fresh, Screens, Texts, SessionsFit
<1>2. CASE Shutter
  BY <1>2 DEF Shutter, HasRead, Shots, Photos, SessionsFit, GoodCapture
<1>3. CASE PhotoTaken
  <2>1. shot \in Shots /\ shot.photo \in Photos /\ shot.old \in BOOLEAN /\ screen \in Screens
    BY <1>3 DEF PhotoTaken, Shots
  <2>2. screen' \in Screens /\ shot' \in Shots
    BY <1>3, <2>1 DEF PhotoTaken, Shots, Screens
  <2>3. /\ screen'.photo = shot.photo /\ screen'.reading = screen.reading
        /\ screen'.mixed = (screen.mixed \/ shot.old)
        /\ shot'.photo = shot.photo /\ shot'.old = shot.old /\ shot'.at = "reading"
    BY <1>3, <2>1 DEF PhotoTaken, Shots, Screens
  <2>4. screen.reading \in Readings => screen.reading.photo # Nothing
    BY DEF Readings
  <2>5. UNCHANGED <<stage, container, sessions, shots>> /\ shot # Nothing /\ shot.at = "taking"
    BY <1>3 DEF PhotoTaken
  <2>6. ScreenFits'
    BY <2>1, <2>3, <2>4, <2>5 DEF Screens
  <2>7. Unmounted' /\ ShotFits' /\ ContainerConfirmed' /\ SessionsFit'
    BY <2>3, <2>5 DEF SessionsFit
  <2> QED
    BY <2>2, <2>5, <2>6, <2>7
<1>4. CASE ShotFails
  BY <1>4 DEF ShotFails, SessionsFit
<1>5. ASSUME NEW value \in Texts, Recognised(value) PROVE ScreensConsistent'
  BY <1>5 DEF Recognised, Shots, Screens, Readings, Texts, SessionsFit
<1>6. CASE EnterManually
  BY <1>6 DEF EnterManually, HasRead, Screens, Texts, SessionsFit
<1>7. ASSUME NEW text \in Texts, Type(text) PROVE ScreensConsistent'
  BY <1>7 DEF Type, Screens, SessionsFit
<1>8. CASE Retake
  BY <1>8 DEF Retake, Fresh, Screens, Shots, Texts, SessionsFit
<1>9. CASE ConfirmContainer
  <2>1. Captured \in Captures /\ GoodCapture(Captured, "container")
    BY <1>9, CapturedIsGood DEF ConfirmContainer
  <2>2. /\ container' = Captured /\ stage' = "vin"
        /\ UNCHANGED <<sessions, shots>>
    BY <1>9 DEF ConfirmContainer
  <2>3. Carry
    BY <1>9 DEF ConfirmContainer
  <2>4. screen' \in Screens /\ shot' \in Shots \union {Nothing}
    BY <2>3 DEF Carry, Screens, Shots
  <2>5. ScreenFits' /\ ShotFits'
    BY <2>3 DEF Carry, Screens, Shots
  <2>6. ContainerConfirmed' /\ SessionsFit'
    BY <2>1, <2>2 DEF SessionsFit, GoodCapture
  <2> QED
    BY <2>1, <2>2, <2>4, <2>5, <2>6
<1>10. ASSUME NEW saves \in BOOLEAN, NEW fails \in BOOLEAN, ConfirmVin(saves, fails)
       PROVE  ScreensConsistent'
  <2>1. Captured \in Captures /\ GoodCapture(Captured, "vin")
    BY <1>10, CapturedIsGood DEF ConfirmVin
  <2>2. container \in Captures /\ GoodCapture(container, "container")
    BY <1>10 DEF ConfirmVin
  <2>3. /\ screen' = Fresh /\ shot' = Nothing /\ stage' \in {"busy", "verdict"}
        /\ UNCHANGED <<container, shots>>
    BY <1>10 DEF ConfirmVin, Unmount
  <2>4. sessions' \in Seq(StoredSessions) /\ SessionsFit'
    <3> DEFINE new == [container |-> container, vin |-> Captured]
    <3>1. new \in StoredSessions /\ new.container = container /\ new.vin = Captured
      BY <2>1, <2>2 DEF StoredSessions
    <3>2. CASE sessions' = sessions
      BY <3>2 DEF SessionsFit, GoodCapture
    <3>3. CASE sessions' = Append(sessions, new)
      <4> HIDE DEF new
      <4>1. /\ sessions' \in Seq(StoredSessions) /\ Len(sessions') = Len(sessions) + 1
            /\ \A i \in 1..Len(sessions) : sessions'[i] = sessions[i]
            /\ sessions'[Len(sessions) + 1] = new
        BY <3>1, <3>3
      <4> QED
        BY <2>1, <2>2, <3>1, <4>1 DEF SessionsFit, GoodCapture
    <3> QED
      BY <1>10, <3>2, <3>3 DEF ConfirmVin
  <2>5. screen' \in Screens
    BY <2>3 DEF Fresh, Screens, Texts
  <2>6. Unmounted' /\ ScreenFits' /\ ShotFits' /\ ContainerConfirmed'
    BY <2>2, <2>3 DEF Fresh, GoodCapture
  <2> QED
    BY <2>3, <2>4, <2>5, <2>6
<1>11. CASE CommitFailed
  BY <1>11 DEF CommitFailed, SessionsFit, Fresh
<1>12. CASE CancelContainer
  BY <1>12 DEF CancelContainer, Unmount, Fresh, Screens, Texts, SessionsFit
<1>13. CASE CancelVin
  BY <1>13 DEF CancelVin, Carry, Screens, Shots, SessionsFit
<1>14. CASE NextVehicle \/ Done
  BY <1>14 DEF NextVehicle, Done, SessionsFit, Fresh
<1>15. CASE UNCHANGED flowVars
  BY <1>15 DEF flowVars, SessionsFit
<1> QED
  <2> HIDE DEF ScreensConsistent
  <2> QED
    BY <1>1, <1>2, <1>3, <1>4, <1>5, <1>6, <1>7, <1>8, <1>9, <1>10, <1>11, <1>12, <1>13,
       <1>14, <1>15
    DEF FlowNext, Plate

LEMMA ScreensAlwaysConsistent == FlowSpec => []ScreensConsistent
  BY ScreensInit, ScreensStep, PTL DEF FlowSpec

(***************************************************************************)
(* The stages and the screen they show are typed: above all, no VIN is     *)
(* asked for and no session stored without a confirmed, valid container    *)
(* number (App.tsx, the guard of confirm).                                 *)
(***************************************************************************)
THEOREM FlowTypeCorrect == FlowSpec => []FlowTypeOK
<1>1. ScreensConsistent => FlowTypeOK
  BY DEF ScreensConsistent
<1> QED
  BY <1>1, ScreensAlwaysConsistent, PTL

(***************************************************************************)
(* A capture recorded as read carries the value a recognition proposed     *)
(* from a photograph of that very plate, whatever was carried, retaken,    *)
(* edited or late in between: wasManualEntry (ScanScreen.tsx).             *)
(***************************************************************************)
THEOREM RecordedAsReadIsRead == FlowSpec => []ReadMeansRead
<1>1. ScreensConsistent => ReadMeansRead
  BY DEF ScreensConsistent, SessionsFit, GoodCapture, ReadMeansRead, CapturesOf
<1> QED
  BY <1>1, ScreensAlwaysConsistent, PTL

(***************************************************************************)
(* The photograph stored for a plate is one of that plate, and its reading *)
(* was made from it, unless the officer carried work to the other screen   *)
(* or pressed Retake with a recognition in flight (confirm, onVinCaptured).*)
(***************************************************************************)
THEOREM PhotographsFit == FlowSpec => []EvidenceFits
<1>1. ScreensConsistent => EvidenceFits
  BY DEF ScreensConsistent, SessionsFit, GoodCapture, EvidenceFits, CapturesOf
<1> QED
  BY <1>1, ScreensAlwaysConsistent, PTL

-----------------------------------------------------------------------------

\* The image a run is at is one it still has to do, with an attempt left.
RunInOrder ==
    /\ \A i \in task.left : images[i] # None /\ images[i].attempts < MaxAttempts
    /\ task.at \in {"refresh", "put", "finalize", "compare"} => task.image \in task.left
    /\ task.at \in {"put", "finalize", "compare"} => task.image \in declared

\* URLs and verdicts exist only for images the server knows of.
UrlsDeclared ==
    /\ \A i \in Images : images[i] # None /\ images[i].url # "none" => i \in declared
    /\ late \subseteq declared

\* What the server has seen of a session comes after its capture.
SessionsInOrder ==
    \A s \in Sessions :
        /\ s \in stored \union sent \/ reply[s] # None \/ parked[s] # "no"
              => queue[s] \in {"queued", "synced"}
        /\ reply[s] \in {"accepted", "duplicate"} \/ parked[s] # "no" \/ queue[s] = "synced"
              => s \in stored

\* A stored session is declared, about to be, or was left half done.
StoredIsDeclared ==
    \A s \in Sessions :
        /\ s \in stored =>
              Queued(s) \subseteq declared \/ parked[s] # "no" \/ s \in abandoned
        /\ reply[s] = "accepted" => Queued(s) \subseteq declared

\* What the server found intact stays so, but for a corrupted repeat.
FoundIntact ==
    /\ \A i \in verified \union late : object[i] = "good" \/ i \in overwritten
    /\ task.at = "compare" => task.seen = object[task.image]
    /\ \A i \in Images : images[i] # None /\ i \notin files \union purged => i \in verified

Consistent ==
    TypeOK /\ RunInOrder /\ UrlsDeclared /\ SessionsInOrder /\ StoredIsDeclared /\ FoundIntact

USE EvidenceAssumption DEF ImageRow, States, Replies, Bytes

LEMMA InitConsistent == Init => Consistent
  BY DEF Init, Consistent, TypeOK, RunInOrder, UrlsDeclared, SessionsInOrder,
         StoredIsDeclared, FoundIntact, Idle, Queued, ImagesOf, Replies, Bytes

LEMMA StepConsistent == Consistent /\ [Next]_vars => Consistent'
<1> SUFFICES ASSUME Consistent, [Next]_vars PROVE Consistent'
  OBVIOUS
<1> USE DEF Consistent, TypeOK, RunInOrder, UrlsDeclared, SessionsInOrder,
            StoredIsDeclared, FoundIntact, phone, server, wire, history,
            ImageRow, States, Replies, Bytes, ImagesOf, Queued, Idle, Drain
<1>1. ASSUME NEW s \in Sessions, EnqueueImages(s) PROVE Consistent'
  BY <1>1 DEF EnqueueImages
<1>2. ASSUME NEW s \in Sessions, EnqueueSession(s) PROVE Consistent'
  BY <1>2 DEF EnqueueSession
<1>3. ASSUME NEW s \in Sessions, ReceiveDuplicate(s) \/ ReceiveRejected(s) PROVE Consistent'
  BY <1>3 DEF ReceiveDuplicate, ReceiveRejected, Reached, Reply
<1>4. ASSUME NEW s \in Sessions, ReceiveFailed(s) \/ ReceiveNew(s) PROVE Consistent'
  BY <1>4 DEF ReceiveFailed, ReceiveNew, Reached, Reply
<1>5. ASSUME NEW s \in Sessions, Declare(s) PROVE Consistent'
  BY <1>5 DEF Declare, Reply
<1>6. ASSUME NEW s \in Sessions, RecordReply(s) PROVE Consistent'
  BY <1>6 DEF RecordReply, Arrived, AttachUploadUrl, Answered
<1>7. CASE StartSync
  BY <1>7 DEF StartSync, NoReply
<1>8. CASE StartDrain
  BY <1>8 DEF StartDrain, Pending
<1>9. CASE EndDrain
  BY <1>9 DEF EndDrain
<1>10. ASSUME NEW i \in Images, Pick(i) PROVE Consistent'
  BY <1>10 DEF Pick
<1>11. ASSUME NEW i \in Images, Refreshed(i) PROVE Consistent'
  BY <1>11 DEF Refreshed, At, AttachUploadUrl
<1>12. ASSUME NEW i \in Images, AlreadyVerified(i) PROVE Consistent'
  BY <1>12 DEF AlreadyVerified, At, Delivered, NextImage
<1>13. ASSUME NEW i \in Images, UnknownScan(i) \/ Mismatch(i) \/ Refused(i) PROVE Consistent'
  BY <1>13 DEF UnknownScan, Mismatch, Refused, At, AttemptFailed, NextImage
<1>14. ASSUME NEW i \in Images, PutForbidden(i) PROVE Consistent'
  BY <1>14 DEF PutForbidden, At, AttemptFailed, NextImage
<1>15. ASSUME NEW i \in Images, Put(i) \/ PutCorrupted(i) \/ PutUnanswered(i)
       PROVE  Consistent'
  BY <1>15 DEF Put, PutCorrupted, PutUnanswered, Stored, At
<1>16. ASSUME NEW i \in Images, FileMissing(i) PROVE Consistent'
  BY <1>16 DEF FileMissing
<1>17. ASSUME NEW i \in Images, Stat(i) PROVE Consistent'
  BY <1>17 DEF Stat, At
<1>18. ASSUME NEW i \in Images, Finalized(i) PROVE Consistent'
  BY <1>18 DEF Finalized, At, Delivered, NextImage
<1>19. ASSUME NEW i \in Images, LateVerify(i) PROVE Consistent'
  BY <1>19 DEF LateVerify
<1>20. ASSUME NEW i \in Images, UrlDies(i) PROVE Consistent'
  BY <1>20 DEF UrlDies
<1>21. ASSUME NEW i \in Images, Purge(i) PROVE Consistent'
  BY <1>21 DEF Purge
<1>22. CASE UploadLost
  BY <1>22 DEF UploadLost, Pending, NoReply
<1>23. CASE Offline
  BY <1>23 DEF Offline, Orphaned
<1>24. CASE AppKilled
  BY <1>24 DEF AppKilled, Death, Orphaned, NoReply
<1>25. CASE ServerCrash
  BY <1>25 DEF ServerCrash, Death, Pending, NoReply
<1>26. CASE UNCHANGED vars
  BY <1>26 DEF vars
<1> QED
  <2> HIDE DEF Consistent
  <2> QED
    BY <1>1, <1>2, <1>3, <1>4, <1>5, <1>6, <1>7, <1>8, <1>9, <1>10, <1>11, <1>12, <1>13,
       <1>14, <1>15, <1>16, <1>17, <1>18, <1>19, <1>20, <1>21, <1>22, <1>23, <1>24, <1>25,
       <1>26
    DEF Next, LocalSession, LocalImage, RefreshAnswered, PutAnswered, FinalizeAnswered

LEMMA AlwaysConsistent == Spec => []Consistent
  BY InitConsistent, StepConsistent, PTL DEF Spec

-----------------------------------------------------------------------------
(***************************************************************************)
(* The queue's bookkeeping is typed: above all, no image is ever attempted *)
(* more than MaxAttempts times (getPendingImages, markImageAttemptFailed). *)
(***************************************************************************)
THEOREM TypeCorrect == Spec => []TypeOK
<1>1. Consistent => TypeOK
  BY DEF Consistent
<1> QED
  BY <1>1, AlwaysConsistent, PTL

(***************************************************************************)
(* A queued photograph is on the phone, or intact in the store, unless a   *)
(* corrupted repeat replaced verified bytes: discardLocalImage runs only   *)
(* after the server has found the stored bytes intact.                     *)
(***************************************************************************)
THEOREM NoPhotographLost == Spec => []EvidenceNotLost
<1>1. Consistent => EvidenceNotLost
  BY DEF Consistent, TypeOK, FoundIntact, EvidenceNotLost
<1> QED
  BY <1>1, AlwaysConsistent, PTL

(***************************************************************************)
(* A session off the phone's queue has its images declared, or a request   *)
(* about to declare them, or was left half done by one that died: what     *)
(* 'accepted' and 'duplicate' mean to runSync.                             *)
(***************************************************************************)
THEOREM SyncedIsDeclared == Spec => []SyncedMeansDeclared
<1>1. Consistent => SyncedMeansDeclared
  BY DEF Consistent, SessionsInOrder, StoredIsDeclared, SyncedMeansDeclared
<1> QED
  BY <1>1, AlwaysConsistent, PTL
=============================================================================
