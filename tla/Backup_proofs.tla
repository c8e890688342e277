--------------------------- MODULE Backup_proofs ---------------------------
(***************************************************************************)
(* Proofs about Backup, for any number of files: a run is incomplete only  *)
(* for an image written again, a restore that says ok is whole, and an ok  *)
(* backup that did not rot restores ok.                                    *)
(***************************************************************************)
EXTENDS Backup, TLAPS

\* What was verified lies there as declared until it is written again.
VerifiedOnDisk ==
    /\ writing # None => disk[writing] = "torn"
    /\ \A k \in verified : disk[k] = "good" \/ k \in rewritten

\* The database is copied first, so each of its images was there to copy.
CopyInOrder ==
    /\ refs \subseteq verified
    /\ phase = "first" => left = Keys
    /\ phase = "manifest" => left = {}
    /\ phase \in {"second", "manifest"} =>
          \A k \in refs \ left : files[k] = "good" \/ k \in rewritten

\* The kept copy is what the manifest says until it rots, and nothing absent does.
KeptAsRecorded ==
    phase = "done" =>
          /\ \A k \in Keys : recorded[k] = "absent" => files[k] = "absent"
          /\ rotted = {} => files = recorded

ManifestTrue ==
    phase = "done" =>
        /\ status = "ok" => \A k \in refs : recorded[k] = "good"
        /\ status # "ok" => \E k \in refs : recorded[k] # "good"
        /\ \A k \in refs : recorded[k] = "good" \/ k \in rewritten

StageOfManifest ==
    stage # "none" =>
        /\ phase = "done"
        /\ \A k \in Keys : recorded[k] = "absent" => target[k] = "absent"
        /\ rotted = {} => target = recorded
        /\ Database \notin rotted => found = refs

Consistent ==
    /\ TypeOK /\ VerifiedOnDisk /\ CopyInOrder /\ KeptAsRecorded
    /\ ManifestTrue /\ StageOfManifest
    /\ RestoredIsWhole /\ OkBackupRestores

USE BackupAssumption DEF Bytes, Files, Phases

LEMMA InitConsistent == Init => Consistent
  BY DEF Init, Consistent, TypeOK, VerifiedOnDisk, CopyInOrder, KeptAsRecorded, ManifestTrue,
         StageOfManifest, RestoredIsWhole, OkBackupRestores, NoFiles

LEMMA StepConsistent == Consistent /\ [Next]_vars => Consistent'
<1> SUFFICES ASSUME Consistent, [Next]_vars PROVE Consistent'
  OBVIOUS
<1> USE DEF Consistent, TypeOK, VerifiedOnDisk, CopyInOrder, KeptAsRecorded, ManifestTrue,
            StageOfManifest, RestoredIsWhole, OkBackupRestores, server, backup, restore
<1>1. ASSUME NEW k \in Keys, WriteBegins(k) PROVE Consistent'
  BY <1>1 DEF WriteBegins
<1>2. ASSUME NEW k \in Keys, Finalize(k) PROVE Consistent'
  BY <1>2 DEF Finalize
<1>3. ASSUME NEW k \in Keys, CopyFile(k) PROVE Consistent'
  BY <1>3 DEF CopyFile, CopiedNow, Copied
<1>4. ASSUME NEW bytes \in {"good", "bad"}, WriteEnds(bytes) PROVE Consistent'
  BY <1>4 DEF WriteEnds
<1>5. CASE ServerDies
  BY <1>5 DEF ServerDies
<1>6. CASE StartBackup
  BY <1>6 DEF StartBackup, NoFiles
<1>7. CASE CopyDatabase
  BY <1>7 DEF CopyDatabase, CopiedNow, Copied, Later
<1>8. CASE EvidenceCopied
  BY <1>8 DEF EvidenceCopied, CopiedNow, Copied, Later
<1>9. CASE WriteManifest
  BY <1>9 DEF WriteManifest, Hashed, Status, Lost
<1>10. CASE BackupKilled
  BY <1>10 DEF BackupKilled
<1>11. ASSUME NEW k \in Keys, NEW bytes \in {"absent", "rotten"}, Rot(k, bytes)
       PROVE  Consistent'
  BY <1>11 DEF Rot
<1>12. CASE DatabaseRots
  BY <1>12 DEF DatabaseRots
<1>13. CASE RestoreCopies
  BY <1>13 DEF RestoreCopies
<1>14. ASSUME NEW sound \in BOOLEAN, RestoreChecks(sound) PROVE Consistent'
  <2> USE <1>14 DEF RestoreChecks
  <2>1. stage = "copied" /\ stage' = "checked" /\ phase = "done"
    OBVIOUS
  <2>2. TypeOK' /\ VerifiedOnDisk' /\ CopyInOrder' /\ KeptAsRecorded' /\ ManifestTrue'
    OBVIOUS
  <2>3. StageOfManifest'
    BY <2>1
  <2>4. ASSUME ok' PROVE target = recorded
    <3>1. target \in Files /\ recorded \in Files
      OBVIOUS
    <3>2. \A k \in Keys : target[k] = recorded[k]
      BY <2>4 DEF AsRecorded
    <3> QED
      BY <3>1, <3>2
  <2>5. ASSUME ok', Database \notin rotted PROVE \A k \in refs : target[k] = "good"
    BY <2>5 DEF Related
  <2>6. ASSUME ok', Database \notin rotted PROVE status = "ok"
    BY <2>1, <2>4, <2>5, <2>6
  <2>7. RestoredIsWhole'
    BY <2>4, <2>5, <2>6
  <2>8. ASSUME status = "ok", rotted = {} PROVE ok'
    <3>1. target = recorded /\ found = refs /\ sound
      BY <2>1, <2>8
    <3>2. AsRecorded /\ Related
      BY <2>1, <2>8, <3>1 DEF AsRecorded, Related
    <3> QED
      BY <3>1, <3>2
  <2>9. OkBackupRestores'
    BY <2>8
  <2> QED
    BY <2>2, <2>3, <2>7, <2>9
<1>15. CASE RemoveTarget
  BY <1>15 DEF RemoveTarget, NoFiles
<1>16. CASE UNCHANGED vars
  BY <1>16 DEF vars
<1> QED
  BY <1>1, <1>2, <1>3, <1>4, <1>5, <1>6, <1>7, <1>8, <1>9, <1>10, <1>11, <1>12,
     <1>13, <1>14, <1>15, <1>16 DEF Next

LEMMA AlwaysConsistent == Spec => []Consistent
  BY InitConsistent, StepConsistent, PTL DEF Spec

-----------------------------------------------------------------------------
(***************************************************************************)
(* Type correctness of every file, copy, manifest and restore target.      *)
(***************************************************************************)
THEOREM TypeCorrect == Spec => []TypeOK
<1>1. Consistent => TypeOK
  BY DEF Consistent
<1> QED
  BY <1>1, AlwaysConsistent, PTL

(***************************************************************************)
(* createBackup may run beside uploads and verifications: an incomplete    *)
(* run points at an image that was written again after it was verified.    *)
(***************************************************************************)
THEOREM IncompleteMeansRewritten == Spec => []IncompleteOnlyIfRewritten
<1>1. Consistent => IncompleteOnlyIfRewritten
  <2> SUFFICES ASSUME Consistent, phase = "done", status = "incomplete"
               PROVE  refs \intersect rewritten # {}
    BY DEF IncompleteOnlyIfRewritten
  <2>1. PICK k \in refs : recorded[k] # "good"
    BY DEF Consistent, ManifestTrue
  <2>2. k \in rewritten
    BY <2>1 DEF Consistent, ManifestTrue
  <2> QED
    BY <2>1, <2>2
<1> QED
  BY <1>1, AlwaysConsistent, PTL

(***************************************************************************)
(* restoreBackup reports ok only over the files the manifest lists,        *)
(* unchanged, and never for an incomplete backup with its own database.    *)
(***************************************************************************)
THEOREM WholeRestore == Spec => []RestoredIsWhole
<1>1. Consistent => RestoredIsWhole
  BY DEF Consistent
<1> QED
  BY <1>1, AlwaysConsistent, PTL

(***************************************************************************)
(* An ok backup that was kept unharmed always restores, and restores ok.   *)
(***************************************************************************)
THEOREM OkRestores == Spec => []OkBackupRestores
<1>1. Consistent => OkBackupRestores
  BY DEF Consistent
<1> QED
  BY <1>1, AlwaysConsistent, PTL

=============================================================================
