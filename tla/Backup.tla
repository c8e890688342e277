------------------------------- MODULE Backup -------------------------------
(***************************************************************************)
(* Backup and restore (backup.ts).  A process of its own copies the        *)
(* database, as one consistent snapshot, and then the evidence files one   *)
(* by one, while the server goes on storing and verifying uploads; the     *)
(* manifest records what was copied and whether every verified image is    *)
(* among it.  A restore copies a backup to a fresh directory and checks it *)
(* again.  Either process may be killed, and a kept backup may rot.        *)
(*                                                                         *)
(* The server writes a file in place, in one go of its own thread, so only *)
(* another process, or its death, can meet a file half written.            *)
(***************************************************************************)
CONSTANTS
    Keys,       \* keys of scan images and documents
    Database,   \* the backup's database file
    None

\* A file's bytes: as declared, others, half written, or changed on disk later.
Bytes == {"absent", "good", "bad", "torn", "rotten"}
Files == [Keys -> Bytes]
Phases == {"none", "first", "second", "manifest", "done", "killed"}

ASSUME BackupAssumption == None \notin Keys /\ Database \notin Keys

VARIABLES
    disk,       \* server: the storage directory
    writing,    \* server: the key being written, and with what
    verified,   \* server: keys of rows with verified = 1
    rewritten,  \* history: keys written again after they were verified
    phase,      \* the newest backup run
    refs,       \* its copy of the database: verified keys
    left,       \* keys the file copy has not come to
    files,      \* its copy of the evidence
    recorded,   \* its manifest: the files and their hashes
    status,     \* its manifest: status
    rotted,     \* history: what of the kept backup has changed since
    stage,      \* the restore target: "none", "copied" or "checked"
    found,      \* verified keys of the database restored there
    target,     \* the evidence restored there
    ok          \* the result of the restore

server == <<disk, writing, verified, rewritten>>
backup == <<phase, refs, left, files, recorded, status, rotted>>
restore == <<stage, found, target, ok>>
vars == <<server, backup, restore>>

NoFiles == [k \in Keys |-> "absent"]

TypeOK ==
    /\ disk \in Files
    /\ writing \in {None} \union Keys
    /\ verified \subseteq Keys /\ rewritten \subseteq verified
    /\ phase \in Phases
    /\ refs \subseteq Keys /\ left \subseteq Keys
    /\ files \in Files /\ recorded \in Files
    /\ status \in {"none", "ok", "incomplete"}
    /\ rotted \subseteq Keys \union {Database}
    /\ stage \in {"none", "copied", "checked"}
    /\ found \subseteq Keys
    /\ target \in Files
    /\ ok \in BOOLEAN

Init ==
    /\ disk = NoFiles /\ writing = None
    /\ verified = {} /\ rewritten = {}
    /\ phase = "none" /\ refs = {} /\ left = {}
    /\ files = NoFiles /\ recorded = NoFiles
    /\ status = "none" /\ rotted = {}
    /\ stage = "none" /\ found = {} /\ target = NoFiles /\ ok = FALSE

-----------------------------------------------------------------------------
(***************************************************************************)
(* The server: PUT /v1/storage, a token serving again and again until it   *)
(* expires, and finalizeScanImage or finalizeDocument.                     *)
(***************************************************************************)
WriteBegins(k) ==
    /\ writing = None
    /\ writing' = k
    /\ disk' = [disk EXCEPT ![k] = "torn"]
    /\ rewritten' = rewritten \union (verified \intersect {k})
    /\ UNCHANGED <<verified, backup, restore>>

WriteEnds(bytes) ==
    /\ writing # None
    /\ disk' = [disk EXCEPT ![writing] = bytes]
    /\ writing' = None
    /\ UNCHANGED <<verified, rewritten, backup, restore>>

ServerDies ==
    /\ writing # None
    /\ writing' = None
    /\ UNCHANGED <<disk, verified, rewritten, backup, restore>>

\* A mismatch is logged and changes nothing else.
Finalize(k) ==
    /\ writing = None
    /\ disk[k] = "good"
    /\ verified' = verified \union {k}
    /\ UNCHANGED <<disk, writing, rewritten, backup, restore>>

-----------------------------------------------------------------------------
(***************************************************************************)
(* createBackup.                                                           *)
(***************************************************************************)
\* Mutant: the evidence is copied before the database.
Copied_EvidenceFirst(p) == IF p = "first" THEN "evidence" ELSE "database"

Copied(p) == IF p = "first" THEN "database" ELSE "evidence"

CopiedNow(half) == phase \in {"first", "second"} /\ Copied(phase) = half
Later == IF phase = "first" THEN "second" ELSE "manifest"

\* Every run has a directory of its own; the one before is not looked at again,
\* and no new one starts while it is being restored.
StartBackup ==
    /\ phase \in {"none", "done", "killed"}
    /\ stage = "none"
    /\ phase' = "first" /\ refs' = {} /\ left' = Keys
    /\ files' = NoFiles /\ recorded' = NoFiles
    /\ status' = "none" /\ rotted' = {}
    /\ UNCHANGED <<server, restore>>

CopyDatabase ==
    /\ CopiedNow("database")
    /\ refs' = verified
    /\ phase' = Later
    /\ UNCHANGED <<left, files, recorded, status, rotted, server, restore>>

CopyFile(k) ==
    /\ CopiedNow("evidence")
    /\ k \in left
    /\ files' = [files EXCEPT ![k] = disk[k]]
    /\ left' = left \ {k}
    /\ UNCHANGED <<phase, refs, recorded, status, rotted, server, restore>>

EvidenceCopied ==
    /\ CopiedNow("evidence")
    /\ left = {}
    /\ phase' = Later
    /\ UNCHANGED <<refs, left, files, recorded, status, rotted, server, restore>>

\* Mutant: the manifest hashes the live files.
Hashed_Live == disk

Hashed == files

Lost(copy) == {k \in refs : copy[k] # "good"}   \* missing or mismatched

Status(copy) == IF Lost(copy) = {} THEN "ok" ELSE "incomplete"

WriteManifest ==
    /\ phase = "manifest"
    /\ recorded' = Hashed
    /\ status' = Status(Hashed)
    /\ phase' = "done"
    /\ UNCHANGED <<refs, left, files, rotted, server, restore>>

BackupKilled ==
    /\ phase \in {"first", "second", "manifest"}
    /\ phase' = "killed"
    /\ UNCHANGED <<refs, left, files, recorded, status, rotted, server, restore>>

-----------------------------------------------------------------------------
(***************************************************************************)
(* While the backup is kept, files are lost or changed.  A change during a *)
(* restore shows in the next one.                                          *)
(***************************************************************************)
Rot(k, bytes) ==
    /\ phase = "done" /\ stage = "none"
    /\ files[k] # "absent"
    /\ files' = [files EXCEPT ![k] = bytes]
    /\ rotted' = rotted \union {k}
    /\ UNCHANGED <<phase, refs, left, recorded, status, server, restore>>

DatabaseRots ==
    /\ phase = "done" /\ stage = "none"
    /\ rotted' = rotted \union {Database}
    /\ UNCHANGED <<phase, refs, left, files, recorded, status, server, restore>>

-----------------------------------------------------------------------------
(***************************************************************************)
(* restoreBackup, into a directory that must not exist.                    *)
(***************************************************************************)
RestoreCopies ==
    /\ phase = "done"
    /\ stage = "none"
    /\ stage' = "copied"
    /\ target' = files
    /\ found' \in (IF Database \in rotted THEN SUBSET Keys ELSE {refs})
    /\ UNCHANGED <<ok, server, backup>>

\* Mutant: only the relationship with the database is checked.
AsRecorded_Referenced == \A k \in found : target[k] = recorded[k]

\* Every file of the manifest is there with its hash.
AsRecorded == \A k \in Keys : recorded[k] # "absent" => target[k] = recorded[k]

\* Every verified record of the restored database has its image.
Related == \A k \in found : target[k] = "good"

\* PRAGMA integrity_check passes on what was written, and may pass on what was
\* changed later: the database's hash in the manifest is not looked at.
RestoreChecks(sound) ==
    /\ stage = "copied"
    /\ sound \/ Database \in rotted
    /\ stage' = "checked"
    /\ ok' = (sound /\ AsRecorded /\ Related)
    /\ UNCHANGED <<found, target, server, backup>>

\* A target, checked or left by a killed restore, is removed by hand.
RemoveTarget ==
    /\ stage # "none"
    /\ stage' = "none" /\ found' = {} /\ target' = NoFiles /\ ok' = FALSE
    /\ UNCHANGED <<server, backup>>

-----------------------------------------------------------------------------
Next ==
    \/ \E k \in Keys : WriteBegins(k) \/ Finalize(k) \/ CopyFile(k)
    \/ \E bytes \in {"good", "bad"} : WriteEnds(bytes)
    \/ ServerDies
    \/ StartBackup \/ CopyDatabase \/ EvidenceCopied \/ WriteManifest \/ BackupKilled
    \/ \E k \in Keys, bytes \in {"absent", "rotten"} : Rot(k, bytes)
    \/ DatabaseRots
    \/ RestoreCopies \/ RemoveTarget
    \/ \E sound \in BOOLEAN : RestoreChecks(sound)

Spec == Init /\ [][Next]_vars

-----------------------------------------------------------------------------
(***************************************************************************)
(* A backup taken while uploads are stored and verified misses a verified  *)
(* image only if that image was written again after its verification: what *)
(* is new during the run is never the reason ("a backup can run at any     *)
(* time", backup.ts).                                                      *)
(***************************************************************************)
IncompleteOnlyIfRewritten ==
    phase = "done" /\ status = "incomplete" => refs \intersect rewritten # {}

(***************************************************************************)
(* A restore that reports ok holds the files the manifest lists, unchanged *)
(* however long the backup was kept; and if the database kept too, an      *)
(* incomplete backup never passes: every image it counts as verified is    *)
(* there as declared.                                                      *)
(***************************************************************************)
RestoredIsWhole ==
    stage = "checked" /\ ok =>
        /\ target = recorded
        /\ Database \notin rotted =>
              status = "ok" /\ \A k \in refs : target[k] = "good"

(***************************************************************************)
(* An ok backup that has not rotted restores, and restores ok.             *)
(***************************************************************************)
OkBackupRestores ==
    stage = "checked" /\ status = "ok" /\ rotted = {} => ok
=============================================================================
