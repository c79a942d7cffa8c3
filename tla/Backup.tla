-------------------------------- MODULE Backup --------------------------------
(***************************************************************************)
(* The database snapshot command: copy into a private stage, verify, and   *)
(* publish by an exclusive hard link; and the verification of a file that  *)
(* others may write.  Commands run side by side and may be killed.         *)
(***************************************************************************)
EXTENDS Naturals, FiniteSets

CONSTANTS
  Runs,        \* backup commands
  Missing,
  Partial,     \* a stage that is not a database yet
  MaxVersions  \* bound: commits to the source, writes to the file

ASSUME BackupAssumption ==
  /\ MaxVersions \in Nat
  /\ Missing \notin Nat /\ Partial \notin Nat /\ Missing # Partial

VARIABLES
  source,      \* the source database: number of its last commit
  stages,      \* per run: its step and its stage file
  target,      \* the destination: the version copied there, or Missing
  whole,       \* ghost: the first whole copy that took the target's name
  file,        \* content of a standalone file that is being verified
  look         \* the verification under way or done

backupVars == <<source, stages, target, whole, file, look>>

NoStage == [step |-> "idle", copy |-> Missing]

NoLook == [step |-> "none", stat |-> 0, checked |-> 0, hashed |-> 0]

BackupInit ==
  /\ source = 0
  /\ stages = [r \in Runs |-> NoStage]
  /\ target = Missing /\ whole = Missing
  /\ file = 0 /\ look = NoLook

To(r, step) == stages' = [stages EXCEPT ![r].step = step]

(* The destination must not exist; a stage is made beside it.              *)
Stage(r) ==
  /\ stages[r].step = "idle" /\ target = Missing
  /\ stages' = [stages EXCEPT ![r] = [step |-> "staged", copy |-> Partial]]
  /\ UNCHANGED <<source, target, whole, file, look>>

(* The online backup copies pages until it has one committed version.      *)
Copy(r) ==
  /\ stages[r].step = "staged"
  /\ stages' = [stages EXCEPT ![r] = [step |-> "copied", copy |-> source]]
  /\ UNCHANGED <<source, target, whole, file, look>>

(* verify_database of the stage, then its fsync.                           *)
VerifyStage(r) ==
  /\ stages[r].step = "copied"
  /\ To(r, "verified")
  /\ UNCHANGED <<source, target, whole, file, look>>

Publish(r) ==
  /\ target' = stages[r].copy
  /\ whole' = IF whole = Missing THEN stages[r].copy ELSE whole

(* Faulty: the stage is renamed over the destination.                      *)
Rename(r) ==
  /\ stages[r].step = "verified"
  /\ Publish(r)
  /\ To(r, "cleanup")
  /\ UNCHANGED <<source, file, look>>

(* os.link fails when the name is taken.                                   *)
Link(r) ==
  /\ stages[r].step = "verified"
  /\ IF target = Missing THEN Publish(r) ELSE UNCHANGED <<target, whole>>
  /\ To(r, "cleanup")
  /\ UNCHANGED <<source, file, look>>

(* A step raises: missing tables, a failed check, an I/O error.            *)
StepFails(r) ==
  /\ stages[r].step \in {"staged", "copied", "verified"}
  /\ To(r, "cleanup")
  /\ UNCHANGED <<source, target, whole, file, look>>

(* The `finally` clause removes the stage.                                 *)
Unlink(r) ==
  /\ stages[r].step = "cleanup"
  /\ stages' = [stages EXCEPT ![r] = [step |-> "done", copy |-> Missing]]
  /\ UNCHANGED <<source, target, whole, file, look>>

(* The command is killed; its stage file stays behind.                     *)
Kill(r) ==
  /\ stages[r].step \notin {"idle", "done", "killed"}
  /\ To(r, "killed")
  /\ UNCHANGED <<source, target, whole, file, look>>

Commit ==
  /\ source < MaxVersions
  /\ source' = source + 1
  /\ UNCHANGED <<stages, target, whole, file, look>>

-------------------------------------------------------------------------------
(* verify_database on a file: its status, the integrity check, the digest, *)
(* and the status again.  Every write changes the status.                  *)
LookStat ==
  /\ look.step \in {"none", "reported"}
  /\ look' = [step |-> "check", stat |-> file, checked |-> 0, hashed |-> 0]
  /\ UNCHANGED <<source, stages, target, whole, file>>

LookCheck ==
  /\ look.step = "check"
  /\ look' = [look EXCEPT !.step = "hash", !.checked = file]
  /\ UNCHANGED <<source, stages, target, whole, file>>

LookHash ==
  /\ look.step = "hash"
  /\ look' = [look EXCEPT !.step = "compare", !.hashed = file]
  /\ UNCHANGED <<source, stages, target, whole, file>>

LookAgain == look' = IF look.stat = file THEN [look EXCEPT !.step = "reported"] ELSE NoLook

LookCompare ==
  /\ look.step = "compare"
  /\ LookAgain
  /\ UNCHANGED <<source, stages, target, whole, file>>

WriteFile ==
  /\ file < MaxVersions
  /\ file' = file + 1
  /\ UNCHANGED <<source, stages, target, whole, look>>

BackupNext ==
  \/ \E r \in Runs : \/ Stage(r) \/ Copy(r) \/ VerifyStage(r) \/ Link(r)
                     \/ StepFails(r) \/ Unlink(r) \/ Kill(r)
  \/ Commit
  \/ LookStat \/ LookCheck \/ LookHash \/ LookCompare \/ WriteFile

BackupSpec == BackupInit /\ [][BackupNext]_backupVars

-------------------------------------------------------------------------------
(* Whatever runs side by side, fails or is killed: the destination is, if  *)
(* there, the first whole copy published under its name, and a report of a *)
(* verification speaks of one content of its file.                         *)
BackupsAreWhole ==
  /\ target = whole /\ target # Partial
  /\ look.step = "reported" => look.checked = look.hashed
===============================================================================
