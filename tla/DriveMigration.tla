--------------------------- MODULE DriveMigration --------------------------
(***************************************************************************)
(* Folder drive migrations: RequestDriveMigration and the background job   *)
(* runDriveMigration, which relocates the files of a folder's subtree to   *)
(* another drive one by one - copy, remove the source, update the row -    *)
(* while the handlers of FileStore keep running.                           *)
(*                                                                         *)
(* The job's status is a row of folder_drive_migrations; everything else   *)
(* lives in the goroutine and dies with the process.  There is no restart  *)
(* of an interrupted job.                                                  *)
(***************************************************************************)
EXTENDS FileStore

CONSTANTS
  Jobs,        \* migration requests
  FolderOf,    \* the folder each asks to move
  Subtree      \* the files below each folder

ASSUME DriveMigrationAssumption ==
  \A j \in Jobs : Subtree[FolderOf[j]] \subseteq Files

VARIABLES
  mstatus,     \* folder_drive_migrations.status; "none" = no row
  mpc,         \* the request's, then the goroutine's, next step
  mto,         \* destination drive
  mtodo,       \* <<file, drive>> pairs listed and not yet visited
  mcur,        \* the pair being moved
  unrecorded   \* history: files whose source was removed when the job stopped

migVars == <<mstatus, mpc, mto, mtodo, mcur, unrecorded>>

NoMove == <<NoFile, NoDrive>>

(* Forms these operators would take in a faulty program.                   *)
AbortSilently(j) == mpc' = [mpc EXCEPT ![j] = "over"]
AbortAsStatus(j) == mpc' = [mpc EXCEPT ![j] = "failed"]
SourceAtDestination(j) == mto[j]
RecordedNothing(j) == drive

(* Pending or in_progress.                                                 *)
Active(j) == mstatus[j] = "active"

(* The row read with the listing says the file is on the destination.      *)
AlreadyThere(j, t) == t[2] = mto[j]

(* The drive RemoveObject is sent to: the one the row named when listed.   *)
Source(j) == mcur[j][2]

(* SetFileDriveID: by id, whatever the row says by now.                    *)
Recorded(j) ==
  [f \in Files |-> IF f = mcur[j][1] /\ f \in Rows THEN mto[j] ELSE drive[f]]

MigrationIdle ==
  /\ mstatus = [j \in Jobs |-> "none"]
  /\ mpc = [j \in Jobs |-> "new"]
  /\ mto = [j \in Jobs |-> NoDrive]
  /\ mtodo = [j \in Jobs |-> {}]
  /\ mcur = [j \in Jobs |-> NoMove]
  /\ unrecorded = {}

(* The job leaves the happy path; markFailed is still to come.             *)
Abort(j) == mpc' = [mpc EXCEPT ![j] = "fail"]

(* GetPendingOrInProgressFolderDriveMigration finds no other for the       *)
(* folder - and only for that folder, not for one above or below it.       *)
RequestCheck(j) ==
  /\ mpc[j] = "new"
  /\ \A k \in Jobs : FolderOf[k] = FolderOf[j] => ~Active(k)
  /\ mpc' = [mpc EXCEPT ![j] = "checked"]
  /\ UNCHANGED <<mstatus, mto, mtodo, mcur, unrecorded>>
  /\ UNCHANGED allStoreVars

(* CreateFolderDriveMigration, commit, and the goroutine starts.           *)
RequestCreate(j) ==
  /\ mpc[j] = "checked"
  /\ \/ /\ mstatus' = [mstatus EXCEPT ![j] = "active"]
        /\ mpc' = [mpc EXCEPT ![j] = "list"]
        /\ \E d \in Drives : mto' = [mto EXCEPT ![j] = d]
        /\ UNCHANGED faults
     \/ /\ Fault
        /\ mpc' = [mpc EXCEPT ![j] = "over"] /\ UNCHANGED <<mstatus, mto>>
  /\ UNCHANGED <<mtodo, mcur, unrecorded>>
  /\ UNCHANGED <<storeVars, handlerVars, crashes, acked, dropped>>

(* ListFilesInFolderSubtree, markMigrationInProgress.                      *)
MigrateList(j) ==
  /\ mpc[j] = "list"
  /\ \/ /\ mpc' = [mpc EXCEPT ![j] = "next"]
        /\ mtodo' = [mtodo EXCEPT ![j] = {<<f, drive[f]>> : f \in Subtree[FolderOf[j]] \cap Rows}]
        /\ UNCHANGED faults
     \/ Fault /\ Abort(j) /\ UNCHANGED mtodo
  /\ UNCHANGED <<mstatus, mto, mcur, unrecorded>>
  /\ UNCHANGED <<storeVars, handlerVars, crashes, acked, dropped>>

(* The next file: nothing to copy, or GetObject, read to the end, from the *)
(* drive the listing named - or from the primary when storageForFile       *)
(* cannot resolve that drive.                                              *)
MigrateNext(j, t) ==
  /\ mpc[j] = "next" /\ t \in mtodo[j]
  /\ mtodo' = [mtodo EXCEPT ![j] = @ \ {t}]
  /\ \/ /\ AlreadyThere(j, t)
        /\ mcur' = [mcur EXCEPT ![j] = t]
        /\ mpc' = [mpc EXCEPT ![j] = "record"] /\ UNCHANGED faults
     \/ /\ ~AlreadyThere(j, t)
        /\ \E source \in {t[2], Primary} :
             /\ IF source = t[2] THEN UNCHANGED faults ELSE Fault
             /\ mcur' = [mcur EXCEPT ![j] = <<t[1], source>>]
             /\ IF Main(t[1]) \in bucket[source]
                  THEN mpc' = [mpc EXCEPT ![j] = "put"] ELSE Abort(j)
     \/ ~AlreadyThere(j, t) /\ Fault /\ Abort(j) /\ UNCHANGED mcur
  /\ UNCHANGED <<mstatus, mto, unrecorded>>
  /\ UNCHANGED <<storeVars, handlerVars, crashes, acked, dropped>>

(* PutObject on the destination; after an error the object may be there.   *)
MigratePut(j) ==
  /\ mpc[j] = "put"
  /\ \/ mpc' = [mpc EXCEPT ![j] = "remove"] /\ UNCHANGED faults
     \/ Fault /\ Abort(j)
  /\ \/ /\ bucket' = With(Main(mcur[j][1]), mto[j])
        /\ recentObj' = recentObj \cup {<<mto[j], Main(mcur[j][1])>>}
     \/ faults' # faults /\ UNCHANGED <<bucket, recentObj>>
  /\ UNCHANGED <<mstatus, mto, mtodo, mcur, unrecorded>>
  /\ UNCHANGED <<drive, variantRow, recentRow, used, quota, handlerVars, crashes, acked, dropped>>

(* RemoveObject on the source.  An error is logged and the job goes on.     *)
MigrateRemove(j) ==
  /\ mpc[j] = "remove"
  /\ mpc' = [mpc EXCEPT ![j] = "record"]
  /\ \/ bucket' = Without(Main(mcur[j][1]), Source(j)) /\ UNCHANGED faults
     \/ Fault /\ bucket' \in {bucket, Without(Main(mcur[j][1]), Source(j))}
  /\ UNCHANGED <<mstatus, mto, mtodo, mcur, unrecorded>>
  /\ UNCHANGED <<recentObj, drive, variantRow, recentRow, used, quota, handlerVars, crashes,
                 acked, dropped>>

(* recordFileMovedAndProgress.  A failing commit may have happened.        *)
MigrateRecord(j) ==
  /\ mpc[j] = "record"
  /\ mcur' = [mcur EXCEPT ![j] = NoMove]
  /\ \/ /\ drive' = Recorded(j) /\ mpc' = [mpc EXCEPT ![j] = "next"]
        /\ UNCHANGED <<faults, unrecorded>>
     \/ /\ Fault /\ Abort(j)
        /\ \/ drive' = Recorded(j) /\ UNCHANGED unrecorded
           \/ UNCHANGED drive /\ unrecorded' = unrecorded \cup {mcur[j][1]}
  /\ UNCHANGED <<mstatus, mto, mtodo>>
  /\ UNCHANGED <<bucket, recentObj, variantRow, recentRow, used, quota, handlerVars, crashes,
                 acked, dropped>>

(* completeMigration.                                                      *)
MigrateFinish(j) ==
  /\ mpc[j] = "next" /\ mtodo[j] = {}
  /\ \/ /\ mstatus' = [mstatus EXCEPT ![j] = "completed"]
        /\ mpc' = [mpc EXCEPT ![j] = "over"] /\ UNCHANGED faults
     \/ Fault /\ Abort(j) /\ UNCHANGED mstatus
  /\ UNCHANGED <<mto, mtodo, mcur, unrecorded>>
  /\ UNCHANGED <<storeVars, handlerVars, crashes, acked, dropped>>

(* markMigrationFailed.  A failure is logged; the row stays active.        *)
MigrateFail(j) ==
  /\ mpc[j] = "fail"
  /\ mtodo' = [mtodo EXCEPT ![j] = {}]
  /\ mcur' = [mcur EXCEPT ![j] = NoMove]
  /\ \/ /\ mstatus' = [mstatus EXCEPT ![j] = "failed"]
        /\ mpc' = [mpc EXCEPT ![j] = "over"] /\ UNCHANGED faults
     \/ /\ Fault
        /\ mpc' = [mpc EXCEPT ![j] = "stuck"] /\ UNCHANGED mstatus
  /\ UNCHANGED <<mto, unrecorded>>
  /\ UNCHANGED <<storeVars, handlerVars, crashes, acked, dropped>>

MigrateStep(j) ==
  \/ MigrateList(j) \/ (\E t \in mtodo[j] : MigrateNext(j, t)) \/ MigratePut(j)
  \/ MigrateRemove(j) \/ MigrateRecord(j) \/ MigrateFinish(j) \/ MigrateFail(j)

(* With the process, every goroutine and every request dies.               *)
JobsDie ==
  /\ unrecorded' = unrecorded \cup {mcur[j][1] : j \in {k \in Jobs : mpc[k] = "record"}}
  /\ mpc' = [j \in Jobs |-> IF mpc[j] = "new" THEN "new" ELSE "over"]
  /\ mtodo' = [j \in Jobs |-> {}]
  /\ mcur' = [j \in Jobs |-> NoMove]
  /\ UNCHANGED <<mstatus, mto>>

MigrationInit == StoreInit /\ MigrationIdle

MigrationStep == \E j \in Jobs : RequestCheck(j) \/ RequestCreate(j) \/ MigrateStep(j)

MigrationNext ==
  \/ HandlerStep /\ UNCHANGED migVars
  \/ (\E f \in Files : Age(f)) /\ UNCHANGED migVars
  \/ HandlersDie /\ JobsDie
  \/ MigrationStep

migrationVars == <<allStoreVars, migVars>>

MigrationSpec == MigrationInit /\ [][MigrationNext]_migrationVars

(* A goroutine that has been started runs.                                 *)
MigrationFairSpec == MigrationSpec /\ \A j \in Jobs : WF_migrationVars(MigrateStep(j))

----------------------------------------------------------------------------
(* Type invariant of the jobs.                                             *)
MigrationTypeOK ==
  /\ mstatus \in [Jobs -> {"none", "active", "completed", "failed"}]
  /\ mpc \in [Jobs -> {"new", "checked", "list", "next", "put", "remove", "record",
                    "fail", "stuck", "over"}]
  /\ mto \in [Jobs -> Drives \cup {NoDrive}]
  /\ mtodo \in [Jobs -> SUBSET (Files \X Drives)]
  /\ mcur \in [Jobs -> (Files \X Drives) \cup {NoMove}]
  /\ unrecorded \subseteq Files

Wanted == acked \ dropped

Started(j) == mpc[j] \notin {"new", "checked"}
OneJobStarted == \A i, j \in Jobs : Started(i) /\ Started(j) => i = j

(* Until a second job starts, a wanted file is readable except between the *)
(* removal of its source and the update of its row - and after a job       *)
(* stopped just there, which then does not say that it completed.          *)
ReadableUnlessMoving ==
  OneJobStarted =>
    \A f \in Wanted :
      \/ Readable(f)
      \/ \E j \in Jobs : mcur[j][1] = f /\ mpc[j] = "record"
      \/ f \in unrecorded /\ \A j \in Jobs : mstatus[j] # "completed"

(* A job that runs comes to an end, and says so - unless the statement     *)
(* that would say so fails, or the process dies.                           *)
MigrationEnds ==
  \A j \in Jobs :
    Active(j) ~> \/ mstatus[j] \in {"completed", "failed"} \/ mpc[j] = "stuck"
                \/ crashes > 0

----------------------------------------------------------------------------
(* What a comment says, and the code does not do (README, Disagreements).  *)

(* reconciliation.go: "Upload/Delete/migration all guarantee a file's blob *)
(* lives only in its current drive"; migrations of nested folders refute   *)
(* it without any failure.                                                 *)
BlobOnCurrentDrive ==
  AtRest /\ (\A j \in Jobs : mpc[j] \in {"new", "stuck", "over"}) =>
    \A f \in Wanted : Readable(f)

============================================================================
