--------------------------- MODULE StorageSystem ---------------------------
(***************************************************************************)
(* The handlers of FileStore, the reconciliation scan and the folder drive *)
(* migrations together.  Nothing in the code keeps a scan and a migration  *)
(* apart.                                                                  *)
(***************************************************************************)
EXTENDS Reconciliation, DriveMigration

VARIABLE
  overlapped   \* history: files in a migration's hands while a scan ran

systemVars == <<allStoreVars, scanVars, migVars, overlapped>>

Moving(f) == \E j \in Jobs : mcur[j][1] = f

SystemInit == StoreInit /\ ScanIdle /\ MigrationIdle /\ overlapped = {}

SystemStep ==
  \/ HandlerStep /\ UNCHANGED <<scanVars, migVars>>
  \/ AgeWhenIdle /\ UNCHANGED migVars
  \/ HandlersDie /\ ScanStops /\ JobsDie
  \/ (ScanStart \/ ScanStep) /\ UNCHANGED migVars
  \/ MigrationStep /\ UNCHANGED scanVars

Overlapping == {f \in Files : spc' # "idle" /\ (Moving(f) \/ Moving(f)')}

SystemNext == SystemStep /\ overlapped' = overlapped \cup Overlapping

SystemSpec == SystemInit /\ [][SystemNext]_systemVars

(* Until a second migration starts, a wanted file becomes unreadable in   *)
(* two ways only: its migration stopped between the removal of the source  *)
(* and the update of the row, or a scan ran while it was being moved.      *)
(* Uploads, deletes of other files, scans, migrations, failures and        *)
(* crashes in any other order keep it.                                     *)
LostOnlyByOverlap ==
  OneJobStarted =>
    \A f \in Wanted :
      \/ Readable(f)
      \/ \E j \in Jobs : mcur[j][1] = f /\ mpc[j] = "record"
      \/ f \in unrecorded \cup overlapped

============================================================================
