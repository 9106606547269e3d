--------------------------- MODULE Reconciliation --------------------------
(***************************************************************************)
(* ReconciliationService.RunOnce: the scan that compares every drive's     *)
(* bucket with the rows that should reference its objects, deletes orphan  *)
(* objects, and deletes ghost rows through FileService.Delete, while the   *)
(* handlers of FileStore keep running.                                     *)
(*                                                                         *)
(* At most one scan runs (the `running' guard); it may run at any time (a  *)
(* daily loop and an administrator's trigger).  What counts as old is      *)
(* fixed when the scan starts, so nothing ages while one runs.             *)
(***************************************************************************)
EXTENDS FileStore

VARIABLES
  spc,          \* the scan's phase
  unlisted,     \* drives not yet listed
  listing,      \* objects listed on each drive
  oldListed,    \* those of them older than the cutoff
  variantKeys,  \* files whose variant rows were fetched
  undiffed,     \* listed drives not yet compared with their rows
  sdrive,       \* the drive being repaired
  orphans,      \* objects to remove from sdrive
  ghosts        \* files (or, in phase 3, variant rows) to delete

scanVars == <<spc, unlisted, listing, oldListed, variantKeys, undiffed, sdrive, orphans, ghosts>>

(* Forms these operators would take in a faulty program.                   *)
OldEnoughNoGrace(d) == bucket[d]
OrphanObjectsForgottenVariants(d) == {o \in oldListed[d] : o[2] = "main" => drive[o[1]] # d}
OrphanObjectsNone(d) == {}
GhostRowsNone(d) == {}
GhostRowsAsObjects(d) == {Main(f) : f \in {g \in Files : drive[g] = d}}

(* LastModified is not after the cutoff.                                   *)
OldEnough(d) == {o \in bucket[d] : <<d, o>> \notin recentObj}

(* In the bucket, in no files row of this drive, not a variant's key.      *)
OrphanObjects(d) ==
  {o \in oldListed[d] : ~ \/ o[2] = "main" /\ drive[o[1]] = d
                          \/ o[2] = "variant" /\ o[1] \in variantKeys}

(* An old row of this drive whose object was not listed on it.             *)
GhostRows(d) ==
  {f \in Files : drive[f] = d /\ Main(f) \notin listing[d] /\ Main(f) \notin recentRow}

(* An old variant row whose object was listed nowhere.                     *)
GhostVariants ==
  {f \in variantKeys : Variant(f) \notin recentRow /\ \A d \in Drives : Variant(f) \notin listing[d]}

ScanIdle ==
  /\ spc = "idle"
  /\ unlisted = {} /\ undiffed = {} /\ sdrive = NoDrive
  /\ listing = [d \in Drives |-> {}] /\ oldListed = [d \in Drives |-> {}]
  /\ variantKeys = {} /\ orphans = {} /\ ghosts = {}

(* CreateReconciliationRun, ListActiveDrivesWithServer, the cutoff.        *)
ScanStart ==
  /\ spc = "idle"
  /\ spc' = "list"
  /\ unlisted' = Drives
  /\ UNCHANGED <<listing, oldListed, variantKeys, undiffed, sdrive, orphans, ghosts>>
  /\ UNCHANGED allStoreVars

(* Phase 1: one drive's ListObjects.  A drive that cannot be listed is     *)
(* left out of the scan.                                                   *)
ScanList(d) ==
  /\ spc = "list" /\ d \in unlisted
  /\ unlisted' = unlisted \ {d}
  /\ \/ /\ listing' = [listing EXCEPT ![d] = bucket[d]]
        /\ oldListed' = [oldListed EXCEPT ![d] = OldEnough(d)]
        /\ undiffed' = undiffed \cup {d}
        /\ UNCHANGED faults
     \/ Fault /\ UNCHANGED <<listing, oldListed, undiffed>>
  /\ spc' = IF unlisted' = {} THEN "keys" ELSE "list"
  /\ UNCHANGED <<variantKeys, sdrive, orphans, ghosts>>
  /\ UNCHANGED <<storeVars, handlerVars, crashes, acked, dropped>>

(* ListAllVideoVariantKeys.  A failure is logged and the scan goes on with *)
(* no keys.                                                                *)
ScanKeys ==
  /\ spc = "keys" /\ spc' = "drive"
  /\ \/ variantKeys' = variantRow /\ UNCHANGED faults
     \/ variantKeys' = {} /\ Fault
  /\ UNCHANGED <<unlisted, listing, oldListed, undiffed, sdrive, orphans, ghosts>>
  /\ UNCHANGED <<storeVars, handlerVars, crashes, acked, dropped>>

(* Phase 2: ListFileKeysByDrive of the next drive, and the two diffs.      *)
ScanDrive(d) ==
  /\ spc = "drive" /\ d \in undiffed
  /\ undiffed' = undiffed \ {d}
  /\ \/ /\ spc' = "repair" /\ sdrive' = d
        /\ orphans' = OrphanObjects(d)
        /\ ghosts' = GhostRows(d)
        /\ UNCHANGED faults
     \/ Fault /\ UNCHANGED <<spc, sdrive, orphans, ghosts>>
  /\ UNCHANGED <<unlisted, listing, oldListed, variantKeys>>
  /\ UNCHANGED <<storeVars, handlerVars, crashes, acked, dropped>>

(* repairOrphanObject.                                                     *)
ScanOrphan(o) ==
  /\ spc = "repair" /\ o \in orphans
  /\ orphans' = orphans \ {o}
  /\ \/ bucket' = Without(o, sdrive) /\ UNCHANGED faults
     \/ Fault /\ UNCHANGED bucket
  /\ UNCHANGED <<spc, unlisted, listing, oldListed, variantKeys, undiffed, sdrive, ghosts>>
  /\ UNCHANGED <<recentObj, drive, variantRow, recentRow, used, quota, handlerVars, crashes,
                 acked, dropped>>

(* repairGhostFileRow calls Delete, which fetches the row again: when it   *)
(* is gone there is nothing to do.                                         *)
ScanGhost(f) ==
  /\ spc = "repair" /\ orphans = {} /\ f \in ghosts
  /\ del[Scanner].pc = "idle"
  /\ ghosts' = ghosts \ {f}
  /\ \/ DeleteStart(Scanner, f) /\ UNCHANGED dropped
     \/ f \notin Rows /\ UNCHANGED allStoreVars
     \/ /\ Fault
        /\ UNCHANGED <<storeVars, handlerVars, crashes, acked, dropped>>
  /\ UNCHANGED <<spc, unlisted, listing, oldListed, variantKeys, undiffed, sdrive, orphans>>

ScanDriveDone ==
  /\ spc = "repair" /\ orphans = {} /\ ghosts = {} /\ del[Scanner].pc = "idle"
  /\ spc' = "drive" /\ sdrive' = NoDrive
  /\ UNCHANGED <<unlisted, listing, oldListed, variantKeys, undiffed, orphans, ghosts>>
  /\ UNCHANGED allStoreVars

(* Phase 3: variant rows, compared with all drives.                        *)
ScanVariants ==
  /\ spc = "drive" /\ undiffed = {}
  /\ spc' = "variants" /\ ghosts' = GhostVariants
  /\ UNCHANGED <<unlisted, listing, oldListed, variantKeys, undiffed, sdrive, orphans>>
  /\ UNCHANGED allStoreVars

(* repairGhostVariantRow.                                                  *)
ScanVariantRow(f) ==
  /\ spc = "variants" /\ f \in ghosts
  /\ ghosts' = ghosts \ {f}
  /\ \/ variantRow' = variantRow \ {f} /\ UNCHANGED faults
     \/ Fault /\ UNCHANGED variantRow
  /\ UNCHANGED <<spc, unlisted, listing, oldListed, variantKeys, undiffed, sdrive, orphans>>
  /\ UNCHANGED <<bucket, recentObj, drive, recentRow, used, quota, handlerVars, crashes,
                 acked, dropped>>

ScanStops ==
  /\ spc' = "idle"
  /\ unlisted' = {} /\ undiffed' = {} /\ sdrive' = NoDrive
  /\ listing' = [d \in Drives |-> {}] /\ oldListed' = [d \in Drives |-> {}]
  /\ variantKeys' = {} /\ orphans' = {} /\ ghosts' = {}

ScanEnd == spc = "variants" /\ ghosts = {} /\ ScanStops /\ UNCHANGED allStoreVars

ScanStep ==
  \/ \E d \in Drives : ScanList(d) \/ ScanDrive(d)
  \/ ScanKeys
  \/ \E o \in orphans : ScanOrphan(o)
  \/ \E f \in ghosts : ScanGhost(f) \/ ScanVariantRow(f)
  \/ ScanDriveDone \/ ScanVariants \/ ScanEnd

AgeWhenIdle == spc = "idle" /\ (\E f \in Files : Age(f)) /\ UNCHANGED scanVars

ReconcileInit == StoreInit /\ ScanIdle

ReconcileNext ==
  \/ HandlerStep /\ UNCHANGED scanVars
  \/ AgeWhenIdle
  \/ HandlersDie /\ ScanStops
  \/ ScanStart \/ ScanStep

reconcileVars == <<allStoreVars, scanVars>>

ReconcileSpec == ReconcileInit /\ [][ReconcileNext]_reconcileVars

(* Time passes between scans, the daily scan comes, and handlers and scan  *)
(* run.  Nobody is obliged to upload or to delete.                         *)
ReconcileFairness ==
  /\ \A f \in Files :
       /\ WF_reconcileVars((UploadPut(f) \/ UploadSave(f) \/ UploadCount(f)) /\ UNCHANGED scanVars)
       /\ WF_reconcileVars(VariantStep(f) /\ UNCHANGED scanVars)
       /\ SF_reconcileVars(spc = "idle" /\ Age(f) /\ UNCHANGED scanVars)
  /\ \A k \in Deleters : WF_reconcileVars(DeleteStep(k) /\ UNCHANGED scanVars)
  /\ WF_reconcileVars(ScanStart)
  /\ WF_reconcileVars(ScanStep)

ReconcileFairSpec == ReconcileSpec /\ ReconcileFairness

----------------------------------------------------------------------------
(* Type invariant of the scan.                                             *)
ScanTypeOK ==
  /\ spc \in {"idle", "list", "keys", "drive", "repair", "variants"}
  /\ unlisted \subseteq Drives /\ undiffed \subseteq Drives
  /\ listing \in [Drives -> SUBSET Objects]
  /\ oldListed \in [Drives -> SUBSET Objects]
  /\ variantKeys \subseteq Files
  /\ sdrive \in Drives \cup {NoDrive}
  /\ orphans \subseteq Objects /\ ghosts \subseteq Files

(* As long as no call has failed and transcodes are shorter than the grace *)
(* period, the row and the object of a finished transcode survive every    *)
(* scan, unless somebody asked to delete the file.                         *)
VariantIntact(f) == f \in variantRow /\ \E d \in Drives : Variant(f) \in bucket[d]

VariantKept ==
  faults = 0 /\ ~SlowTranscodes =>
    \A f \in Files \ dropped : up[f] = "ready" => VariantIntact(f)

(* What scans leave alone: the files the store answers for, and, short of  *)
(* failures and slow transcodes, their finished variants.                  *)
ScanSpares == Durable /\ VariantKept

Referenced(o, d) ==
  \/ o[2] = "main" /\ drive[o[1]] = d
  \/ o[2] = "variant" /\ o[1] \in variantRow

(* The safety net: an object no row references does not stay for ever, and *)
(* neither does a row without an object, whatever failure or crash left    *)
(* them.                                                                   *)
OrphansRepaired ==
  \A o \in Objects, d \in Drives :
    o \in bucket[d] /\ ~Referenced(o, d) ~> o \notin bucket[d] \/ Referenced(o, d)

GhostsRepaired ==
  \A f \in Files :
    /\ f \in Rows /\ ~Readable(f) ~> f \notin Rows
    /\ f \in variantRow /\ (\A d \in Drives : Variant(f) \notin bucket[d])
         ~> f \notin variantRow \/ \E d \in Drives : Variant(f) \in bucket[d]

----------------------------------------------------------------------------
(* What the document says, and the code does not do (README, Disagreements). *)

(* docs/storage_reconciliation.md: the scan is "never treating a           *)
(* variant/crop key as an orphan-object candidate"; yet one that could not *)
(* list the variant keys takes every old variant for an orphan.            *)
ReferencedVariantKept ==
  \A f \in Files \ dropped :
    up[f] = "ready" /\ f \in variantRow => VariantIntact(f)

============================================================================
