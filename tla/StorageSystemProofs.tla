------------------------ MODULE StorageSystemProofs -------------------------
(***************************************************************************)
(* What scans and migrations leave alone, for any number of files, drives, *)
(* requests, scans, migrations, failures and crashes.                      *)
(*                                                                         *)
(* The invariants speak of the files not given up (see FileStoreProofs):   *)
(* none is given up when only scans run; with migrations, those whose      *)
(* migration stopped before it recorded the move; with both, also those    *)
(* that were being moved while a scan ran.                                 *)
(***************************************************************************)
EXTENDS StorageSystem, FileStoreProofs

----------------------------------------------------------------------------
(* The scan.  It decides on what it listed a while ago; the invariant says *)
(* what the listings still tell about the present.                         *)

(* An object listed as old belongs to an upload that is over.              *)
Listed ==
  \A f \in Files, d \in Drives : Main(f) \in oldListed[d] => up[f] \notin Early

(* A row yet to be fetched is that of a listed object, or is young, or is  *)
(* that of a file which is not safe.                                       *)
Seen(L) ==
  \A f \in Files, d \in undiffed :
    Safe(f, L) /\ drive[f] = d => Main(f) \in listing[d] \/ Main(f) \in recentRow

(* A safe file's row is not about to be deleted, and if its object is      *)
(* about to be removed then not from the drive its row names.              *)
Repairs(L) ==
  spc = "repair" =>
    /\ sdrive \in Drives
    /\ \A f \in Files :
         /\ f \in ghosts => ~Safe(f, L)
         /\ Main(f) \in orphans => up[f] \notin Early /\ (Safe(f, L) => drive[f] # sdrive)

ScanInv(L) ==
  /\ ScanTypeOK /\ Listed /\ Seen(L) /\ Repairs(L)
  /\ spc = "idle" => undiffed = {}

LEMMA YoungRowsStay ==
  ASSUME HandlerStep
  PROVE  recentRow \subseteq recentRow'
<1> USE DEF storeVars, handlerVars
<1>1. ASSUME NEW t \in purgeTodo, PurgeBlob(t)
      PROVE  recentRow \subseteq recentRow'
  BY <1>1 DEF PurgeBlob
<1>2. ASSUME NEW f \in Files, UploadStep(f) \/ VariantStep(f)
      PROVE  recentRow \subseteq recentRow'
  BY <1>2 DEF UploadStep, UploadCheck, UploadPut, UploadSave, UploadUndo, UploadCount,
              VariantStep, VariantBegin, VariantPut, VariantReady
<1>3. ASSUME NEW f \in Files, NEW k \in Requests, UserDelete(k, f)
      PROVE  recentRow \subseteq recentRow'
  BY <1>3 DEF UserDelete, DeleteStart
<1>4. ASSUME NEW k \in Deleters, DeleteStep(k)
      PROVE  recentRow \subseteq recentRow'
  BY <1>4 DEF DeleteStep, DeleteVariant, DeleteBlob, DeleteRow, DeleteRefund
<1>5. CASE PurgeList \/ PurgeRows \/ PurgeReset
  BY <1>5 DEF PurgeList, PurgeRows, PurgeReset
<1>. QED
  BY <1>1, <1>2, <1>3, <1>4, <1>5 DEF HandlerStep, PurgeStep

LEMMA HandlersKeepScan ==
  ASSUME NEW L, ScanInv(L), UNCHANGED scanVars, \A g \in Files : Effect(g, L),
         recentRow \subseteq recentRow' \/ undiffed = {}
  PROVE  ScanInv(L)'
<1> USE DEF scanVars
<1>0. /\ ScanTypeOK /\ Listed /\ Seen(L) /\ Repairs(L)
      /\ \A g \in Files : Safe(g, L)' => Safe(g, L)
  BY DEF ScanInv, Effect, Safe
<1>1. ScanTypeOK' /\ Listed'
  BY <1>0 DEF ScanTypeOK, Listed, Effect, Main
<1>2. Seen(L)'
  <2> SUFFICES ASSUME NEW f \in Files, NEW d \in undiffed, Safe(f, L)', drive'[f] = d,
                      Main(f) \notin recentRow'
               PROVE  Main(f) \in listing[d]
    BY DEF Seen, Main
  <2>1. d # NoDrive /\ Main(f) \notin recentRow
    BY <1>0, FileStoreAssumption DEF ScanTypeOK
  <2>2. drive[f] = d
    BY <2>1 DEF Effect
  <2>. QED
    BY <1>0, <2>1, <2>2 DEF Seen
<1>3. Repairs(L)'
  <2> SUFFICES ASSUME spc = "repair", NEW f \in Files
               PROVE  /\ f \in ghosts => ~Safe(f, L)'
                      /\ Main(f) \in orphans => up'[f] \notin Early
                                             /\ (Safe(f, L)' => drive'[f] # sdrive)
    BY <1>0 DEF Repairs, Main
  <2>1. /\ f \in ghosts => ~Safe(f, L)
        /\ Main(f) \in orphans => up[f] \notin Early /\ (Safe(f, L) => drive[f] # sdrive)
    BY <1>0 DEF Repairs
  <2>. QED
    BY <1>0, <2>1 DEF Effect, Safe
<1>. QED
  BY <1>0, <1>1, <1>2, <1>3 DEF ScanInv

LEMMA ScanStopsClean ==
  ASSUME NEW L, ScanStops
  PROVE  ScanInv(L)'
BY DEF ScanStops, ScanInv, ScanTypeOK, Listed, Seen, Repairs

(* What a scan's step does to a file.                                      *)
Spared(g, L) ==
  /\ up'[g] = up[g] /\ upTo'[g] = upTo[g] /\ drive'[g] = drive[g]
  /\ Alive(g)' <=> Alive(g)
  /\ \A d \in Drives : Main(g) \in bucket'[d] => Main(g) \in bucket[d]
  /\ Safe(g, L) /\ Readable(g) => Readable(g)'

(* A scan's step that changes no file's objects, rows or upload.           *)
LEMMA ReadingKeepsStore ==
  ASSUME NEW L, StoreInv(L), faults' \in Nat,
         UNCHANGED <<storeVars, handlerVars, crashes, acked, dropped>>
  PROVE  StoreInv(L)' /\ \A f \in Files : Spared(f, L)
BY DEF StoreInv, HandlerInv, TypeOK, UploadInv, UploadInvOf, DeleteInv, Deletable, PurgeInv, Placed,
       Readable, Safe, Alive, Spared, storeVars, handlerVars, Main

LEMMA ScanReads ==
  ASSUME NEW L, StoreInv(L), ScanInv(L),
         \/ ScanStart \/ ScanKeys \/ ScanDriveDone \/ ScanVariants \/ ScanEnd
         \/ \E d \in Drives : ScanList(d) \/ ScanDrive(d)
  PROVE  ScanInv(L)' /\ StoreInv(L)' /\ \A f \in Files : Spared(f, L)
<1>0. /\ TypeOK /\ UploadInv /\ Placed(L) /\ ScanTypeOK /\ Listed /\ Seen(L)
      /\ Repairs(L) /\ (spc = "idle" => undiffed = {})
  BY DEF ScanInv, StoreInv, HandlerInv
<1>1. /\ faults' \in Nat
      /\ UNCHANGED <<storeVars, handlerVars, crashes, acked, dropped>>
  BY <1>0 DEF ScanStart, ScanKeys, ScanDriveDone, ScanVariants, ScanEnd, ScanList, ScanDrive,
              Fault, allStoreVars, TypeOK
<1>2. /\ StoreInv(L)' /\ \A f \in Files : Spared(f, L) /\ (Safe(f, L)' <=> Safe(f, L))
      /\ UNCHANGED <<bucket, recentObj, recentRow, drive, up, upTo>>
  BY <1>0, <1>1, ReadingKeepsStore DEF Spared, Safe, storeVars, handlerVars
<1>3. CASE ScanStart
  <2>1. ScanTypeOK' /\ Listed' /\ Seen(L)' /\ Repairs(L)' /\ spc' = "list"
    BY <1>0, <1>2, <1>3 DEF ScanStart, ScanTypeOK, Listed, Seen, Repairs, Main
  <2>. QED
    BY <1>2, <2>1 DEF ScanInv
<1>4. CASE ScanKeys
  <2>1. variantKeys' \subseteq Files
    BY <1>0, <1>4 DEF ScanKeys, TypeOK
  <2>2. ScanTypeOK' /\ Listed' /\ Seen(L)' /\ Repairs(L)' /\ spc' = "drive"
    BY <1>0, <1>2, <1>4, <2>1 DEF ScanKeys, ScanTypeOK, Listed, Seen, Repairs, Main
  <2>. QED
    BY <1>2, <2>2 DEF ScanInv
<1>5. CASE ScanDriveDone
  <2>1. ScanTypeOK' /\ Listed' /\ Seen(L)' /\ Repairs(L)' /\ spc' = "drive"
    BY <1>0, <1>2, <1>5 DEF ScanDriveDone, ScanTypeOK, Listed, Seen, Repairs, Main
  <2>. QED
    BY <1>2, <2>1 DEF ScanInv
<1>6. CASE ScanVariants
  <2>1. ghosts' \subseteq Files
    BY <1>0, <1>6 DEF ScanVariants, GhostVariants, ScanTypeOK
  <2>2. ScanTypeOK' /\ Listed' /\ Seen(L)' /\ Repairs(L)' /\ spc' = "variants"
    BY <1>0, <1>2, <1>6, <2>1 DEF ScanVariants, ScanTypeOK, Listed, Seen, Repairs, Main
  <2>. QED
    BY <1>2, <2>2 DEF ScanInv
<1>7. CASE ScanEnd
  BY <1>2, <1>7, ScanStopsClean DEF ScanEnd
<1>8. ASSUME NEW d \in Drives, ScanList(d)
      PROVE  ScanInv(L)'
  <2>1. ScanTypeOK'
    <3>1. bucket[d] \subseteq Objects /\ OldEnough(d) \subseteq Objects
      BY <1>0 DEF OldEnough, TypeOK
    <3>2. /\ listing' \in [Drives -> SUBSET Objects]
          /\ oldListed' \in [Drives -> SUBSET Objects]
      BY <1>0, <1>8, <3>1 DEF ScanList, ScanTypeOK
    <3>3. /\ spc' \in {"keys", "list"} /\ unlisted' \subseteq Drives /\ undiffed' \subseteq Drives
          /\ UNCHANGED <<variantKeys, sdrive, orphans, ghosts>>
      BY <1>0, <1>8 DEF ScanList, ScanTypeOK
    <3>. QED
      BY <1>0, <3>2, <3>3 DEF ScanTypeOK
  <2>2. Listed'
    <3> SUFFICES ASSUME NEW f \in Files, NEW e \in Drives, Main(f) \in oldListed'[e]
                 PROVE  up[f] \notin Early
      BY <1>2 DEF Listed, Main
    <3>1. CASE Main(f) \in oldListed[e]
      BY <1>0, <3>1 DEF Listed
    <3>2. CASE Main(f) \in OldEnough(e)
      BY <1>0, <3>2 DEF OldEnough, UploadInv, UploadInvOf
    <3>. QED
      BY <1>0, <1>8, <3>1, <3>2 DEF ScanList, ScanTypeOK
  <2>3. Seen(L)'
    <3> SUFFICES ASSUME NEW f \in Files, NEW e \in undiffed', Safe(f, L), drive[f] = e
                 PROVE  Main(f) \in listing'[e] \/ Main(f) \in recentRow
      BY <1>2 DEF Seen, Main
    <3>1. CASE e = d /\ listing'[e] = bucket[e]
      <4>1. up[f] \notin Early
        BY <1>0, <3>1, FileStoreAssumption DEF UploadInv, UploadInvOf
      <4>. QED
        BY <1>0, <3>1, <4>1 DEF Placed, Readable
    <3>2. CASE e \in undiffed /\ listing'[e] = listing[e]
      BY <1>0, <3>2 DEF Seen
    <3>. QED
      BY <1>0, <1>8, <3>1, <3>2 DEF ScanList, ScanTypeOK
  <2>4. Repairs(L)' /\ spc' # "idle"
    BY <1>8 DEF ScanList, Repairs
  <2>. QED
    BY <1>2, <2>1, <2>2, <2>3, <2>4 DEF ScanInv
<1>9. ASSUME NEW d \in Drives, ScanDrive(d)
      PROVE  ScanInv(L)'
  <2>1. /\ UNCHANGED <<unlisted, listing, oldListed, variantKeys>>
        /\ undiffed' \subseteq undiffed /\ spc' \in {"drive", "repair"}
    BY <1>9 DEF ScanDrive
  <2>2. OrphanObjects(d) \subseteq Objects /\ GhostRows(d) \subseteq Files
    BY <1>0 DEF OrphanObjects, GhostRows, ScanTypeOK
  <2>3. ScanTypeOK'
    BY <1>0, <1>9, <2>1, <2>2 DEF ScanDrive, ScanTypeOK
  <2>4. Listed' /\ Seen(L)'
    BY <1>0, <1>2, <2>1 DEF Listed, Seen, Main
  <2>5. ASSUME NEW f \in Files, d \in undiffed
        PROVE  /\ f \in GhostRows(d) => ~Safe(f, L)
               /\ Main(f) \in OrphanObjects(d) => up[f] \notin Early /\ drive[f] # d
    BY <1>0, <2>5 DEF GhostRows, OrphanObjects, Seen, Listed, Main
  <2>6. Repairs(L)'
    BY <1>0, <1>2, <1>9, <2>5 DEF ScanDrive, Repairs, Main
  <2>. QED
    BY <1>2, <2>1, <2>3, <2>4, <2>6 DEF ScanInv
<1>. QED
  BY <1>2, <1>3, <1>4, <1>5, <1>6, <1>7, <1>8, <1>9

(* repairOrphanObject removes a copy of a safe file only from a drive its  *)
(* row does not name.                                                      *)
LEMMA ScanRemovesOrphan ==
  ASSUME NEW L, StoreInv(L), ScanInv(L), NEW o \in orphans, ScanOrphan(o)
  PROVE  ScanInv(L)' /\ StoreInv(L)' /\ \A f \in Files : Spared(f, L)
<1> USE DEF storeVars, handlerVars
<1>0. /\ TypeOK /\ UploadInv /\ DeleteInv(L) /\ PurgeInv /\ Placed(L) /\ ScanTypeOK
      /\ Listed /\ Seen(L) /\ Repairs(L)
  BY DEF ScanInv, StoreInv, HandlerInv
<1>1. /\ spc = "repair" /\ spc' = "repair"
      /\ orphans' \subseteq orphans /\ faults' \in Nat
      /\ bucket' = Without(o, sdrive) \/ bucket' = bucket
      /\ UNCHANGED <<unlisted, listing, oldListed, variantKeys, undiffed, sdrive, ghosts>>
      /\ UNCHANGED <<recentObj, drive, variantRow, recentRow, used, quota, up, upTo, del, purge,
                     purgeTodo, crashes, acked, dropped>>
  BY <1>0 DEF ScanOrphan, Fault, TypeOK
<1>2. TypeOK'
  <2>1. bucket' \in [Drives -> SUBSET Objects]
    BY <1>0, <1>1, WithoutTypes DEF TypeOK
  <2>. QED
    BY <1>0, <1>1, <2>1 DEF TypeOK
<1>3. \A g \in Files : (Alive(g)' <=> Alive(g)) /\ (Safe(g, L)' <=> Safe(g, L))
  BY <1>1 DEF Alive, Safe
<1>4. \A g \in Files, d \in Drives :
        /\ Main(g) \in bucket'[d] => Main(g) \in bucket[d]
        /\ Main(g) \in bucket[d] /\ Main(g) \notin bucket'[d] => Main(g) = o /\ d = sdrive
  BY <1>0, <1>1 DEF Without, TypeOK
<1>5. ASSUME NEW g \in Files
      PROVE  UploadInvOf(g)' /\ Spared(g, L) /\ (Readable(g) /\ Safe(g, L) => Readable(g)')
  <2>1. o = Main(g) => up[g] \notin Early /\ (Safe(g, L) => drive[g] # sdrive)
    BY <1>0, <1>1 DEF Repairs
  <2>2. UploadInvOf(g)'
    <3>1. UploadInvOf(g)
      BY <1>0 DEF UploadInv
    <3>2. up[g] \in Early => \A d \in Drives : Main(g) \in bucket'[d] <=> Main(g) \in bucket[d]
      BY <1>4, <2>1
    <3>. QED
      BY <1>1, <3>1, <3>2 DEF UploadInvOf, Main, Early, Resolved
  <2>3. Safe(g, L) /\ drive[g] \in Drives =>
          (Main(g) \in bucket[drive[g]] => Main(g) \in bucket'[drive[g]])
    BY <1>4, <2>1
  <2>4. Safe(g, L) /\ Readable(g) => Readable(g)'
    BY <1>1, <2>3 DEF Readable, Main
  <2>5. Spared(g, L)
    BY <1>1, <1>3, <1>4, <2>4 DEF Spared
  <2>. QED
    BY <2>2, <2>4, <2>5
<1>6. StoreInv(L)'
  BY <1>0, <1>1, <1>2, <1>3, <1>5
     DEF StoreInv, HandlerInv, UploadInv, DeleteInv, Deletable, PurgeInv, Placed
<1>7. ScanTypeOK' /\ Listed' /\ Seen(L)' /\ Repairs(L)'
  BY <1>0, <1>1, <1>3 DEF ScanTypeOK, Listed, Seen, Repairs, Main
<1>. QED
  BY <1>1, <1>5, <1>6, <1>7 DEF ScanInv

(* repairGhostFileRow starts a Delete of a file that is not safe.          *)
LEMMA ScanDeletesGhost ==
  ASSUME NEW L, StoreInv(L), ScanInv(L), NEW f \in ghosts, ScanGhost(f)
  PROVE  ScanInv(L)' /\ StoreInv(L)' /\ \A g \in Files : Spared(g, L)
<1> USE DEF storeVars, handlerVars
<1>0. /\ TypeOK /\ UploadInv /\ DeleteInv(L) /\ PurgeInv /\ Placed(L) /\ ScanTypeOK
      /\ Listed /\ Seen(L) /\ Repairs(L) /\ Scanner \in Deleters /\ f \in Files
  BY DEF ScanInv, StoreInv, HandlerInv, ScanTypeOK, Deleters
<1>1. /\ spc = "repair" /\ spc' = "repair" /\ ghosts' \subseteq ghosts
      /\ UNCHANGED <<unlisted, listing, oldListed, variantKeys, undiffed, sdrive, orphans>>
      /\ UNCHANGED <<bucket, recentObj, drive, variantRow, recentRow, used, quota, up, upTo, purge,
                     purgeTodo, crashes, acked, dropped>>
  BY DEF ScanGhost, DeleteStart, allStoreVars
<1>2. /\ faults' \in Nat
      /\ del' \in [Deleters -> [pc : {"idle", "variant", "blob", "row", "refund"},
                         file : Files \cup {NoFile}, drive : Drives \cup {NoDrive}]]
      /\ \A k \in Deleters : del'[k] = del[k] \/ (del'[k].file = f /\ f \in Rows)
  <2>1. CASE DeleteStart(Scanner, f)
    <3>1. \A k \in Deleters : del'[k] = del[k] \/ (del'[k].file = f /\ f \in Rows)
      BY <1>0, <2>1 DEF DeleteStart, TypeOK
    <3>. QED
      BY <1>0, <2>1, <3>1, DeleteStartTypes
  <2>2. CASE f \notin Rows /\ UNCHANGED allStoreVars
    BY <1>0, <2>2 DEF allStoreVars, TypeOK
  <2>3. CASE Fault /\ UNCHANGED <<storeVars, handlerVars, crashes, acked, dropped>>
    BY <1>0, <2>3 DEF Fault, TypeOK
  <2>. QED
    BY <2>1, <2>2, <2>3 DEF ScanGhost
<1>3. TypeOK' /\ UploadInv' /\ PurgeInv'
  BY <1>0, <1>1, <1>2 DEF TypeOK, UploadInv, UploadInvOf, PurgeInv
<1>4. \A g \in Files : (Safe(g, L)' <=> Safe(g, L)) /\ Spared(g, L)
  BY <1>1 DEF Safe, Alive, Spared, Readable, Main
<1>5. DeleteInv(L)'
  <2>1. f \in Rows => up[f] \notin Early
    BY <1>0 DEF UploadInv, UploadInvOf, Rows
  <2>2. ~Safe(f, L)
    BY <1>0, <1>1 DEF Repairs
  <2>3. UNCHANGED up
    BY <1>1
  <2>. QED
    BY <1>0, <1>2, <1>4, <2>1, <2>2, <2>3 DEF DeleteInv, Deletable
<1>6. Placed(L)'
  BY <1>0, <1>1, <1>4 DEF Placed, Readable, Main
<1>7. ScanTypeOK' /\ Listed' /\ Seen(L)' /\ Repairs(L)'
  BY <1>0, <1>1, <1>4 DEF ScanTypeOK, Listed, Seen, Repairs, Main
<1>. QED
  BY <1>1, <1>3, <1>4, <1>5, <1>6, <1>7 DEF ScanInv, StoreInv, HandlerInv

LEMMA ScanDeletesVariantRow ==
  ASSUME NEW L, StoreInv(L), ScanInv(L), NEW f \in ghosts, ScanVariantRow(f)
  PROVE  ScanInv(L)' /\ StoreInv(L)' /\ \A g \in Files : Spared(g, L)
<1> USE DEF storeVars, handlerVars
<1>0. /\ TypeOK /\ UploadInv /\ DeleteInv(L) /\ PurgeInv /\ Placed(L) /\ ScanTypeOK
      /\ Listed /\ Seen(L)
  BY DEF ScanInv, StoreInv, HandlerInv
<1>1. /\ spc' = "variants" /\ ghosts' \subseteq ghosts /\ variantRow' \subseteq variantRow
      /\ faults' \in Nat
      /\ UNCHANGED <<unlisted, listing, oldListed, variantKeys, undiffed, sdrive, orphans>>
      /\ UNCHANGED <<bucket, recentObj, drive, recentRow, used, quota, up, upTo, del, purge,
                     purgeTodo, crashes, acked, dropped>>
  BY <1>0 DEF ScanVariantRow, Fault, TypeOK
<1>2. TypeOK' /\ UploadInv' /\ DeleteInv(L)' /\ PurgeInv' /\ Placed(L)'
  BY <1>0, <1>1 DEF TypeOK, UploadInv, UploadInvOf, DeleteInv, Deletable, PurgeInv, Placed,
                    Readable, Safe, Alive, Main
<1>3. \A g \in Files : Spared(g, L)
  BY <1>1 DEF Spared, Readable, Alive, Main
<1>4. ScanTypeOK' /\ Listed' /\ Seen(L)' /\ Repairs(L)'
  BY <1>0, <1>1 DEF ScanTypeOK, Listed, Seen, Repairs, Safe, Alive, Main
<1>. QED
  BY <1>1, <1>2, <1>3, <1>4 DEF ScanInv, StoreInv, HandlerInv

LEMMA ScanKeeps ==
  ASSUME NEW L, StoreInv(L), ScanInv(L), ScanStart \/ ScanStep
  PROVE  ScanInv(L)' /\ StoreInv(L)' /\ \A g \in Files : Spared(g, L)
BY ScanReads, ScanRemovesOrphan, ScanDeletesGhost, ScanDeletesVariantRow DEF ScanStep

LEMMA StoreInvUnchanged ==
  ASSUME NEW L, StoreInv(L), UNCHANGED allStoreVars
  PROVE  StoreInv(L)'
BY HandlerInvUnchanged
   DEF StoreInv, Placed, Readable, Safe, Alive, Main, allStoreVars, storeVars, handlerVars

LEMMA ScanInvUnchanged ==
  ASSUME NEW L, ScanInv(L), UNCHANGED <<allStoreVars, scanVars>>
  PROVE  ScanInv(L)'
BY DEF ScanInv, ScanTypeOK, Listed, Seen, Repairs, Safe, Alive, Main, scanVars, allStoreVars,
       storeVars, handlerVars

LEMMA ScanInvInitially ==
  ASSUME NEW L, ScanIdle
  PROVE  ScanInv(L)
BY DEF ScanIdle, ScanInv, ScanTypeOK, Listed, Seen, Repairs

----------------------------------------------------------------------------
(* Handlers and scans: no file is given up.                                *)
THEOREM ScanInvariance == ReconcileSpec => [](StoreInv({}) /\ ScanInv({}))
<1>1. ReconcileInit => StoreInv({}) /\ ScanInv({})
  BY StoreInvInitially, ScanInvInitially DEF ReconcileInit
<1>2. StoreInv({}) /\ ScanInv({}) /\ [ReconcileNext]_reconcileVars =>
        StoreInv({})' /\ ScanInv({})'
  <2> SUFFICES ASSUME StoreInv({}), ScanInv({}), [ReconcileNext]_reconcileVars
               PROVE  StoreInv({})' /\ ScanInv({})'
    OBVIOUS
  <2>1. CASE HandlerStep /\ UNCHANGED scanVars
    BY <2>1, StoreInvKept, HandlersKeep, HandlersKeepScan, YoungRowsStay DEF StoreInv
  <2>2. CASE AgeWhenIdle
    BY <2>2, StoreInvKept, HandlersKeep, HandlersKeepScan DEF AgeWhenIdle, StoreInv, ScanInv
  <2>3. CASE HandlersDie /\ ScanStops
    BY <2>3, StoreInvKept, ScanStopsClean
  <2>4. CASE ScanStart \/ ScanStep
    BY <2>4, ScanKeeps
  <2>5. CASE UNCHANGED reconcileVars
    BY <2>5, StoreInvUnchanged, ScanInvUnchanged DEF reconcileVars
  <2>. QED
    BY <2>1, <2>2, <2>3, <2>4, <2>5 DEF ReconcileNext
<1>. QED
  BY <1>1, <1>2, PTL DEF ReconcileSpec

(* The scan's listings and repair lists keep their types.                  *)
THEOREM ScanTypes == ReconcileSpec => []ScanTypeOK
<1>1. ScanInv({}) => ScanTypeOK
  BY DEF ScanInv
<1>. QED
  BY <1>1, ScanInvariance, PTL

(* Scans, started at any time and working from listings that age while     *)
(* uploads, transcodes, deletes, purges, failures and crashes go on, never *)
(* make an acknowledged file that nobody asked to delete unreadable.       *)
THEOREM ScanDurable == ReconcileSpec => []Durable
<1>1. StoreInv({}) => Durable
  BY StoreInvDurable
<1>. QED
  BY <1>1, ScanInvariance, PTL

(* A step of the scan makes nothing readable, and spares what was reported *)
(* as stored and nobody asked to delete: seen as FileVault, files vanish.  *)
LEMMA ScanVanishes ==
  ASSUME StoreInv({}), ScanInv({}), ScanStart \/ ScanStep
  PROVE  Vault!VaultNext
<1>1. \A g \in Files : Spared(g, {})
  BY ScanKeeps
<1>2. UNCHANGED <<acked, dropped>>
  BY DEF ScanStep, ScanStart, ScanKeys, ScanDriveDone, ScanVariants, ScanEnd, ScanList, ScanDrive,
         ScanOrphan, ScanGhost, ScanVariantRow, DeleteStart, allStoreVars
<1>3. Unsaved' = Unsaved
  BY <1>1 DEF Unsaved, Spared
<1>4. Kept' \subseteq Kept
  BY <1>1, <1>3 DEF Kept, Spared, Readable, Main
<1>5. ASSUME NEW g \in Kept \ Kept', g \in acked
      PROVE  g \in dropped
  BY <1>1, <1>3, <1>5 DEF Kept, Spared, Safe, Alive
<1>. QED
  BY <1>2, <1>3, <1>4, <1>5, VanishStep

(* The handlers and any number of scans implement FileVault: what a scan   *)
(* deletes was asked away or was never reported as stored, and no repair   *)
(* brings back what is gone.                                               *)
THEOREM ScansKeepPromise == ReconcileSpec => ImplementsFileVault
<1>1. ReconcileInit => Vault!VaultInit
  BY FileStoreAssumption DEF ReconcileInit, StoreInit, Vault!VaultInit, Unsaved, Kept
<1>2. ASSUME UNCHANGED reconcileVars
      PROVE  UNCHANGED Vault!vaultVars
  BY <1>2 DEF reconcileVars, allStoreVars, storeVars, handlerVars, Vault!vaultVars, Unsaved, Kept, Readable, Main
<1>3. StoreInv({}) /\ ScanInv({}) /\ [ReconcileNext]_reconcileVars => [Vault!VaultNext]_Vault!vaultVars
  BY <1>2, VaultStep, ScanVanishes DEF ReconcileNext, AgeWhenIdle
<1>. QED
  BY <1>1, <1>3, ScanInvariance, PTL DEF ReconcileSpec, ImplementsFileVault, Vault!VaultSpec

----------------------------------------------------------------------------
(* The variants of files that nobody asked to delete, when no call failed  *)
(* and transcodes are shorter than the grace period.                       *)
Coded == {"encoded", "ready"}

(* While it is being made, a variant has a young row; its object, before   *)
(* it is recorded as ready, is young too.                                  *)
VariantOf(f) ==
  /\ up[f] \in {"acked", "transcoding"} \cup Coded => f \in acked
  /\ up[f] \in {"transcoding"} \cup Coded => f \in variantRow
  /\ up[f] \in Coded => upTo[f] \in Drives /\ Variant(f) \in bucket[upTo[f]]
  /\ up[f] \in {"transcoding", "encoded"} => Variant(f) \in recentRow
  /\ f \in variantRow => up[f] \in {"transcoding", "done"} \cup Coded
  /\ \A d \in Drives : Variant(f) \in bucket[d] =>
       up[f] \in {"ready", "done"} \/ (up[f] = "encoded" /\ <<d, Variant(f)>> \in recentObj)

(* What a scan listed of it: an old object is of a transcode that is over; *)
(* an encoded variant whose row is old was listed where it is, and its key *)
(* was fetched if its object is old.  What the scan removes was given up.  *)
VariantListed(f) ==
  /\ \A d \in Drives : Variant(f) \in oldListed[d] => up[f] \in {"ready", "done"}
  /\ f \in variantKeys => up[f] \in {"transcoding", "done"} \cup Coded
  /\ up[f] \in Coded /\ spc # "idle" =>
       Variant(f) \in recentRow \/ upTo[f] \in unlisted \/ Variant(f) \in listing[upTo[f]]
  /\ up[f] = "ready" /\ spc \in {"drive", "repair"} =>
       f \in variantKeys \/ \A d \in Drives : Variant(f) \notin oldListed[d]
  /\ spc = "repair" /\ Variant(f) \in orphans => up[f] = "done"
  /\ spc = "variants" /\ f \in ghosts => up[f] = "done"

ListedAll == spc \in {"keys", "drive", "repair", "variants"} => unlisted = {}
NoFailure == faults = 0 /\ ~SlowTranscodes

VariantInv ==
  /\ ListedAll
  /\ NoFailure => \A f \in Files \ dropped : VariantOf(f) /\ VariantListed(f)

(* What storing and removing objects changes for a file's variant.         *)
LEMMA VariantMoves ==
  ASSUME TypeOK, NEW f \in Files, NEW g \in Files, NEW d \in Drives, NEW e
  PROVE  /\ Variant(g) \in With(Variant(f), e)[d] <=> Variant(g) \in bucket[d] \/ (f = g /\ e = d)
         /\ Variant(g) \in Without(Variant(f), e)[d] <=> Variant(g) \in bucket[d] /\ ~(f = g /\ e = d)
         /\ Variant(g) \in With(Main(f), e)[d] <=> Variant(g) \in bucket[d]
         /\ Variant(g) \in Without(Main(f), e)[d] <=> Variant(g) \in bucket[d]
<1>1. Variant(g) = Variant(f) <=> f = g
  BY DEF Variant
<1>. QED
  BY <1>1, ObjectsDiffer DEF With, Without, TypeOK

(* A step that leaves a file's upload, and all there is of its variant.    *)
LEMMA VariantUndisturbed ==
  ASSUME NEW g \in Files, VariantOf(g), up'[g] = up[g], upTo'[g] = upTo[g],
         g \in acked => g \in acked', g \in variantRow' <=> g \in variantRow,
         Variant(g) \in recentRow => Variant(g) \in recentRow',
         \A d \in Drives : /\ Variant(g) \in bucket'[d] <=> Variant(g) \in bucket[d]
                           /\ <<d, Variant(g)>> \in recentObj => <<d, Variant(g)>> \in recentObj'
  PROVE  VariantOf(g)'
BY DEF VariantOf, Variant

(* A file without a variant, or with one that was given up.                *)
LEMMA VariantNot ==
  ASSUME NEW g \in Files, VariantOf(g),
         up'[g] \notin {"acked", "transcoding"} \cup Coded \/ (up'[g] = "acked" /\ g \in acked'),
         up'[g] = "done" \/ up[g] \notin {"transcoding", "done"} \cup Coded,
         g \in variantRow' => g \in variantRow,
         \A d \in Drives : Variant(g) \in bucket'[d] => Variant(g) \in bucket[d]
  PROVE  VariantOf(g)'
BY DEF VariantOf, Variant, Coded

(* What the handlers' steps do to a transcode and to what remembers it.    *)
VariantEffect(g) ==
  /\ up[g] = "done" => up'[g] = "done"
  /\ up[g] = "ready" => up'[g] = "ready"
  /\ up[g] \in {"transcoding", "encoded"} => up'[g] \in {"transcoding", "done"} \cup Coded
  /\ up'[g] = "ready" => up[g] \in Coded
  /\ up'[g] \in Coded => (up[g] \in Coded /\ upTo'[g] = upTo[g]) \/ Variant(g) \in recentRow'

LEMMA EffectOfNone ==
  ASSUME NEW g \in Files, up'[g] = up[g], upTo'[g] = upTo[g]
  PROVE  VariantEffect(g)
BY DEF VariantEffect, Coded

LEMMA UploadsKeepVariant ==
  ASSUME TypeOK, NEW f \in Files, UploadStep(f), NEW g \in Files, VariantOf(g)
  PROVE  VariantOf(g)' /\ VariantEffect(g)
<1>1. /\ variantRow' = variantRow /\ recentRow \subseteq recentRow' /\ acked \subseteq acked'
      /\ recentObj \subseteq recentObj'
      /\ \A h \in Files \ {f} : up'[h] = up[h] /\ upTo'[h] = upTo[h]
  BY DEF UploadStep, UploadCheck, UploadPut, UploadSave, UploadUndo, UploadCount, storeVars, TypeOK
<1>2. \A d \in Drives : Variant(g) \in bucket'[d] <=> Variant(g) \in bucket[d]
  <2>1. bucket' \in {bucket, With(Main(f), upTo[f]), Without(Main(f), upTo[f])}
    BY DEF UploadStep, UploadCheck, UploadPut, UploadSave, UploadUndo, UploadCount, storeVars
  <2>. QED
    BY <2>1, VariantMoves
<1>3. CASE g # f
  BY <1>1, <1>2, <1>3, VariantUndisturbed, EffectOfNone
<1>4. CASE g = f
  <2>1. /\ up[g] \in Uploading /\ up'[g] \in Uploading \cup {"acked", "done", "failed"}
        /\ up'[g] = "acked" => g \in acked'
    BY <1>4 DEF UploadStep, UploadCheck, UploadPut, UploadSave, UploadUndo, UploadCount, TypeOK, Uploading
  <2>2. VariantOf(g)'
    BY <1>1, <1>2, <2>1, VariantNot DEF Uploading, Coded
  <2>. QED
    BY <2>1, <2>2 DEF VariantEffect, Uploading, Coded
<1>. QED
  BY <1>3, <1>4

LEMMA TranscodesKeepVariant ==
  ASSUME TypeOK, UploadInv, faults = 0, faults' = 0,
         NEW f \in Files, VariantStep(f), NEW g \in Files, VariantOf(g)
  PROVE  VariantOf(g)' /\ VariantEffect(g)
<1>1. ~Fault
  BY DEF Fault
<1>2. /\ acked' = acked /\ upTo' = upTo /\ variantRow \subseteq variantRow'
      /\ recentObj \subseteq recentObj' /\ recentRow \subseteq recentRow'
      /\ \A h \in Files \ {f} : up'[h] = up[h] /\ (h \in variantRow' => h \in variantRow)
  BY <1>1 DEF VariantStep, VariantBegin, VariantPut, VariantReady, TypeOK
<1>3. bucket' = bucket \/ (up[f] = "transcoding" /\ bucket' = With(Variant(f), upTo[f]))
  BY <1>1 DEF VariantStep, VariantBegin, VariantPut, VariantReady
<1>4. CASE g # f
  <2>1. \A d \in Drives : Variant(g) \in bucket'[d] <=> Variant(g) \in bucket[d]
    BY <1>3, <1>4, VariantMoves
  <2>. QED
    BY <1>2, <1>4, <2>1, VariantUndisturbed, EffectOfNone
<1>5. CASE g = f /\ up'[g] = "done"
  <2>1. up[g] \in {"acked", "transcoding"} /\ bucket' = bucket /\ variantRow' = variantRow
    BY <1>1, <1>5 DEF VariantStep, VariantBegin, VariantPut, VariantReady, TypeOK
  <2>2. VariantOf(g)'
    BY <1>5, <2>1, VariantNot DEF Coded
  <2>. QED
    BY <1>5, <2>1, <2>2 DEF VariantEffect, Coded
<1>6. CASE g = f /\ VariantBegin(f) /\ up'[g] # "done"
  <2>1. /\ up[g] = "acked" /\ up'[g] = "transcoding" /\ bucket' = bucket
        /\ g \in variantRow' /\ Variant(g) \in recentRow'
    BY <1>1, <1>6 DEF VariantBegin, TypeOK
  <2>. QED
    BY <1>2, <2>1 DEF VariantOf, VariantEffect, Variant, Coded
<1>7. CASE g = f /\ VariantPut(f) /\ up'[g] # "done"
  <2>1. /\ up[g] = "transcoding" /\ up'[g] = "encoded" /\ bucket' = With(Variant(g), upTo[g])
        /\ <<upTo[g], Variant(g)>> \in recentObj' /\ variantRow' = variantRow /\ upTo[g] \in Drives
    BY <1>1, <1>7 DEF VariantPut, TypeOK, UploadInv, UploadInvOf, Resolved
  <2>2. \A d \in Drives : Variant(g) \in bucket'[d] <=> Variant(g) \in bucket[d] \/ d = upTo[g]
    BY <2>1, VariantMoves
  <2>3. \A d \in Drives : Variant(g) \notin bucket[d]
    BY <2>1 DEF VariantOf
  <2>. QED
    BY <1>2, <2>1, <2>2, <2>3 DEF VariantOf, VariantEffect, Variant, Coded
<1>8. CASE g = f /\ VariantReady(f) /\ up'[g] # "done"
  <2>1. up[g] = "encoded" /\ up'[g] = "ready" /\ bucket' = bucket /\ variantRow' = variantRow
    BY <1>1, <1>8 DEF VariantReady, TypeOK
  <2>. QED
    BY <1>2, <2>1 DEF VariantOf, VariantEffect, Variant, Coded
<1>. QED
  BY <1>4, <1>5, <1>6, <1>7, <1>8 DEF VariantStep

(* Only files that are not safe are deleted; without failures, and unless  *)
(* somebody asked to delete them, their upload is over.                    *)
LEMMA DeletesKeepVariant ==
  ASSUME TypeOK, DeleteInv({}), NEW k \in Deleters,
         DeleteStep(k), NEW g \in Files \ dropped, VariantOf(g)
  PROVE  VariantOf(g)' /\ VariantEffect(g)
<1>1. UNCHANGED <<up, upTo, acked, recentRow, recentObj>> /\ variantRow' \subseteq variantRow
  BY DEF DeleteStep, DeleteVariant, DeleteBlob, DeleteRow, DeleteRefund
<1>2. bucket' \in {bucket, Without(Main(del[k].file), del[k].drive),
                          Without(Variant(del[k].file), del[k].drive)}
  BY DEF DeleteStep, DeleteVariant, DeleteBlob, DeleteRow, DeleteRefund
<1>3. del[k].pc # "idle" /\ Deletable(del[k].file, {})
  BY DEF DeleteStep, DeleteVariant, DeleteBlob, DeleteRow, DeleteRefund, DeleteInv
<1>4. \A d \in Drives :
        /\ Variant(g) \in bucket'[d] => Variant(g) \in bucket[d]
        /\ g # del[k].file /\ Variant(g) \in bucket[d] => Variant(g) \in bucket'[d]
  BY <1>2, <1>3, VariantMoves DEF Deletable
<1>5. CASE g # del[k].file
  <2>1. g \in variantRow => g \in variantRow'
    BY <1>5 DEF DeleteStep, DeleteVariant, DeleteBlob, DeleteRow, DeleteRefund
  <2>. QED
    BY <1>1, <1>4, <1>5, <2>1, VariantUndisturbed, EffectOfNone
<1>6. CASE g = del[k].file
  <2>1. up[g] \in {"done", "failed"}
    BY <1>3, <1>6 DEF Deletable, Safe, Alive, VariantOf, TypeOK, Uploading, Coded
  <2>2. VariantOf(g)'
    BY <1>1, <1>4, <2>1 DEF VariantOf, Variant, Coded
  <2>. QED
    BY <1>1, <2>2, EffectOfNone
<1>. QED
  BY <1>5, <1>6

(* Nobody takes back that a file was to be deleted.                        *)
LEMMA Asked ==
  ASSUME StoreInv({}), HandlerStep
  PROVE  dropped \subseteq dropped'
BY HandlersKeep DEF StoreInv, HandlerInv, TypeOK, Effect

LEMMA HandlersKeepVariant ==
  ASSUME StoreInv({}), faults = 0, faults' = 0, HandlerStep,
         NEW g \in Files, g \notin dropped', VariantOf(g)
  PROVE  VariantOf(g)' /\ VariantEffect(g)
<1>0. TypeOK /\ UploadInv /\ DeleteInv({}) /\ PurgeInv
  BY DEF StoreInv, HandlerInv
<1>1. ASSUME NEW f \in Files, UploadStep(f)
      PROVE  VariantOf(g)' /\ VariantEffect(g)
  <2>1. dropped' = dropped
    BY <1>1 DEF UploadStep, UploadCheck, UploadPut, UploadSave, UploadUndo, UploadCount
  <2>. QED
    BY <1>0, <1>1, <2>1, UploadsKeepVariant
<1>2. ASSUME NEW f \in Files, VariantStep(f)
      PROVE  VariantOf(g)' /\ VariantEffect(g)
  <2>1. dropped' = dropped
    BY <1>2 DEF VariantStep, VariantBegin, VariantPut, VariantReady
  <2>. QED
    BY <1>0, <1>2, <2>1, TranscodesKeepVariant
<1>3. ASSUME NEW k \in Deleters, DeleteStep(k)
      PROVE  VariantOf(g)' /\ VariantEffect(g)
  <2>1. dropped' = dropped
    BY <1>3 DEF DeleteStep, DeleteVariant, DeleteBlob, DeleteRow, DeleteRefund
  <2>. QED
    BY <1>0, <1>3, <2>1, DeletesKeepVariant
<1>4. ASSUME NEW f \in Files, NEW k \in Requests, UserDelete(k, f)
      PROVE  VariantOf(g)' /\ VariantEffect(g)
  <2>1. /\ UNCHANGED <<bucket, recentObj, variantRow, recentRow, up, upTo, acked>>
        /\ dropped \subseteq dropped'
    BY <1>4 DEF UserDelete, DeleteStart, storeVars
  <2>. QED
    BY <2>1, VariantUndisturbed, EffectOfNone
<1>5. CASE PurgeStep
  <2>1. FALSE
    <3>1. CASE PurgeList
      BY <3>1 DEF PurgeList
    <3>2. ASSUME NEW t \in purgeTodo, PurgeBlob(t) PROVE FALSE
      BY <1>0, <3>2 DEF PurgeBlob, PurgeInv
    <3>3. CASE PurgeRows \/ PurgeReset
      BY <1>0, <3>3 DEF PurgeRows, PurgeReset, PurgeInv
    <3>. QED
      BY <1>5, <3>1, <3>2, <3>3 DEF PurgeStep
  <2>. QED
    BY <2>1
<1>. QED
  BY <1>1, <1>2, <1>3, <1>4, <1>5 DEF HandlerStep

(* Listings age: what they say of a variant stays true of what it becomes. *)
LEMMA VariantListedKept ==
  ASSUME NEW g \in Files, VariantListed(g), VariantEffect(g), UNCHANGED scanVars,
         recentRow \subseteq recentRow' \/ spc = "idle"
  PROVE  VariantListed(g)'
<1> USE DEF scanVars
<1>1. /\ \A d \in Drives : Variant(g) \in oldListed[d] => up'[g] \in {"ready", "done"}
      /\ g \in variantKeys => up'[g] \in {"transcoding", "done"} \cup Coded
  BY DEF VariantListed, VariantEffect, Coded
<1>2. up'[g] \in Coded /\ spc # "idle" =>
        Variant(g) \in recentRow' \/ upTo'[g] \in unlisted \/ Variant(g) \in listing[upTo'[g]]
  BY DEF VariantListed, VariantEffect
<1>3. up'[g] = "ready" /\ spc \in {"drive", "repair"} =>
        g \in variantKeys \/ \A d \in Drives : Variant(g) \notin oldListed[d]
  BY DEF VariantListed, VariantEffect, Coded
<1>4. /\ spc = "repair" /\ Variant(g) \in orphans => up'[g] = "done"
      /\ spc = "variants" /\ g \in ghosts => up'[g] = "done"
  BY DEF VariantListed, VariantEffect
<1>. QED
  BY <1>1, <1>2, <1>3, <1>4 DEF VariantListed, Variant

LEMMA AgeKeepsVariant ==
  ASSUME TypeOK, ~SlowTranscodes, NEW f \in Files, Age(f), NEW g \in Files, VariantOf(g)
  PROVE  VariantOf(g)' /\ VariantEffect(g)
<1>1. UNCHANGED <<bucket, variantRow, up, upTo, acked>>
  BY DEF Age, handlerVars
<1>2. up[g] \in {"transcoding", "encoded"} =>
        /\ Variant(g) \in recentRow => Variant(g) \in recentRow'
        /\ \A d \in Drives : <<d, Variant(g)>> \in recentObj => <<d, Variant(g)>> \in recentObj'
  BY DEF Age, Variant
<1>3. VariantOf(g)'
  BY <1>1, <1>2 DEF VariantOf, Variant
<1>. QED
  BY <1>1, <1>3, EffectOfNone

LEMMA DyingKeepsVariant ==
  ASSUME TypeOK, HandlersDie, NEW g \in Files, VariantOf(g)
  PROVE  VariantOf(g)'
<1>1. UNCHANGED <<bucket, recentObj, variantRow, recentRow, upTo, acked>>
  BY DEF HandlersDie, storeVars
<1>2. up'[g] = up[g] \/ up'[g] = "done"
  BY DEF HandlersDie, TypeOK
<1>3. CASE up'[g] = up[g]
  BY <1>1, <1>3, VariantUndisturbed
<1>4. CASE up'[g] = "done"
  BY <1>1, <1>4, VariantNot DEF Coded
<1>. QED
  BY <1>2, <1>3, <1>4

LEMMA StopsListed ==
  ASSUME ScanStops, NEW g \in Files
  PROVE  VariantListed(g)' /\ ListedAll'
BY DEF ScanStops, VariantListed, ListedAll, Variant

(* The scan's own steps.                                                   *)
LEMMA ScanKeepsVariant ==
  ASSUME TypeOK, ScanTypeOK, ListedAll, faults = 0, faults' = 0, ScanStart \/ ScanStep,
         NEW g \in Files, VariantOf(g), VariantListed(g)
  PROVE  VariantOf(g)' /\ VariantListed(g)'
<1> USE DEF storeVars, handlerVars
<1>0. ~Fault
  BY DEF Fault
<1>1. ASSUME UNCHANGED <<storeVars, handlerVars, acked>>
      PROVE  VariantOf(g)'
  BY <1>1, VariantUndisturbed
<1>2. CASE ScanStart
  BY <1>1, <1>2 DEF ScanStart, allStoreVars, VariantListed, VariantOf, Variant
<1>3. CASE ScanKeys
  <2>1. /\ UNCHANGED <<storeVars, handlerVars, acked, unlisted, listing, oldListed, orphans, ghosts>>
        /\ variantKeys' = variantRow /\ spc = "keys" /\ spc' = "drive"
    BY <1>0, <1>3 DEF ScanKeys
  <2>2. VariantListed(g)'
    BY <2>1 DEF VariantListed, VariantOf, Variant, Coded
  <2>. QED
    BY <1>1, <2>1, <2>2
<1>4. CASE ScanDriveDone
  BY <1>1, <1>4 DEF ScanDriveDone, allStoreVars, VariantListed, Variant
<1>5. CASE ScanVariants
  <2>1. /\ UNCHANGED <<storeVars, handlerVars, acked, unlisted, listing, oldListed, variantKeys, orphans>>
        /\ ghosts' = GhostVariants /\ spc = "drive" /\ spc' = "variants" /\ unlisted = {}
    BY <1>5 DEF ScanVariants, allStoreVars, ListedAll
  <2>2. g \in GhostVariants => up[g] = "done"
    BY <2>1 DEF GhostVariants, VariantListed, VariantOf, Coded
  <2>3. VariantListed(g)'
    BY <2>1, <2>2 DEF VariantListed, Variant
  <2>. QED
    BY <1>1, <2>1, <2>3
<1>6. CASE ScanEnd
  BY <1>1, <1>6, StopsListed DEF ScanEnd, allStoreVars
<1>7. ASSUME NEW d \in Drives, ScanList(d)
      PROVE  VariantOf(g)' /\ VariantListed(g)'
  <2>1. /\ UNCHANGED <<storeVars, handlerVars, acked, variantKeys, orphans, ghosts>>
        /\ unlisted' = unlisted \ {d} /\ spc = "list" /\ spc' \in {"keys", "list"}
        /\ listing' = [listing EXCEPT ![d] = bucket[d]]
        /\ oldListed' = [oldListed EXCEPT ![d] = OldEnough(d)]
    BY <1>0, <1>7 DEF ScanList
  <2>2. \A e \in Drives : Variant(g) \in oldListed'[e] => up[g] \in {"ready", "done"}
    BY <2>1 DEF VariantListed, VariantOf, OldEnough, ScanTypeOK
  <2>3. up[g] \in Coded =>
          Variant(g) \in recentRow \/ upTo[g] \in unlisted' \/ Variant(g) \in listing'[upTo[g]]
    BY <2>1 DEF VariantListed, VariantOf, ScanTypeOK
  <2>4. VariantListed(g)'
    BY <2>1, <2>2, <2>3 DEF VariantListed, Variant
  <2>. QED
    BY <1>1, <2>1, <2>4
<1>8. ASSUME NEW d \in Drives, ScanDrive(d)
      PROVE  VariantOf(g)' /\ VariantListed(g)'
  <2>1. /\ UNCHANGED <<storeVars, handlerVars, acked, unlisted, listing, oldListed, variantKeys>>
        /\ orphans' = OrphanObjects(d) /\ spc = "drive" /\ spc' = "repair"
    BY <1>0, <1>8 DEF ScanDrive
  <2>2. Variant(g) \in OrphanObjects(d) => up[g] = "done"
    BY <2>1 DEF OrphanObjects, VariantListed, Variant
  <2>3. VariantListed(g)'
    BY <2>1, <2>2 DEF VariantListed, Variant
  <2>. QED
    BY <1>1, <2>1, <2>3
<1>9. ASSUME NEW o \in orphans, ScanOrphan(o)
      PROVE  VariantOf(g)' /\ VariantListed(g)'
  <2>1. /\ UNCHANGED <<recentObj, variantRow, recentRow, up, upTo, acked>>
        /\ UNCHANGED <<unlisted, listing, oldListed, variantKeys, ghosts>>
        /\ bucket' = Without(o, sdrive) /\ orphans' \subseteq orphans
        /\ spc = "repair" /\ spc' = "repair"
    BY <1>0, <1>9 DEF ScanOrphan
  <2>2. \A d \in Drives : /\ Variant(g) \in bucket'[d] => Variant(g) \in bucket[d]
                          /\ o # Variant(g) /\ Variant(g) \in bucket[d] => Variant(g) \in bucket'[d]
    BY <2>1 DEF Without, TypeOK
  <2>3. o = Variant(g) => up[g] = "done"
    BY <2>1 DEF VariantListed
  <2>4. VariantOf(g)'
    BY <2>1, <2>2, <2>3, VariantUndisturbed, VariantNot DEF Coded
  <2>5. VariantListed(g)'
    BY <2>1 DEF VariantListed, Variant
  <2>. QED
    BY <2>4, <2>5
<1>10. ASSUME NEW f \in ghosts, ScanGhost(f)
       PROVE  VariantOf(g)' /\ VariantListed(g)'
  <2>1. /\ UNCHANGED <<bucket, recentObj, variantRow, recentRow, up, upTo, acked>>
        /\ UNCHANGED <<unlisted, listing, oldListed, variantKeys, orphans>>
        /\ spc = "repair" /\ spc' = "repair"
    BY <1>10 DEF ScanGhost, DeleteStart, allStoreVars
  <2>2. VariantOf(g)'
    BY <2>1, VariantUndisturbed
  <2>3. VariantListed(g)'
    BY <2>1 DEF VariantListed, Variant
  <2>. QED
    BY <2>2, <2>3
<1>11. ASSUME NEW f \in ghosts, ScanVariantRow(f)
       PROVE  VariantOf(g)' /\ VariantListed(g)'
  <2>1. /\ UNCHANGED <<bucket, recentObj, recentRow, up, upTo, acked>>
        /\ UNCHANGED <<unlisted, listing, oldListed, variantKeys, orphans>>
        /\ variantRow' = variantRow \ {f} /\ ghosts' \subseteq ghosts
        /\ spc = "variants" /\ spc' = "variants"
    BY <1>0, <1>11 DEF ScanVariantRow
  <2>2. g = f => up[g] = "done"
    BY <2>1 DEF VariantListed
  <2>3. VariantOf(g)'
    BY <2>1, <2>2, VariantUndisturbed, VariantNot DEF Coded
  <2>4. VariantListed(g)'
    BY <2>1 DEF VariantListed, Variant
  <2>. QED
    BY <2>3, <2>4
<1>. QED
  BY <1>2, <1>3, <1>4, <1>5, <1>6, <1>7, <1>8, <1>9, <1>10, <1>11 DEF ScanStep

LEMMA ListedAllKept ==
  ASSUME ListedAll, ScanTypeOK, ScanStart \/ ScanStep
  PROVE  ListedAll'
BY DEF ListedAll, ScanTypeOK, ScanStep, ScanStart, ScanKeys, ScanDriveDone, ScanVariants, ScanEnd, ScanStops,
       ScanList, ScanDrive, ScanOrphan, ScanGhost, ScanVariantRow

(* Failures are counted and never forgotten.                               *)
LEMMA FaultsCount ==
  ASSUME [ReconcileNext]_reconcileVars
  PROVE  faults' \in {faults, faults + 1}
<1> USE DEF Fault
<1>1. ASSUME NEW f \in Files, UploadStep(f) \/ VariantStep(f) \/ Age(f)
      PROVE  faults' \in {faults, faults + 1}
  BY <1>1 DEF UploadStep, UploadCheck, UploadPut, UploadSave, UploadUndo, UploadCount,
              VariantStep, VariantBegin, VariantPut, VariantReady, Age
<1>2. ASSUME NEW f \in Files, NEW k \in Requests, UserDelete(k, f)
      PROVE  faults' \in {faults, faults + 1}
  BY <1>2 DEF UserDelete, DeleteStart
<1>3. ASSUME NEW k \in Deleters, DeleteStep(k)
      PROVE  faults' \in {faults, faults + 1}
  BY <1>3 DEF DeleteStep, DeleteVariant, DeleteBlob, DeleteRow, DeleteRefund
<1>4. CASE PurgeStep
  <2>1. ASSUME NEW t \in purgeTodo, PurgeBlob(t)
        PROVE  faults' \in {faults, faults + 1}
    BY <2>1 DEF PurgeBlob
  <2>. QED
    BY <1>4, <2>1 DEF PurgeStep, PurgeList, PurgeRows, PurgeReset
<1>5. CASE HandlersDie \/ ScanStart \/ UNCHANGED reconcileVars
  BY <1>5 DEF HandlersDie, ScanStart, reconcileVars, allStoreVars
<1>6. CASE ScanStep
  BY <1>6 DEF ScanStep, ScanKeys, ScanDriveDone, ScanVariants, ScanEnd, ScanList, ScanDrive,
              ScanOrphan, ScanGhost, ScanVariantRow, DeleteStart, allStoreVars
<1>. QED
  BY <1>1, <1>2, <1>3, <1>4, <1>5, <1>6 DEF ReconcileNext, AgeWhenIdle, HandlerStep

(* A kept file's variant, and what scans know of it, through any step.     *)
LEMMA StepKeepsVariant ==
  ASSUME StoreInv({}), ScanInv({}), VariantInv, [ReconcileNext]_reconcileVars, NoFailure',
         NEW g \in Files, g \notin dropped'
  PROVE  VariantOf(g)' /\ VariantListed(g)'
<1>0. TypeOK /\ ScanTypeOK /\ ListedAll
  BY DEF StoreInv, HandlerInv, ScanInv, VariantInv
<1>1. faults = 0 /\ faults' = 0 /\ ~SlowTranscodes
  BY <1>0, FaultsCount DEF NoFailure, TypeOK
<1>2. g \notin dropped => VariantOf(g) /\ VariantListed(g)
  BY <1>1 DEF VariantInv, NoFailure
<1>3. CASE HandlerStep /\ UNCHANGED scanVars
  <2>1. g \notin dropped
    BY <1>3, Asked
  <2>. QED
    BY <1>1, <1>2, <1>3, <2>1, HandlersKeepVariant, VariantListedKept, YoungRowsStay
<1>4. CASE AgeWhenIdle
  <2>1. PICK f \in Files : Age(f) /\ spc = "idle" /\ UNCHANGED scanVars
    BY <1>4 DEF AgeWhenIdle
  <2>2. g \notin dropped
    BY <2>1 DEF Age
  <2>. QED
    BY <1>0, <1>1, <1>2, <2>1, <2>2, AgeKeepsVariant, VariantListedKept
<1>5. CASE HandlersDie /\ ScanStops
  <2>1. g \notin dropped
    BY <1>5 DEF HandlersDie
  <2>. QED
    BY <1>0, <1>2, <1>5, <2>1, DyingKeepsVariant, StopsListed
<1>6. CASE ScanStart \/ ScanStep
  <2>1. dropped' = dropped
    BY <1>6 DEF ScanStep, ScanStart, ScanKeys, ScanDriveDone, ScanVariants, ScanEnd, ScanList, ScanDrive,
           ScanOrphan, ScanGhost, ScanVariantRow, DeleteStart, allStoreVars
  <2>. QED
    BY <1>0, <1>1, <1>2, <1>6, <2>1, ScanKeepsVariant
<1>7. CASE UNCHANGED reconcileVars
  <2>1. UNCHANGED <<storeVars, handlerVars, acked, dropped, scanVars>>
    BY <1>7 DEF reconcileVars, allStoreVars
  <2>2. VariantOf(g)'
    BY <1>2, <2>1, VariantUndisturbed DEF storeVars, handlerVars
  <2>3. VariantListed(g)'
    BY <1>2, <2>1, EffectOfNone, VariantListedKept DEF storeVars, handlerVars
  <2>. QED
    BY <2>2, <2>3
<1>. QED
  BY <1>3, <1>4, <1>5, <1>6, <1>7 DEF ReconcileNext

(* Without failures, scans and the variants of files nobody asked to       *)
(* delete stay in step, whatever handlers and crashes do.                  *)
THEOREM VariantInvariance == ReconcileSpec => []VariantInv
<1>1. ReconcileInit => VariantInv
  BY DEF ReconcileInit, StoreInit, ScanIdle, VariantInv, ListedAll, VariantOf, VariantListed, Variant, Coded
<1>2. StoreInv({}) /\ ScanInv({}) /\ VariantInv /\ [ReconcileNext]_reconcileVars => VariantInv'
  <2> SUFFICES ASSUME StoreInv({}), ScanInv({}), VariantInv, [ReconcileNext]_reconcileVars
               PROVE  VariantInv'
    OBVIOUS
  <2>0. ScanTypeOK /\ ListedAll
    BY DEF ScanInv, VariantInv
  <2>1. ListedAll'
    <3>1. CASE UNCHANGED scanVars
      BY <2>0, <3>1 DEF scanVars, ListedAll
    <3>2. CASE ScanStops
      BY <3>2 DEF ScanStops, ListedAll
    <3>. QED
      BY <2>0, <3>1, <3>2, ListedAllKept DEF ReconcileNext, AgeWhenIdle, reconcileVars
  <2>. QED
    BY <2>1, StepKeepsVariant DEF VariantInv
<1>. QED
  BY <1>1, <1>2, ScanInvariance, PTL DEF ReconcileSpec

(* No scan makes a file unreadable that was reported as stored and that    *)
(* nobody asked to delete; nor, without failures and when transcodes end   *)
(* within the grace period, does any take the row or the object of such a  *)
(* file's finished transcode.                                              *)
THEOREM ScansSpare == ReconcileSpec => []ScanSpares
<1>1. VariantInv => VariantKept
  BY DEF VariantInv, NoFailure, VariantOf, VariantKept, VariantIntact, Coded
<1>. QED
  BY <1>1, VariantInvariance, ScanDurable, PTL DEF ScanSpares

----------------------------------------------------------------------------
(* The migrations.                                                         *)

(* A job has visited a file of its listing once; what it lists and holds   *)
(* is past its insert.                                                     *)
JobOK(j) ==
  /\ mpc[j] \in {"list", "next", "put", "remove", "record"} => mto[j] \in Drives
  /\ mpc[j] \in {"put", "remove", "record"} => mcur[j][1] \in Files
  /\ mpc[j] \in {"new", "checked", "list", "next"} => mcur[j] = NoMove
  /\ mpc[j] \in {"new", "checked", "list"} => mtodo[j] = {}
  /\ mcur[j][1] \in Files => up[mcur[j][1]] \notin Early
  /\ \A t \in mtodo[j] :
       /\ up[t[1]] \notin Early /\ t[1] # mcur[j][1]
       /\ \A s \in mtodo[j] : s[1] = t[1] => s = t

(* A safe file that a job has listed and not visited is where it was when  *)
(* listed, and nowhere else.                                               *)
Pending(j, L) ==
  \A t \in mtodo[j] : Safe(t[1], L) => Untouched(t[1]) /\ t[2] = drive[t[1]]

(* Where a safe file in a job's hands is.                                  *)
InHand(j, L) ==
  mpc[j] \in {"put", "remove", "record"} /\ Safe(mcur[j][1], L) =>
    /\ mpc[j] = "put" =>
         /\ Untouched(mcur[j][1])
         /\ mcur[j][2] = drive[mcur[j][1]] /\ mto[j] # drive[mcur[j][1]]
    /\ mpc[j] = "remove" =>
         /\ Readable(mcur[j][1]) /\ Main(mcur[j][1]) \in bucket[mto[j]]
         /\ mcur[j][2] = drive[mcur[j][1]] /\ mto[j] # drive[mcur[j][1]]
    /\ mpc[j] = "record" =>
         drive[mcur[j][1]] \in Drives /\ Main(mcur[j][1]) \in bucket[mto[j]]

(* Before a job has listed anything, no file has been moved.               *)
Unmoved(L) ==
  (\A j \in Jobs : mpc[j] \in {"new", "checked", "list"}) =>
    \A f \in Files : Safe(f, L) /\ up[f] \notin Early => Untouched(f)

Recording(f) == \E j \in Jobs : mcur[j][1] = f /\ mpc[j] = "record"

(* A safe file is readable but for the moment between the removal of its   *)
(* source and the update of its row.                                       *)
PlacedOrMoving(L) ==
  \A f \in Files : Safe(f, L) /\ up[f] \notin Early => Readable(f) \/ Recording(f)

JobsInv(L) ==
  /\ MigrationTypeOK /\ (\A j \in Jobs : JobOK(j))
  /\ (\A j \in Jobs : Pending(j, L) /\ InHand(j, L))
  /\ Unmoved(L) /\ PlacedOrMoving(L)

(* The moved file aside, a job's step touches no file: it changes nothing  *)
(* of g's.                                                                 *)
Apart(g) ==
  /\ up'[g] = up[g] /\ upTo'[g] = upTo[g] /\ drive'[g] = drive[g]
  /\ \A d \in Drives : Main(g) \in bucket'[d] <=> Main(g) \in bucket[d]

(* Other steps keep the jobs' invariant if they leave past their insert    *)
(* what is, and spare the safe files - those in a job's hands altogether.  *)
LEMMA OthersKeepJobs ==
  ASSUME NEW L, JobsInv(L), UNCHANGED migVars,
         \A g \in Files :
           /\ up[g] \notin Early => up'[g] \notin Early
           /\ Safe(g, L)' => Safe(g, L)
           /\ up[g] \in Early /\ up'[g] \notin Early /\ Safe(g, L)' => Untouched(g)'
           /\ up[g] \notin Early /\ Safe(g, L)' =>
                /\ drive'[g] = drive[g] /\ upTo'[g] = upTo[g]
                /\ \A d \in Drives : Main(g) \in bucket'[d] => Main(g) \in bucket[d]
                /\ Readable(g) => Readable(g)'
                /\ Moving(g) => \A d \in Drives : Main(g) \in bucket[d] => Main(g) \in bucket'[d]
  PROVE  JobsInv(L)'
<1> USE DEF migVars
<1>0. /\ MigrationTypeOK /\ (\A j \in Jobs : JobOK(j))
      /\ (\A j \in Jobs : Pending(j, L) /\ InHand(j, L))
      /\ Unmoved(L) /\ PlacedOrMoving(L)
  BY DEF JobsInv
<1>1. \A g \in Files : up[g] \notin Early /\ Safe(g, L)' /\ Untouched(g) => Untouched(g)'
  <2> SUFFICES ASSUME NEW g \in Files, up[g] \notin Early, Safe(g, L)', Untouched(g)
               PROVE  Untouched(g)'
    OBVIOUS
  <2>1. Readable(g)
    BY DEF Untouched, Readable
  <2>2. Readable(g)' /\ drive'[g] = drive[g] /\ upTo'[g] = upTo[g]
    BY <2>1
  <2>. QED
    BY <2>2 DEF Untouched, Readable, Main
<1>2. MigrationTypeOK' /\ \A j \in Jobs : JobOK(j)'
  <2>1. MigrationTypeOK'
    BY <1>0 DEF MigrationTypeOK
  <2>2. ASSUME NEW j \in Jobs
        PROVE  JobOK(j)'
    <3>1. \A t \in mtodo[j] : t[1] \in Files
      BY <1>0 DEF MigrationTypeOK
    <3>. QED
      BY <1>0, <3>1 DEF JobOK
  <2>. QED
    BY <2>1, <2>2
<1>3. ASSUME NEW j \in Jobs
      PROVE  Pending(j, L)'
  <2>1. \A t \in mtodo[j] : t[1] \in Files /\ up[t[1]] \notin Early
    BY <1>0 DEF MigrationTypeOK, JobOK
  <2>. QED
    BY <1>0, <1>1, <2>1 DEF Pending
<1>4. ASSUME NEW j \in Jobs
      PROVE  InHand(j, L)'
  <2>1. CASE mpc[j] \notin {"put", "remove", "record"}
    BY <2>1 DEF InHand
  <2>2. CASE mpc[j] \in {"put", "remove", "record"} /\ Safe(mcur[j][1], L)'
    <3>1. /\ mcur[j][1] \in Files /\ up[mcur[j][1]] \notin Early /\ Moving(mcur[j][1])
          /\ mto[j] \in Drives
      BY <1>0, <2>2 DEF JobOK, Moving
    <3>. QED
      BY <1>0, <1>1, <2>2, <3>1 DEF InHand, Main
  <2>. QED
    BY <2>1, <2>2 DEF InHand
<1>5. Unmoved(L)'
  BY <1>0, <1>1 DEF Unmoved
<1>6. PlacedOrMoving(L)'
  <2> SUFFICES ASSUME NEW f \in Files, Safe(f, L)', up'[f] \notin Early
               PROVE  Readable(f)' \/ Recording(f)'
    BY DEF PlacedOrMoving
  <2>1. CASE up[f] \in Early
    BY <2>1 DEF Untouched, Readable
  <2>2. CASE up[f] \notin Early
    BY <1>0, <2>2 DEF PlacedOrMoving, Recording
  <2>. QED
    BY <2>1, <2>2
<1>. QED
  BY <1>2, <1>3, <1>4, <1>5, <1>6 DEF JobsInv

(* What a step of job j does to it, to the other jobs and to the store.    *)
Progress(j, L) ==
  /\ TypeOK' /\ MigrationTypeOK' /\ JobOK(j)' /\ Pending(j, L)' /\ InHand(j, L)'
  /\ \A i \in Jobs \ {j} :
       mpc'[i] = mpc[i] /\ mto'[i] = mto[i] /\ mtodo'[i] = mtodo[i] /\ mcur'[i] = mcur[i]
  /\ mpc'[j] \in {"new", "checked"} => mpc[j] \in {"new", "checked"}
  /\ mpc'[j] = "list" => mpc[j] = "checked"
  /\ UNCHANGED <<recentRow, handlerVars, acked, dropped>> /\ recentObj \subseteq recentObj'
  /\ \A g \in Files : g # mcur[j][1] => Apart(g)
  /\ \A g \in Files : g = mcur[j][1] /\ Safe(g, L) => Readable(g)' \/ Recording(g)'

LEMMA NothingInHand ==
  ASSUME NEW j \in Jobs, JobOK(j), mpc[j] \in {"new", "checked", "list", "next"}
  PROVE  mcur[j] = NoMove /\ mcur[j][1] \notin Files
BY FileStoreAssumption DEF JobOK, NoMove

LEMMA ProgressKeepsHandlers ==
  ASSUME NEW L, HandlerInv(L), JobsInv(L), NEW j \in Jobs, Progress(j, L)
  PROVE  HandlerInv(L)' /\ \A g \in Files : Safe(g, L)' <=> Safe(g, L)
<1> USE DEF handlerVars
<1>0. TypeOK /\ UploadInv /\ DeleteInv(L) /\ PurgeInv /\ JobOK(j) /\ TypeOK'
  BY DEF HandlerInv, JobsInv, Progress
<1>1. UNCHANGED <<up, upTo, del, purge, purgeTodo, acked, dropped>> /\ recentObj \subseteq recentObj'
  BY DEF Progress
<1>2. \A g \in Files : (Safe(g, L)' <=> Safe(g, L)) /\ (up[g] \in Early => Apart(g))
  BY <1>0, <1>1 DEF Safe, Alive, Progress, JobOK
<1>3. UploadInv'
  <2> SUFFICES ASSUME NEW g \in Files
               PROVE  UploadInvOf(g)'
    BY DEF UploadInv
  <2>1. UploadInvOf(g) /\ (up[g] \in Early => Apart(g))
    BY <1>0, <1>2 DEF UploadInv
  <2>. QED
    BY <1>1, <2>1 DEF UploadInvOf, Apart, Early, Resolved, Main
<1>4. DeleteInv(L)' /\ PurgeInv'
  BY <1>0, <1>1, <1>2 DEF DeleteInv, Deletable, PurgeInv
<1>. QED
  BY <1>0, <1>2, <1>3, <1>4 DEF HandlerInv

LEMMA ProgressKeepsJobs ==
  ASSUME NEW L, HandlerInv(L), JobsInv(L), NEW j \in Jobs, Progress(j, L),
         OneJobStarted' \/ Files \subseteq L
  PROVE  JobsInv(L)'
<1> USE DEF handlerVars
<1>0. /\ MigrationTypeOK /\ (\A i \in Jobs : JobOK(i))
      /\ (\A i \in Jobs : Pending(i, L) /\ InHand(i, L))
      /\ Unmoved(L) /\ PlacedOrMoving(L) /\ UNCHANGED up
      /\ \A g \in Files : Safe(g, L)' <=> Safe(g, L)
  BY ProgressKeepsHandlers DEF JobsInv, Progress
<1>1. ASSUME NEW i \in Jobs
      PROVE  JobOK(i)'
  BY <1>0, <1>1 DEF Progress, JobOK
<1>2. \A g \in Files : Apart(g) => /\ Untouched(g) => Untouched(g)'
                                   /\ Readable(g) => Readable(g)'
  BY DEF Apart, Untouched, Readable, Main
<1>3. ASSUME NEW i \in Jobs
      PROVE  Pending(i, L)' /\ InHand(i, L)'
  <2>1. CASE i = j
    BY <2>1 DEF Progress
  <2>2. CASE i # j /\ mcur[j][1] \notin Files
    <3>1. (\A g \in Files : Apart(g)) /\ mpc'[i] = mpc[i] /\ mto'[i] = mto[i]
          /\ mtodo'[i] = mtodo[i] /\ mcur'[i] = mcur[i]
      BY <2>2 DEF Progress
    <3>2. Pending(i, L)'
      <4>1. \A t \in mtodo[i] : t[1] \in Files
        BY <1>0 DEF MigrationTypeOK
      <4>. QED
        BY <1>0, <1>2, <3>1, <4>1 DEF Pending, Apart
    <3>3. InHand(i, L)'
      <4>1. CASE mpc[i] \notin {"put", "remove", "record"}
        BY <3>1, <4>1 DEF InHand
      <4>2. CASE mpc[i] \in {"put", "remove", "record"} /\ Safe(mcur[i][1], L)'
        <5>1. mcur[i][1] \in Files /\ mto[i] \in Drives
          BY <1>0, <4>2 DEF JobOK
        <5>. QED
          BY <1>0, <1>2, <3>1, <4>2, <5>1 DEF InHand, Apart, Main
      <4>. QED
        BY <3>1, <4>1, <4>2 DEF InHand
    <3>. QED
      BY <3>2, <3>3
  <2>3. CASE i # j /\ mcur[j][1] \in Files /\ Files \subseteq L
    <3>1. \A t \in mtodo'[i] : t[1] \in Files
      BY DEF Progress, MigrationTypeOK
    <3>2. mpc'[i] \in {"put", "remove", "record"} => mcur'[i][1] \in Files
      BY <1>1 DEF JobOK
    <3>. QED
      BY <2>3, <3>1, <3>2 DEF Pending, InHand, Safe
  <2>4. CASE i # j /\ mcur[j][1] \in Files /\ OneJobStarted'
    <3>1. mpc[j] \notin {"new", "checked"}
      BY <1>0, <2>4, NothingInHand
    <3>2. mpc'[i] \in {"new", "checked"}
      BY <2>4, <3>1 DEF OneJobStarted, Started, Progress
    <3>. QED
      BY <1>1, <3>2 DEF JobOK, Pending, InHand
  <2>. QED
    BY <2>1, <2>2, <2>3, <2>4
<1>4. Unmoved(L)'
  <2> SUFFICES ASSUME \A i \in Jobs : mpc'[i] \in {"new", "checked", "list"}
               PROVE  \A f \in Files : Safe(f, L) /\ up[f] \notin Early => Untouched(f)'
    BY <1>0 DEF Unmoved
  <2>1. \A i \in Jobs : mpc[i] \in {"new", "checked", "list"}
    BY DEF Progress
  <2>2. \A g \in Files : Apart(g)
    BY <1>0, <2>1, NothingInHand DEF Progress
  <2>. QED
    BY <1>0, <1>2, <2>1, <2>2 DEF Unmoved
<1>5. PlacedOrMoving(L)'
  <2> SUFFICES ASSUME NEW f \in Files, Safe(f, L), up[f] \notin Early
               PROVE  Readable(f)' \/ Recording(f)'
    BY <1>0 DEF PlacedOrMoving
  <2>1. CASE f = mcur[j][1]
    BY <2>1 DEF Progress
  <2>2. CASE f # mcur[j][1] /\ Readable(f)
    BY <1>2, <2>2 DEF Progress
  <2>3. CASE f # mcur[j][1] /\ Recording(f)
    BY <2>3 DEF Progress, Recording
  <2>. QED
    BY <1>0, <2>1, <2>2, <2>3 DEF PlacedOrMoving
<1>6. MigrationTypeOK'
  BY DEF Progress
<1>. QED
  BY <1>1, <1>3, <1>4, <1>5, <1>6 DEF JobsInv

(* A job's variables keep their types.                                     *)
LEMMA JobTypes ==
  ASSUME MigrationTypeOK, NEW j \in Jobs, RequestCheck(j) \/ RequestCreate(j) \/ MigrateStep(j),
         TypeOK, JobOK(j)
  PROVE  MigrationTypeOK' /\ faults' \in Nat
<1> USE DEF MigrationTypeOK
<1>1. faults' \in Nat
  BY DEF RequestCheck, RequestCreate, MigrateStep, MigrateList, MigrateNext, MigratePut,
         MigrateRemove, MigrateRecord, MigrateFinish, MigrateFail, Fault, TypeOK, allStoreVars
<1>2. CASE RequestCheck(j)
  BY <1>1, <1>2 DEF RequestCheck
<1>3. CASE RequestCreate(j)
  BY <1>1, <1>3 DEF RequestCreate
<1>4. CASE MigrateList(j)
  <2>1. {<<f, drive[f]>> : f \in Subtree[FolderOf[j]] \cap Rows} \subseteq Files \X Drives
    BY DEF Rows, TypeOK
  <2>. QED
    BY <1>1, <1>4, <2>1 DEF MigrateList, Abort
<1>5. ASSUME NEW t \in mtodo[j], MigrateNext(j, t)
      PROVE  MigrationTypeOK'
  <2>1. t \in Files \X Drives /\ <<t[1], Primary>> \in Files \X Drives /\ t = <<t[1], t[2]>>
    BY FileStoreAssumption
  <2>2. mcur' \in [Jobs -> (Files \X Drives) \cup {NoMove}]
    BY <1>5, <2>1 DEF MigrateNext
  <2>3. mtodo' \in [Jobs -> SUBSET (Files \X Drives)] /\ UNCHANGED <<mstatus, mto, unrecorded>>
    BY <1>5 DEF MigrateNext
  <2>4. mpc' \in [Jobs -> {"new", "checked", "list", "next", "put", "remove", "record",
                           "fail", "stuck", "over"}]
    BY <1>5 DEF MigrateNext, Abort
  <2>. QED
    BY <2>2, <2>3, <2>4
<1>6. CASE MigratePut(j)
  BY <1>1, <1>6 DEF MigratePut, Abort
<1>7. CASE MigrateRemove(j)
  BY <1>1, <1>7 DEF MigrateRemove
<1>8. CASE MigrateRecord(j)
  BY <1>1, <1>8 DEF MigrateRecord, Abort, JobOK
<1>9. CASE MigrateFinish(j)
  BY <1>1, <1>9 DEF MigrateFinish, Abort
<1>10. CASE MigrateFail(j)
  BY <1>1, <1>10 DEF MigrateFail
<1>. QED
  BY <1>1, <1>2, <1>3, <1>4, <1>5, <1>6, <1>7, <1>8, <1>9, <1>10 DEF MigrateStep

(* The steps that only change the job.                                     *)
LEMMA QuietProgress ==
  ASSUME NEW L, HandlerInv(L), JobsInv(L), NEW j \in Jobs, OneJobStarted' \/ Files \subseteq L,
         \/ RequestCheck(j) \/ RequestCreate(j) \/ MigrateList(j)
         \/ MigrateFinish(j) \/ MigrateFail(j)
  PROVE  Progress(j, L)
<1> USE DEF storeVars, handlerVars
<1>0. /\ TypeOK /\ MigrationTypeOK /\ JobOK(j) /\ Pending(j, L) /\ InHand(j, L) /\ Unmoved(L)
      /\ PlacedOrMoving(L)
  BY DEF HandlerInv, JobsInv
<1>1. MigrationTypeOK' /\ faults' \in Nat
  BY <1>0, JobTypes DEF MigrateStep
<1>2. UNCHANGED <<storeVars, handlerVars, crashes, acked, dropped>>
  BY DEF RequestCheck, RequestCreate, MigrateList, MigrateFinish, MigrateFail, allStoreVars
<1>3. TypeOK' /\ (\A g \in Files : Apart(g)) /\ \A g \in Files : Safe(g, L)' <=> Safe(g, L)
  BY <1>0, <1>1, <1>2 DEF TypeOK, Apart, Safe, Alive, Main
<1>4. /\ \A i \in Jobs \ {j} :
           mpc'[i] = mpc[i] /\ mto'[i] = mto[i] /\ mtodo'[i] = mtodo[i] /\ mcur'[i] = mcur[i]
      /\ mpc'[j] \in {"new", "checked"} => mpc[j] \in {"new", "checked"}
      /\ mpc'[j] = "list" => mpc[j] = "checked"
  BY <1>0 DEF RequestCheck, RequestCreate, MigrateList, MigrateFinish, MigrateFail, Abort,
              MigrationTypeOK
<1>5. \A g \in Files : g = mcur[j][1] /\ Safe(g, L) => Readable(g)' \/ Recording(g)'
  <2> SUFFICES ASSUME NEW g \in Files, g = mcur[j][1], Safe(g, L)
               PROVE  Readable(g)' \/ Recording(g)'
    OBVIOUS
  <2>1. mpc[j] # "record" /\ up[g] \notin Early
    BY <1>0 DEF RequestCheck, RequestCreate, MigrateList, MigrateFinish, MigrateFail, JobOK
  <2>2. Readable(g) \/ Recording(g)
    BY <1>0, <2>1 DEF PlacedOrMoving
  <2>3. Readable(g) => Readable(g)'
    BY <1>2 DEF Readable, Main
  <2>4. Recording(g) => Recording(g)'
    BY <1>4, <2>1 DEF Recording
  <2>. QED
    BY <2>2, <2>3, <2>4
<1>6. CASE RequestCheck(j) \/ RequestCreate(j)
  <2>1. /\ mcur'[j] = mcur[j] /\ mtodo'[j] = mtodo[j] /\ mtodo[j] = {} /\ mcur[j] = NoMove
        /\ mpc'[j] \in {"checked", "list", "over"} /\ (mpc'[j] = "list" => mto'[j] \in Drives)
    BY <1>0, <1>6 DEF RequestCheck, RequestCreate, JobOK, MigrationTypeOK
  <2>2. JobOK(j)' /\ Pending(j, L)' /\ InHand(j, L)'
    BY <2>1, FileStoreAssumption DEF JobOK, NoMove, Pending, InHand
  <2>. QED
    BY <1>1, <1>2, <1>3, <1>4, <1>5, <2>2 DEF Progress
<1>7. CASE MigrateList(j)
  <2>1. /\ mcur'[j] = NoMove /\ mpc'[j] \in {"next", "fail"} /\ mto'[j] \in Drives
        /\ \/ mtodo'[j] = {}
           \/ mtodo'[j] = {<<f, drive[f]>> : f \in Subtree[FolderOf[j]] \cap Rows}
    BY <1>0, <1>7 DEF MigrateList, Abort, JobOK, MigrationTypeOK
  <2>2. \A t \in mtodo'[j] : t[1] \in Rows /\ t[2] = drive[t[1]] /\ t = <<t[1], drive[t[1]]>>
    BY <2>1
  <2>3. \A f \in Rows : f \in Files /\ up[f] \notin Early /\ f # NoFile
    BY FileStoreAssumption DEF Rows, HandlerInv, UploadInv, UploadInvOf
  <2>4. JobOK(j)'
    BY <1>2, <2>1, <2>2, <2>3, FileStoreAssumption DEF JobOK, NoMove
  <2>5. InHand(j, L)'
    BY <2>1 DEF InHand
  <2>6. Pending(j, L)'
    <3> SUFFICES ASSUME NEW t \in mtodo'[j], Safe(t[1], L)'
                 PROVE  Untouched(t[1])' /\ t[2] = drive'[t[1]]
      BY DEF Pending
    <3>1. t[1] \in Files /\ Safe(t[1], L) /\ up[t[1]] \notin Early
      BY <1>3, <2>2, <2>3
    <3>2. \A i \in Jobs : mpc[i] \in {"new", "checked", "list"}
      <4>1. OneJobStarted'
        BY <3>1 DEF Safe
      <4>2. mpc'[j] \notin {"new", "checked"} /\ mpc[j] = "list"
        BY <1>7, <2>1 DEF MigrateList
      <4>. QED
        BY <1>4, <4>1, <4>2 DEF OneJobStarted, Started
    <3>3. Untouched(t[1])
      BY <1>0, <3>1, <3>2 DEF Unmoved
    <3>. QED
      BY <1>2, <2>2, <3>3 DEF Untouched, Main
  <2>. QED
    BY <1>1, <1>2, <1>3, <1>4, <1>5, <2>4, <2>5, <2>6 DEF Progress
<1>8. CASE MigrateFinish(j) \/ MigrateFail(j)
  <2>1. /\ mpc'[j] \in {"over", "fail", "stuck"} /\ mtodo'[j] = {}
        /\ mcur'[j] = NoMove
    BY <1>0, <1>8 DEF MigrateFinish, MigrateFail, Abort, JobOK, MigrationTypeOK
  <2>2. JobOK(j)' /\ Pending(j, L)' /\ InHand(j, L)'
    BY <2>1, FileStoreAssumption DEF JobOK, NoMove, Pending, InHand
  <2>. QED
    BY <1>1, <1>2, <1>3, <1>4, <1>5, <2>2 DEF Progress
<1>. QED
  BY <1>6, <1>7, <1>8

(* The next file of the listing.  If the primary is read instead of the    *)
(* file's drive, the object is not found there.                            *)
LEMMA NextProgress ==
  ASSUME NEW L, HandlerInv(L), JobsInv(L), NEW j \in Jobs, NEW t \in mtodo[j], MigrateNext(j, t)
  PROVE  Progress(j, L)
<1> USE DEF storeVars, handlerVars
<1>0. /\ TypeOK /\ MigrationTypeOK /\ JobOK(j) /\ Pending(j, L)
      /\ t \in Files \X Drives /\ t = <<t[1], t[2]>>
  BY DEF HandlerInv, JobsInv, MigrationTypeOK
<1>1. MigrationTypeOK' /\ faults' \in Nat
  BY <1>0, JobTypes DEF MigrateStep
<1>2. UNCHANGED <<storeVars, handlerVars, crashes, acked, dropped>>
  BY DEF MigrateNext
<1>3. TypeOK' /\ (\A g \in Files : Apart(g)) /\ \A g \in Files : Safe(g, L)' <=> Safe(g, L)
  BY <1>0, <1>1, <1>2 DEF TypeOK, Apart, Safe, Alive, Main
<1>4. /\ \A i \in Jobs \ {j} :
           mpc'[i] = mpc[i] /\ mto'[i] = mto[i] /\ mtodo'[i] = mtodo[i] /\ mcur'[i] = mcur[i]
      /\ mpc'[j] \in {"record", "put", "fail"} /\ mto'[j] = mto[j] /\ mto[j] \in Drives
      /\ mtodo'[j] = mtodo[j] \ {t} /\ mcur[j] = NoMove /\ mcur[j][1] \notin Files
  BY <1>0, NothingInHand DEF MigrateNext, Abort, MigrationTypeOK, JobOK
<1>5. \/ t[2] = mto[j] /\ mpc'[j] = "record" /\ mcur'[j] = t
      \/ /\ t[2] # mto[j] /\ mcur'[j] = t
         /\ mpc'[j] \in {"put", "fail"}
      \/ /\ mcur'[j] = <<t[1], Primary>> /\ Primary # t[2]
         /\ mpc'[j] = IF Main(t[1]) \in bucket[Primary] THEN "put" ELSE "fail"
      \/ mcur'[j] = NoMove /\ mpc'[j] = "fail"
  <2>1. CASE AlreadyThere(j, t) /\ mcur' = [mcur EXCEPT ![j] = t] /\ mpc' = [mpc EXCEPT ![j] = "record"]
    BY <1>0, <2>1 DEF AlreadyThere, MigrationTypeOK
  <2>2. ASSUME NEW source \in {t[2], Primary}, ~AlreadyThere(j, t),
               mcur' = [mcur EXCEPT ![j] = <<t[1], source>>],
               IF Main(t[1]) \in bucket[source] THEN mpc' = [mpc EXCEPT ![j] = "put"] ELSE Abort(j)
        PROVE  \/ t[2] # mto[j] /\ mcur'[j] = t /\ mpc'[j] \in {"put", "fail"}
               \/ /\ mcur'[j] = <<t[1], Primary>> /\ Primary # t[2]
                  /\ mpc'[j] = IF Main(t[1]) \in bucket[Primary] THEN "put" ELSE "fail"
    <3>1. mcur'[j] = <<t[1], source>>
          /\ mpc'[j] = IF Main(t[1]) \in bucket[source] THEN "put" ELSE "fail"
      BY <1>0, <2>2 DEF Abort, MigrationTypeOK
    <3>. QED
      BY <1>0, <2>2, <3>1 DEF AlreadyThere
  <2>3. CASE Abort(j) /\ UNCHANGED mcur
    BY <1>0, <1>4, <2>3 DEF Abort, MigrationTypeOK
  <2>. QED
    BY <2>1, <2>2, <2>3 DEF MigrateNext
<1>6. /\ up[t[1]] \notin Early /\ (\A s \in mtodo'[j] : s[1] # t[1]) /\ t[1] \in Files
      /\ Safe(t[1], L) => Untouched(t[1]) /\ t[2] = drive[t[1]]
  BY <1>0, <1>4 DEF JobOK, Pending
<1>7. JobOK(j)'
  <2>1. mcur'[j][1] = t[1] \/ (mcur'[j][1] \notin Files /\ mpc'[j] = "fail")
    BY <1>5, FileStoreAssumption DEF NoMove
  <2>2. \A s \in mtodo'[j] : s[1] # mcur'[j][1]
    BY <1>0, <1>4, <1>6, <2>1 DEF MigrationTypeOK
  <2>. QED
    BY <1>0, <1>2, <1>4, <1>6, <2>1, <2>2 DEF JobOK
<1>8. Pending(j, L)'
  <2>1. \A s \in mtodo'[j] : s \in mtodo[j] /\ s[1] \in Files
    BY <1>0, <1>4 DEF MigrationTypeOK
  <2>. QED
    BY <1>0, <1>2, <1>3, <2>1 DEF Pending, Untouched, Main
<1>9. InHand(j, L)'
  <2>1. CASE mpc'[j] = "fail"
    BY <2>1 DEF InHand
  <2>2. CASE mpc'[j] \in {"put", "record"}
    <3>1. mcur'[j][1] = t[1]
      BY <1>5, <2>2
    <3>2. Safe(mcur[j][1], L)' => Untouched(t[1]) /\ t[2] = drive[t[1]]
      BY <1>2, <1>6, <3>1 DEF Safe, Alive
    <3>3. ASSUME Untouched(t[1]), t[2] = drive[t[1]], mpc'[j] = "put"
          PROVE  Untouched(mcur[j][1])' /\ mcur'[j][2] = drive'[t[1]] /\ mto[j] # drive'[t[1]]
      <4>1. Main(t[1]) \notin bucket[Primary] \/ Primary = t[2]
        BY <3>3, FileStoreAssumption DEF Untouched
      <4>2. mcur'[j] = t /\ t[2] # mto[j]
        BY <1>5, <3>3, <4>1
      <4>. QED
        BY <1>2, <3>3, <4>2 DEF Untouched, Main
    <3>4. ASSUME Untouched(t[1]), t[2] = drive[t[1]], mpc'[j] = "record"
          PROVE  drive'[t[1]] \in Drives /\ Main(t[1]) \in bucket'[mto[j]]
      BY <1>2, <1>4, <1>5, <3>4 DEF Untouched
    <3>. QED
      BY <1>4, <2>2, <3>1, <3>2, <3>3, <3>4 DEF InHand, Main
  <2>. QED
    BY <1>4, <2>1, <2>2
<1>. QED
  BY <1>1, <1>2, <1>3, <1>4, <1>7, <1>8, <1>9 DEF Progress

(* The copy, the removal of its source and the update of the row touch one *)
(* file, which is past its insert.                                         *)
LEMMA MovedFile ==
  ASSUME NEW L, HandlerInv(L), JobsInv(L), NEW j \in Jobs, mpc[j] \in {"put", "remove", "record"}
  PROVE  /\ mcur[j][1] \in Files /\ mcur[j][2] \in Drives /\ mto[j] \in Drives
         /\ up[mcur[j][1]] \notin Early
         /\ \A t \in mtodo[j] : t[1] \in Files /\ t[1] # mcur[j][1]
<1>1. MigrationTypeOK /\ JobOK(j)
  BY DEF JobsInv
<1>2. mcur[j][1] \in Files /\ mto[j] \in Drives
  BY <1>1 DEF JobOK
<1>3. mcur[j] \in (Files \X Drives) \cup {NoMove} /\ mcur[j] # NoMove
  BY <1>1, <1>2, FileStoreAssumption DEF MigrationTypeOK, NoMove
<1>. QED
  BY <1>1, <1>2, <1>3 DEF JobOK, MigrationTypeOK

LEMMA PutProgress ==
  ASSUME NEW L, HandlerInv(L), JobsInv(L), NEW j \in Jobs, MigratePut(j)
  PROVE  Progress(j, L)
<1> USE DEF handlerVars
<1> DEFINE f == mcur[j][1]
<1>0. /\ TypeOK /\ MigrationTypeOK /\ JobOK(j) /\ Pending(j, L) /\ InHand(j, L)
      /\ PlacedOrMoving(L) /\ mpc[j] = "put"
  BY DEF HandlerInv, JobsInv, MigratePut
<1>1. MigrationTypeOK' /\ faults' \in Nat
  BY <1>0, JobTypes DEF MigrateStep
<1>2. /\ f \in Files /\ mto[j] \in Drives /\ up[f] \notin Early
      /\ \A t \in mtodo[j] : t[1] \in Files /\ t[1] # f
  BY <1>0, MovedFile
<1>3. /\ UNCHANGED <<drive, variantRow, recentRow, used, quota, handlerVars, crashes, acked, dropped>>
      /\ UNCHANGED <<mto, mtodo, mcur>>
      /\ \/ /\ bucket' = With(Main(f), mto[j])
            /\ recentObj' = recentObj \cup {<<mto[j], Main(f)>>}
         \/ UNCHANGED <<bucket, recentObj>> /\ mpc'[j] = "fail"
      /\ mpc'[j] \in {"remove", "fail"} /\ \A i \in Jobs \ {j} : mpc'[i] = mpc[i]
  BY <1>0 DEF MigratePut, Abort, Fault, MigrationTypeOK, TypeOK
<1>4. TypeOK'
  <2>1. Main(f) \in Objects /\ With(Main(f), mto[j]) \in [Drives -> SUBSET Objects]
    BY <1>0, <1>2, ObjectsDiffer, WithTypes
  <2>2. bucket' \in [Drives -> SUBSET Objects] /\ recentObj' \subseteq Drives \X Objects
    BY <1>0, <1>2, <1>3, <2>1 DEF TypeOK
  <2>. QED
    BY <1>0, <1>1, <1>3, <2>2 DEF TypeOK
<1>5. \A g \in Files, d \in Drives :
        /\ Main(g) \in bucket[d] => Main(g) \in bucket'[d]
        /\ Main(g) \in bucket'[d] => Main(g) \in bucket[d] \/ g = f
        /\ mpc'[j] = "remove" => Main(f) \in bucket'[mto[j]]
  BY <1>0, <1>2, <1>3, MainMoves
<1>6. \A g \in Files : (g # f => Apart(g)) /\ (Safe(g, L)' <=> Safe(g, L))
  BY <1>3, <1>5 DEF Apart, Safe, Alive, Main
<1>7. JobOK(j)'
  BY <1>0, <1>3 DEF JobOK
<1>8. Pending(j, L)'
  <2>1. \A g \in Files : g # f /\ Untouched(g) => Untouched(g)'
    BY <1>6 DEF Apart, Untouched, Main
  <2>. QED
    BY <1>0, <1>2, <1>3, <1>6, <2>1 DEF Pending
<1>9. Readable(f) => \A g \in {f} : Readable(g)'
  BY <1>2, <1>3, <1>5 DEF Readable, Main
<1>10. InHand(j, L)'
  <2> SUFFICES ASSUME Safe(f, L), mpc'[j] = "remove"
               PROVE  /\ Readable(mcur[j][1])' /\ Main(f) \in bucket'[mto[j]]
                      /\ mcur[j][2] = drive[f] /\ mto[j] # drive[f]
    BY <1>2, <1>3, <1>6 DEF InHand, Main
  <2>1. Untouched(f) /\ mcur[j][2] = drive[f] /\ mto[j] # drive[f]
    BY <1>0 DEF InHand
  <2>2. \A g \in {f} : Readable(g)'
    BY <1>9, <2>1 DEF Untouched, Readable
  <2>3. Readable(mcur[j][1])'
    BY <1>3, <2>2 DEF Readable, Main
  <2>. QED
    BY <1>2, <1>5, <2>1, <2>3
<1>11. \A g \in Files : g = f /\ Safe(g, L) => Readable(g)' \/ Recording(g)'
  <2> SUFFICES ASSUME Safe(f, L)
               PROVE  \A g \in {f} : Readable(g)'
    OBVIOUS
  <2>1. Readable(f)
    BY <1>0 DEF InHand, Untouched, Readable
  <2>. QED
    BY <1>9, <2>1
<1>. QED
  BY <1>1, <1>3, <1>4, <1>6, <1>7, <1>8, <1>10, <1>11 DEF Progress

LEMMA RemoveProgress ==
  ASSUME NEW L, HandlerInv(L), JobsInv(L), NEW j \in Jobs, MigrateRemove(j)
  PROVE  Progress(j, L)
<1> USE DEF handlerVars
<1> DEFINE f == mcur[j][1]
<1>0. /\ TypeOK /\ MigrationTypeOK /\ JobOK(j) /\ Pending(j, L) /\ InHand(j, L)
      /\ PlacedOrMoving(L) /\ mpc[j] = "remove"
  BY DEF HandlerInv, JobsInv, MigrateRemove
<1>1. MigrationTypeOK' /\ faults' \in Nat
  BY <1>0, JobTypes DEF MigrateStep
<1>2. /\ f \in Files /\ mto[j] \in Drives /\ up[f] \notin Early
      /\ \A t \in mtodo[j] : t[1] \in Files /\ t[1] # f
  BY <1>0, MovedFile
<1>3. /\ UNCHANGED <<recentObj, drive, variantRow, recentRow, used, quota, handlerVars, crashes,
                     acked, dropped, mto, mtodo, mcur>>
      /\ bucket' = Without(Main(f), mcur[j][2]) \/ bucket' = bucket
      /\ mpc'[j] = "record" /\ \A i \in Jobs \ {j} : mpc'[i] = mpc[i]
  BY <1>0 DEF MigrateRemove, Source, MigrationTypeOK
<1>4. TypeOK'
  <2>1. bucket' \in [Drives -> SUBSET Objects]
    BY <1>0, <1>3, WithoutTypes DEF TypeOK
  <2>. QED
    BY <1>0, <1>1, <1>3, <2>1 DEF TypeOK
<1>5. \A g \in Files, d \in Drives :
        /\ Main(g) \in bucket'[d] => Main(g) \in bucket[d]
        /\ Main(g) \in bucket[d] => Main(g) \in bucket'[d] \/ (g = f /\ d = mcur[j][2])
  BY <1>0, <1>2, <1>3, MainMoves
<1>6. \A g \in Files : (g # f => Apart(g)) /\ (Safe(g, L)' <=> Safe(g, L))
  BY <1>3, <1>5 DEF Apart, Safe, Alive, Main
<1>7. JobOK(j)'
  BY <1>0, <1>3 DEF JobOK
<1>8. Pending(j, L)'
  <2>1. \A g \in Files : g # f /\ Untouched(g) => Untouched(g)'
    BY <1>6 DEF Apart, Untouched, Main
  <2>. QED
    BY <1>0, <1>2, <1>3, <1>6, <2>1 DEF Pending
<1>9. InHand(j, L)'
  <2> SUFFICES ASSUME Safe(f, L)
               PROVE  drive[f] \in Drives /\ Main(f) \in bucket'[mto[j]]
    BY <1>2, <1>3, <1>6 DEF InHand, Main
  <2>1. Readable(f) /\ Main(f) \in bucket[mto[j]] /\ mcur[j][2] # mto[j]
    BY <1>0 DEF InHand
  <2>. QED
    BY <1>2, <1>5, <2>1 DEF Readable
<1>10. \A g \in Files : g = f => Recording(g)'
  BY <1>3 DEF Recording
<1>. QED
  BY <1>1, <1>3, <1>4, <1>6, <1>7, <1>8, <1>9, <1>10 DEF Progress

LEMMA RecordProgress ==
  ASSUME NEW L, HandlerInv(L), JobsInv(L), NEW j \in Jobs, MigrateRecord(j), unrecorded' \subseteq L
  PROVE  Progress(j, L)
<1> USE DEF handlerVars
<1> DEFINE f == mcur[j][1]
<1>0. /\ TypeOK /\ MigrationTypeOK /\ JobOK(j) /\ Pending(j, L) /\ InHand(j, L)
      /\ PlacedOrMoving(L) /\ mpc[j] = "record"
  BY DEF HandlerInv, JobsInv, MigrateRecord
<1>1. MigrationTypeOK' /\ faults' \in Nat
  BY <1>0, JobTypes DEF MigrateStep
<1>2. /\ f \in Files /\ mto[j] \in Drives /\ up[f] \notin Early
      /\ \A t \in mtodo[j] : t[1] \in Files /\ t[1] # f
  BY <1>0, MovedFile
<1>3. /\ UNCHANGED <<bucket, recentObj, variantRow, recentRow, used, quota, handlerVars, crashes,
                     acked, dropped, mto, mtodo>>
      /\ drive' = Recorded(j) \/ (drive' = drive /\ f \in L)
      /\ mpc'[j] \in {"next", "fail"} /\ mcur'[j] = NoMove
      /\ \A i \in Jobs \ {j} : mpc'[i] = mpc[i] /\ mcur'[i] = mcur[i]
  BY <1>0 DEF MigrateRecord, Abort, MigrationTypeOK
<1>4. TypeOK'
  <2>1. drive' \in [Files -> Drives \cup {NoDrive}]
    BY <1>0, <1>2, <1>3 DEF Recorded, TypeOK
  <2>. QED
    BY <1>0, <1>1, <1>3, <2>1 DEF TypeOK
<1>5. \A g \in Files : (g # f => Apart(g)) /\ (Safe(g, L)' <=> Safe(g, L))
  <2>1. \A g \in Files : g # f => drive'[g] = drive[g]
    BY <1>3 DEF Recorded
  <2>. QED
    BY <1>3, <2>1 DEF Apart, Safe, Alive, Main
<1>6. JobOK(j)'
  BY <1>0, <1>2, <1>3, FileStoreAssumption DEF JobOK, NoMove, MigrationTypeOK
<1>7. Pending(j, L)'
  <2>1. \A g \in Files : g # f /\ Untouched(g) => Untouched(g)' /\ drive'[g] = drive[g]
    BY <1>5 DEF Apart, Untouched, Main
  <2>. QED
    BY <1>0, <1>2, <1>3, <1>5, <2>1 DEF Pending
<1>8. InHand(j, L)'
  BY <1>3 DEF InHand
<1>9. \A g \in Files : g = f /\ Safe(g, L) => Readable(g)'
  <2> SUFFICES ASSUME Safe(f, L)
               PROVE  \A g \in {f} : Readable(g)'
    OBVIOUS
  <2>1. drive[f] \in Drives /\ Main(f) \in bucket[mto[j]]
    BY <1>0 DEF InHand
  <2>2. drive'[f] = mto[j]
    BY <1>2, <1>3, <2>1, FileStoreAssumption DEF Recorded, Rows, Safe
  <2>. QED
    BY <1>2, <1>3, <2>1, <2>2 DEF Readable, Main
<1>. QED
  BY <1>1, <1>3, <1>4, <1>5, <1>6, <1>7, <1>8, <1>9 DEF Progress

LEMMA MigrationStepKeeps ==
  ASSUME NEW L, HandlerInv(L), JobsInv(L), MigrationStep, unrecorded' \subseteq L,
         OneJobStarted' \/ Files \subseteq L
  PROVE  /\ HandlerInv(L)' /\ JobsInv(L)'
         /\ \A g \in Files : (Moving(g) \/ Apart(g)) /\ (Safe(g, L)' <=> Safe(g, L))
         /\ UNCHANGED <<up, recentRow>>
<1>1. PICK j \in Jobs : RequestCheck(j) \/ RequestCreate(j) \/ MigrateStep(j)
  BY DEF MigrationStep
<1>2. Progress(j, L)
  BY <1>1, QuietProgress, NextProgress, PutProgress, RemoveProgress, RecordProgress DEF MigrateStep
<1>3. \A g \in Files : Moving(g) \/ Apart(g)
  BY <1>2 DEF Progress, Moving
<1>. QED
  BY <1>2, <1>3, ProgressKeepsHandlers, ProgressKeepsJobs DEF Progress, handlerVars

LEMMA HandlersKeepJobs ==
  ASSUME NEW L, HandlerInv(L), JobsInv(L), UNCHANGED migVars,
         HandlerStep \/ \E f \in Files : Age(f)
  PROVE  JobsInv(L)'
<1>1. \A g \in Files : Effect(g, L)
  BY HandlersKeep
<1>2. ASSUME NEW g \in Files, up[g] \notin Early, Safe(g, L)'
      PROVE  /\ drive'[g] = drive[g] /\ upTo'[g] = upTo[g]
             /\ \A d \in Drives : Main(g) \in bucket'[d] <=> Main(g) \in bucket[d]
  BY <1>1, <1>2 DEF Effect, Safe
<1>3. ASSUME NEW g \in Files, up[g] \notin Early, Safe(g, L)', Readable(g)
      PROVE  Readable(g)'
  BY <1>2, <1>3 DEF Readable, Main
<1>. QED
  BY <1>1, <1>2, <1>3, OthersKeepJobs DEF Effect, Safe

(* When the process dies the jobs die; a file whose source was removed and *)
(* whose row was not updated is given up.                                  *)
LEMMA JobsDieKeep ==
  ASSUME NEW L, HandlerInv(L), JobsInv(L), HandlersDie, JobsDie, unrecorded' \subseteq L
  PROVE  JobsInv(L)'
<1>0. /\ MigrationTypeOK /\ (\A j \in Jobs : JobOK(j)) /\ Unmoved(L) /\ PlacedOrMoving(L)
      /\ \A g \in Files : Effect(g, L)
  BY HandlersKeep DEF JobsInv
<1>1. /\ \A j \in Jobs : /\ mpc'[j] = IF mpc[j] = "new" THEN "new" ELSE "over"
                         /\ mtodo'[j] = {} /\ mcur'[j] = NoMove
      /\ \A f \in Files : Recording(f) => f \in unrecorded'
  BY DEF JobsDie, Recording
<1>2. MigrationTypeOK'
  <2>1. unrecorded' \subseteq Files
    BY <1>0 DEF JobsDie, MigrationTypeOK, JobOK
  <2>. QED
    BY <1>0, <2>1 DEF JobsDie, MigrationTypeOK
<1>3. \A j \in Jobs : JobOK(j)' /\ Pending(j, L)' /\ InHand(j, L)'
  BY <1>1, FileStoreAssumption DEF JobOK, Pending, InHand, NoMove
<1>4. ASSUME NEW g \in Files, Safe(g, L)', up'[g] \notin Early
      PROVE  /\ up[g] \in Early => Untouched(g)'
             /\ up[g] \notin Early =>
                  /\ Safe(g, L) /\ drive'[g] = drive[g] /\ upTo'[g] = upTo[g]
                  /\ \A d \in Drives : Main(g) \in bucket'[d] <=> Main(g) \in bucket[d]
  BY <1>0, <1>4 DEF Effect, Safe
<1>5. Unmoved(L)'
  <2> SUFFICES ASSUME \A j \in Jobs : mpc'[j] \in {"new", "checked", "list"},
                      NEW g \in Files, Safe(g, L)', up'[g] \notin Early
               PROVE  Untouched(g)'
    BY DEF Unmoved
  <2>1. \A j \in Jobs : mpc[j] \in {"new", "checked", "list"}
    BY <1>1
  <2>2. CASE up[g] \notin Early
    <3>1. Untouched(g)
      BY <1>0, <1>4, <2>1, <2>2 DEF Unmoved
    <3>. QED
      BY <1>4, <2>2, <3>1 DEF Untouched, Main
  <2>. QED
    BY <1>4, <2>2
<1>6. PlacedOrMoving(L)'
  <2> SUFFICES ASSUME NEW g \in Files, Safe(g, L)', up'[g] \notin Early
               PROVE  Readable(g)'
    BY DEF PlacedOrMoving
  <2>1. CASE up[g] \in Early
    BY <1>4, <2>1 DEF Untouched, Readable
  <2>2. CASE up[g] \notin Early
    <3>1. Readable(g) \/ Recording(g)
      BY <1>0, <1>4, <2>2 DEF PlacedOrMoving
    <3>2. ~Recording(g)
      BY <1>1 DEF Safe
    <3>. QED
      BY <1>4, <2>2, <3>1, <3>2 DEF Readable, Main
  <2>. QED
    BY <2>1, <2>2
<1>. QED
  BY <1>2, <1>3, <1>5, <1>6 DEF JobsInv

(* Files may be given up at any time.                                      *)
LEMMA GivingUp ==
  ASSUME NEW L, NEW M, L \subseteq M
  PROVE  /\ HandlerInv(L) => HandlerInv(M)
         /\ JobsInv(L) => JobsInv(M)
         /\ ScanInv(L) => ScanInv(M)
<1>1. \A f : Safe(f, M) => Safe(f, L)
  BY DEF Safe
<1>2. HandlerInv(L) => HandlerInv(M)
  BY <1>1 DEF HandlerInv, DeleteInv, Deletable
<1>3. JobsInv(L) => JobsInv(M)
  BY <1>1 DEF JobsInv, Pending, InHand, Unmoved, PlacedOrMoving
<1>4. ScanInv(L) => ScanInv(M)
  BY <1>1 DEF ScanInv, Seen, Repairs
<1>. QED
  BY <1>2, <1>3, <1>4

LEMMA JobsInvInitially ==
  ASSUME NEW L, StoreInit, MigrationIdle
  PROVE  JobsInv(L)
<1> USE FileStoreAssumption
<1>1. MigrationTypeOK
  BY DEF MigrationIdle, MigrationTypeOK
<1>2. \A j \in Jobs : JobOK(j) /\ Pending(j, L) /\ InHand(j, L)
  BY DEF MigrationIdle, JobOK, Pending, InHand, NoMove
<1>3. Unmoved(L) /\ PlacedOrMoving(L)
  BY DEF StoreInit, Unmoved, PlacedOrMoving, Early
<1>. QED
  BY <1>1, <1>2, <1>3 DEF JobsInv

LEMMA JobsInvUnchanged ==
  ASSUME NEW L, JobsInv(L), UNCHANGED <<allStoreVars, migVars>>
  PROVE  JobsInv(L)'
<1>1. UNCHANGED <<bucket, drive, up, upTo, acked, dropped>>
  BY DEF allStoreVars, storeVars, handlerVars
<1>2. \A g \in Files : (Safe(g, L)' <=> Safe(g, L)) /\ (Readable(g) => Readable(g)')
  BY <1>1 DEF Safe, Alive, Readable, Main
<1>. QED
  BY <1>1, <1>2, OthersKeepJobs

(* What only grows: the history, and with it the jobs that have started.   *)
LEMMA JobsGoOn ==
  ASSUME MigrationTypeOK, \A j \in Jobs : JobOK(j), MigrationStep \/ JobsDie \/ UNCHANGED migVars
  PROVE  unrecorded \subseteq unrecorded' /\ (OneJobStarted' => OneJobStarted)
<1>1. ASSUME NEW j \in Jobs, RequestCheck(j) \/ RequestCreate(j) \/ MigrateStep(j)
      PROVE  unrecorded \subseteq unrecorded' /\ \A i \in Jobs : Started(i) => Started(i)'
  BY <1>1 DEF RequestCheck, RequestCreate, MigrateStep, MigrateList, MigrateNext, MigratePut,
              MigrateRemove, MigrateRecord, MigrateFinish, MigrateFail, Abort, Started,
              MigrationTypeOK
<1>2. CASE JobsDie
  BY <1>2 DEF JobsDie, Started, OneJobStarted
<1>3. CASE UNCHANGED migVars
  BY <1>3 DEF migVars, Started, OneJobStarted
<1>. QED
  BY <1>1, <1>2, <1>3 DEF MigrationStep, OneJobStarted

----------------------------------------------------------------------------
(* Handlers and migrations.                                                *)

LEMMA MigrationKeeps ==
  ASSUME NEW L, HandlerInv(L), JobsInv(L), [MigrationNext]_migrationVars,
         unrecorded' \subseteq L, OneJobStarted' \/ Files \subseteq L
  PROVE  HandlerInv(L)' /\ JobsInv(L)'
<1>1. CASE HandlerStep /\ UNCHANGED migVars
  BY <1>1, HandlersKeep, HandlersKeepJobs
<1>2. CASE (\E f \in Files : Age(f)) /\ UNCHANGED migVars
  BY <1>2, HandlersKeep, HandlersKeepJobs
<1>3. CASE HandlersDie /\ JobsDie
  BY <1>3, HandlersKeep, JobsDieKeep
<1>4. CASE MigrationStep
  BY <1>4, MigrationStepKeeps
<1>5. CASE UNCHANGED migrationVars
  BY <1>5, HandlerInvUnchanged, JobsInvUnchanged DEF migrationVars
<1>. QED
  BY <1>1, <1>2, <1>3, <1>4, <1>5 DEF MigrationNext

(* However many migrations run, with every file given up.                  *)
MigrationTypesInv == HandlerInv(Files) /\ JobsInv(Files)

(* Until a second job starts.                                              *)
MigrationInv == OneJobStarted => HandlerInv(unrecorded) /\ JobsInv(unrecorded)

LEMMA MigrationTypesInvKept ==
  ASSUME MigrationTypesInv, [MigrationNext]_migrationVars
  PROVE  MigrationTypesInv'
<1>1. MigrationTypeOK /\ \A j \in Jobs : JobOK(j)
  BY DEF MigrationTypesInv, JobsInv
<1>2. unrecorded' \subseteq Files
  <2>1. CASE JobsDie
    BY <1>1, <2>1 DEF JobsDie, MigrationTypeOK, JobOK
  <2>2. CASE MigrationStep
    BY <1>1, <2>2, JobTypes DEF MigrationStep, MigrationTypesInv, HandlerInv, MigrationTypeOK
  <2>3. CASE UNCHANGED migVars
    BY <1>1, <2>3 DEF migVars, MigrationTypeOK
  <2>. QED
    BY <2>1, <2>2, <2>3 DEF MigrationNext, migrationVars
<1>. QED
  BY <1>2, MigrationKeeps DEF MigrationTypesInv

THEOREM MigrationInvariance == MigrationSpec => [](MigrationTypesInv /\ MigrationInv)
<1>1. MigrationInit => MigrationTypesInv /\ MigrationInv
  BY StoreInvInitially, JobsInvInitially
     DEF MigrationInit, MigrationTypesInv, MigrationInv, StoreInv
<1>2. MigrationTypesInv /\ MigrationInv /\ [MigrationNext]_migrationVars
        => MigrationTypesInv' /\ MigrationInv'
  <2> SUFFICES ASSUME MigrationTypesInv, MigrationInv, [MigrationNext]_migrationVars, OneJobStarted'
               PROVE  HandlerInv(unrecorded)' /\ JobsInv(unrecorded)'
    BY MigrationTypesInvKept DEF MigrationInv
  <2>1. unrecorded \subseteq unrecorded' /\ OneJobStarted
    BY JobsGoOn DEF MigrationTypesInv, JobsInv, MigrationNext, migrationVars
  <2>2. PICK M : M = unrecorded'
    OBVIOUS
  <2>3. HandlerInv(M) /\ JobsInv(M)
    BY <2>1, <2>2, GivingUp DEF MigrationInv
  <2>4. HandlerInv(M)' /\ JobsInv(M)'
    BY <2>2, <2>3, MigrationKeeps
  <2>. QED
    BY <2>2, <2>4
<1>. QED
  BY <1>1, <1>2, PTL DEF MigrationSpec

(* The store and the jobs keep their types, however many jobs run.         *)
THEOREM MigrationTypes == MigrationSpec => [](TypeOK /\ MigrationTypeOK)
<1>1. MigrationTypesInv => TypeOK /\ MigrationTypeOK
  BY DEF MigrationTypesInv, HandlerInv, JobsInv
<1>. QED
  BY <1>1, MigrationInvariance, PTL

(* A job that completed is over, and one that stopped in the middle of a   *)
(* move did not complete.                                                  *)
StopsOpenly ==
  /\ \A j \in Jobs : mstatus[j] = "completed" => mpc[j] = "over"
  /\ unrecorded # {} =>
       \E j \in Jobs : mpc[j] \in {"fail", "stuck", "over"} /\ mstatus[j] # "completed"

LEMMA JobStopsOpenly ==
  ASSUME MigrationTypeOK, StopsOpenly, NEW j \in Jobs, RequestCheck(j) \/ RequestCreate(j) \/ MigrateStep(j)
  PROVE  StopsOpenly'
<1>1. /\ mstatus[j] # "completed"
      /\ \A k \in Jobs \ {j} : mpc'[k] = mpc[k] /\ mstatus'[k] = mstatus[k]
      /\ mstatus'[j] = "completed" => mpc[j] = "next" /\ mpc'[j] = "over"
      /\ mpc[j] = "fail" => mpc'[j] \in {"stuck", "over"}
      /\ mpc[j] # "stuck"
  BY DEF StopsOpenly, MigrationTypeOK, RequestCheck, RequestCreate, MigrateStep, MigrateList, MigrateNext,
         MigratePut, MigrateRemove, MigrateRecord, MigrateFinish, MigrateFail, Abort
<1>2. unrecorded' = unrecorded \/ (mpc'[j] = "fail" /\ mstatus'[j] = mstatus[j])
  <2>1. CASE MigrateRecord(j)
    BY <2>1 DEF MigrateRecord, MigrationTypeOK, Abort
  <2>. QED
    BY <2>1 DEF RequestCheck, RequestCreate, MigrateStep, MigrateList, MigrateNext, MigratePut,
                MigrateRemove, MigrateFinish, MigrateFail
<1>3. mpc[j] # "over"
  BY DEF RequestCheck, RequestCreate, MigrateStep, MigrateList, MigrateNext,
         MigratePut, MigrateRemove, MigrateRecord, MigrateFinish, MigrateFail
<1>. QED
  BY <1>1, <1>2, <1>3 DEF StopsOpenly

LEMMA DyingStopsOpenly ==
  ASSUME MigrationTypeOK, StopsOpenly, JobsDie
  PROVE  StopsOpenly'
<1>1. /\ mstatus' = mstatus
      /\ \A k \in Jobs : mpc[k] # "new" => mpc'[k] = "over"
  BY DEF JobsDie, MigrationTypeOK
<1>2. unrecorded' # {} => unrecorded # {} \/ \E k \in Jobs : mpc[k] = "record"
  BY DEF JobsDie
<1>. QED
  BY <1>1, <1>2 DEF StopsOpenly

THEOREM JobsStopOpenly == MigrationSpec => []StopsOpenly
<1>1. MigrationInit => StopsOpenly
  BY DEF MigrationInit, MigrationIdle, StopsOpenly
<1>2. MigrationTypeOK /\ StopsOpenly /\ [MigrationNext]_migrationVars => StopsOpenly'
  <2> SUFFICES ASSUME MigrationTypeOK, StopsOpenly, [MigrationNext]_migrationVars
               PROVE  StopsOpenly'
    OBVIOUS
  <2>1. CASE UNCHANGED migVars
    BY <2>1 DEF migVars, StopsOpenly
  <2>. QED
    BY <2>1, JobStopsOpenly, DyingStopsOpenly DEF MigrationNext, MigrationStep, migrationVars
<1>. QED
  BY <1>1, <1>2, MigrationTypes, PTL DEF MigrationSpec

(* Until a second job starts, an acknowledged file that nobody asked to    *)
(* delete is readable from the drive its row names, but between the        *)
(* removal of its source and the update of its row, and after a job that   *)
(* stopped just there and says so - whatever uploads, deletes, failures    *)
(* and crashes come between the job's steps, and from whichever drive it   *)
(* reads.                                                                  *)
THEOREM MigrationReadable == MigrationSpec => []ReadableUnlessMoving
<1>1. MigrationInv /\ StopsOpenly => ReadableUnlessMoving
  <2> SUFFICES ASSUME HandlerInv(unrecorded), JobsInv(unrecorded), StopsOpenly, OneJobStarted,
                      NEW f \in Wanted,
                      ~(f \in unrecorded /\ \A j \in Jobs : mstatus[j] # "completed")
               PROVE  Readable(f) \/ \E j \in Jobs : mcur[j][1] = f /\ mpc[j] = "record"
    BY DEF MigrationInv, ReadableUnlessMoving
  <2>0. f \notin unrecorded
    BY DEF StopsOpenly, OneJobStarted, Started
  <2>1. f \in Files /\ UploadInvOf(f) /\ f \in acked /\ f \notin dropped
    BY DEF HandlerInv, UploadInv, TypeOK, Wanted
  <2>2. Safe(f, unrecorded) /\ up[f] \notin Early
    BY <2>0, <2>1 DEF Safe, Alive, UploadInvOf, Uploading, Early
  <2>. QED
    BY <2>1, <2>2 DEF JobsInv, PlacedOrMoving, Recording
<1>. QED
  BY <1>1, MigrationInvariance, JobsStopOpenly, PTL

----------------------------------------------------------------------------
(* Handlers, scans and migrations.                                         *)

(* What is being moved while a scan runs is given up.                      *)
HandsOff(L) == spc # "idle" => \A f \in Files : Moving(f) => f \in L

LEMMA MigrationKeepsScan ==
  ASSUME NEW L, ScanInv(L), HandsOff(L), UNCHANGED scanVars, UNCHANGED <<up, recentRow>>,
         \A g \in Files : (Moving(g) \/ Apart(g)) /\ (Safe(g, L)' <=> Safe(g, L))
  PROVE  ScanInv(L)'
<1> USE DEF scanVars
<1>0. /\ ScanTypeOK /\ Listed /\ Seen(L) /\ Repairs(L) /\ (spc = "idle" => undiffed = {})
      /\ spc # "idle" => \A g \in Files : Safe(g, L) => drive'[g] = drive[g]
  BY DEF ScanInv, HandsOff, Safe, Apart
<1>1. ScanTypeOK' /\ Listed'
  BY <1>0 DEF ScanTypeOK, Listed, Main
<1>2. Seen(L)'
  <2> SUFFICES ASSUME NEW f \in Files, NEW d \in undiffed, Safe(f, L), drive'[f] = d
               PROVE  Main(f) \in listing[d] \/ Main(f) \in recentRow
    BY DEF Seen, Main
  <2>1. drive[f] = d
    BY <1>0
  <2>. QED
    BY <1>0, <2>1 DEF Seen
<1>3. Repairs(L)'
  <2> SUFFICES ASSUME spc = "repair", NEW f \in Files
               PROVE  /\ f \in ghosts => ~Safe(f, L)
                      /\ Main(f) \in orphans => up[f] \notin Early
                                             /\ (Safe(f, L) => drive'[f] # sdrive)
    BY <1>0 DEF Repairs, Main
  <2>. QED
    BY <1>0 DEF Repairs
<1>. QED
  BY <1>0, <1>1, <1>2, <1>3 DEF ScanInv

LEMMA ScanKeepsJobs ==
  ASSUME NEW L, HandlerInv(L), JobsInv(L), ScanInv(L), HandsOff(L), HandsOff(L)',
         ScanStart \/ ScanStep, UNCHANGED migVars
  PROVE  HandlerInv(L)' /\ JobsInv(L)' /\ ScanInv(L)'
<1>1. \A f \in Files : Moving(f) => f \in L
  <2>1. UNCHANGED mcur
    BY DEF migVars
  <2>2. spc # "idle" \/ spc' # "idle"
    BY DEF ScanStart, ScanStep, ScanList, ScanDrive, ScanKeys, ScanOrphan, ScanGhost,
           ScanVariantRow, ScanDriveDone, ScanVariants, ScanEnd
  <2>. QED
    BY <2>1, <2>2 DEF HandsOff, Moving
<1>2. StoreInv(L)
  <2>1. \A f \in Files : Recording(f) => Moving(f)
    BY DEF Recording, Moving
  <2>. QED
    BY <1>1, <2>1 DEF StoreInv, Placed, JobsInv, PlacedOrMoving, Safe
<1>3. ScanInv(L)' /\ StoreInv(L)' /\ \A g \in Files : Spared(g, L)
  BY <1>2, ScanKeeps
<1>4. \A g \in Files : Safe(g, L)' <=> Safe(g, L)
  BY <1>3 DEF Spared, Safe
<1>5. ASSUME NEW g \in Files
      PROVE  /\ up'[g] = up[g]
             /\ Safe(g, L)' => /\ drive'[g] = drive[g] /\ upTo'[g] = upTo[g] /\ ~Moving(g)
                               /\ \A d \in Drives : Main(g) \in bucket'[d] => Main(g) \in bucket[d]
                               /\ Readable(g) => Readable(g)'
  BY <1>1, <1>3, <1>4 DEF Spared, Safe
<1>6. JobsInv(L)'
  BY <1>4, <1>5, OthersKeepJobs
<1>. QED
  BY <1>3, <1>6 DEF StoreInv

LEMMA SystemKeeps ==
  ASSUME NEW L, HandlerInv(L), JobsInv(L), ScanInv(L), HandsOff(L), HandsOff(L)',
         SystemStep, unrecorded' \subseteq L, OneJobStarted' \/ Files \subseteq L
  PROVE  HandlerInv(L)' /\ JobsInv(L)' /\ ScanInv(L)'
<1>1. CASE HandlerStep /\ UNCHANGED <<scanVars, migVars>>
  BY <1>1, HandlersKeep, HandlersKeepJobs, HandlersKeepScan, YoungRowsStay
<1>2. CASE AgeWhenIdle /\ UNCHANGED migVars
  <2>1. undiffed = {}
    BY <1>2 DEF AgeWhenIdle, ScanInv
  <2>. QED
    BY <1>2, <2>1, HandlersKeep, HandlersKeepJobs, HandlersKeepScan DEF AgeWhenIdle
<1>3. CASE HandlersDie /\ ScanStops /\ JobsDie
  BY <1>3, HandlersKeep, JobsDieKeep, ScanStopsClean
<1>4. CASE (ScanStart \/ ScanStep) /\ UNCHANGED migVars
  BY <1>4, ScanKeepsJobs
<1>5. CASE MigrationStep /\ UNCHANGED scanVars
  <2>1. HandlerInv(L)' /\ JobsInv(L)'
        /\ UNCHANGED <<up, recentRow>>
        /\ \A g \in Files : (Moving(g) \/ Apart(g)) /\ (Safe(g, L)' <=> Safe(g, L))
    BY <1>5, MigrationStepKeeps
  <2>. QED
    BY <1>5, <2>1, MigrationKeepsScan
<1>. QED
  BY <1>1, <1>2, <1>3, <1>4, <1>5 DEF SystemStep

(* However many migrations run, with every file given up.                  *)
SystemTypesInv == HandlerInv(Files) /\ JobsInv(Files) /\ ScanInv(Files) /\ overlapped \subseteq Files

(* Until a second migration starts.                                        *)
Lost == unrecorded \cup overlapped
SystemInv ==
  OneJobStarted => HandlerInv(Lost) /\ JobsInv(Lost) /\ ScanInv(Lost) /\ HandsOff(Lost)

LEMMA SystemUnchanged ==
  ASSUME UNCHANGED systemVars
  PROVE  /\ \A L : /\ HandlerInv(L) => HandlerInv(L)'
                   /\ JobsInv(L) => JobsInv(L)'
                   /\ ScanInv(L) => ScanInv(L)'
                   /\ HandsOff(L) => HandsOff(L)'
         /\ UNCHANGED <<unrecorded, overlapped>> /\ (OneJobStarted' => OneJobStarted)
<1> USE DEF systemVars
<1>1. \A L : HandlerInv(L) => HandlerInv(L)'
  BY HandlerInvUnchanged
<1>2. \A L : JobsInv(L) => JobsInv(L)'
  BY JobsInvUnchanged
<1>3. \A L : ScanInv(L) => ScanInv(L)'
  BY ScanInvUnchanged
<1>4. UNCHANGED <<mcur, spc, unrecorded, overlapped>> /\ (OneJobStarted' => OneJobStarted)
  BY DEF migVars, scanVars, OneJobStarted, Started
<1>5. \A L : HandsOff(L) => HandsOff(L)'
  BY <1>4 DEF HandsOff, Moving
<1>. QED
  BY <1>1, <1>2, <1>3, <1>4, <1>5

LEMMA SystemTypesInvKept ==
  ASSUME SystemTypesInv, [SystemNext]_systemVars
  PROVE  SystemTypesInv'
<1>1. CASE UNCHANGED systemVars
  BY <1>1, SystemUnchanged DEF SystemTypesInv
<1>2. CASE SystemNext
  <2>1. MigrationTypeOK /\ \A j \in Jobs : JobOK(j)
    BY DEF SystemTypesInv, JobsInv
  <2>2. unrecorded' \subseteq Files
    <3>1. CASE JobsDie
      BY <2>1, <3>1 DEF JobsDie, MigrationTypeOK, JobOK
    <3>2. CASE MigrationStep
      BY <2>1, <3>2, JobTypes DEF MigrationStep, SystemTypesInv, HandlerInv, MigrationTypeOK
    <3>3. CASE UNCHANGED migVars
      BY <2>1, <3>3 DEF migVars, MigrationTypeOK
    <3>. QED
      BY <1>2, <3>1, <3>2, <3>3 DEF SystemNext, SystemStep
  <2>3. HandsOff(Files) /\ HandsOff(Files)' /\ overlapped' \subseteq Files
    BY <1>2 DEF HandsOff, SystemTypesInv, SystemNext, Overlapping
  <2>. QED
    BY <1>2, <2>2, <2>3, SystemKeeps DEF SystemTypesInv, SystemNext
<1>. QED
  BY <1>1, <1>2

LEMMA SystemInvKept ==
  ASSUME SystemTypesInv, SystemInv, [SystemNext]_systemVars, OneJobStarted'
  PROVE  HandlerInv(Lost)' /\ JobsInv(Lost)' /\ ScanInv(Lost)' /\ HandsOff(Lost)'
<1>1. PICK M : M = Lost'
  OBVIOUS
<1>2. CASE UNCHANGED systemVars
  <2>1. Lost' = Lost /\ OneJobStarted
    BY <1>2, SystemUnchanged DEF Lost
  <2>2. HandlerInv(M) /\ JobsInv(M) /\ ScanInv(M) /\ HandsOff(M)
    BY <1>1, <2>1 DEF SystemInv
  <2>3. HandlerInv(M)' /\ JobsInv(M)' /\ ScanInv(M)' /\ HandsOff(M)'
    BY <1>2, <2>2, SystemUnchanged
  <2>. QED
    BY <1>1, <2>3
<1>3. CASE SystemNext
  <2>1. unrecorded \subseteq unrecorded' /\ OneJobStarted
    BY <1>3, JobsGoOn DEF SystemTypesInv, JobsInv, SystemNext, SystemStep
  <2>2. Lost \subseteq M /\ unrecorded' \subseteq M
    BY <1>1, <1>3, <2>1 DEF Lost, SystemNext
  <2>3. HandlerInv(M) /\ JobsInv(M) /\ ScanInv(M) /\ HandsOff(M)
    BY <2>1, <2>2, GivingUp DEF SystemInv, HandsOff
  <2>4. HandsOff(M)'
    <3> SUFFICES ASSUME spc' # "idle", NEW f \in Files, Moving(f)'
                 PROVE  f \in M
      BY DEF HandsOff
    <3>1. f \in overlapped'
      BY <1>3 DEF SystemNext, Overlapping
    <3>. QED
      BY <1>1, <3>1 DEF Lost
  <2>5. HandlerInv(M)' /\ JobsInv(M)' /\ ScanInv(M)'
    BY <1>3, <2>2, <2>3, <2>4, SystemKeeps DEF SystemNext
  <2>. QED
    BY <1>1, <2>4, <2>5
<1>. QED
  BY <1>2, <1>3

THEOREM SystemInvariance == SystemSpec => [](SystemTypesInv /\ SystemInv)
<1>1. SystemInit => SystemTypesInv /\ SystemInv
  BY StoreInvInitially, JobsInvInitially, ScanInvInitially
     DEF SystemInit, SystemTypesInv, SystemInv, StoreInv, HandsOff, ScanIdle
<1>2. SystemTypesInv /\ SystemInv /\ [SystemNext]_systemVars => SystemTypesInv' /\ SystemInv'
  BY SystemTypesInvKept, SystemInvKept DEF SystemInv
<1>. QED
  BY <1>1, <1>2, PTL DEF SystemSpec

(* Store, jobs and scan keep their types when they run together.           *)
THEOREM SystemTypes == SystemSpec => [](TypeOK /\ MigrationTypeOK /\ ScanTypeOK)
<1>1. SystemTypesInv => TypeOK /\ MigrationTypeOK /\ ScanTypeOK
  BY DEF SystemTypesInv, HandlerInv, JobsInv, ScanInv
<1>. QED
  BY <1>1, SystemInvariance, PTL

(* Until a second migration starts, the only acknowledged files that may   *)
(* be lost without anybody having asked to delete them are those whose     *)
(* migration stopped before it recorded the move, and those that were      *)
(* being moved while a scan ran.                                           *)
THEOREM SystemLosesOnlyByOverlap == SystemSpec => []LostOnlyByOverlap
<1>1. SystemInv => LostOnlyByOverlap
  <2> SUFFICES ASSUME HandlerInv(Lost), JobsInv(Lost), NEW f \in Wanted, f \notin unrecorded \cup overlapped
               PROVE  Readable(f) \/ \E j \in Jobs : mcur[j][1] = f /\ mpc[j] = "record"
    BY DEF SystemInv, LostOnlyByOverlap
  <2>1. f \in Files /\ UploadInvOf(f) /\ f \in acked /\ f \notin dropped
    BY DEF HandlerInv, UploadInv, TypeOK, Wanted
  <2>2. Safe(f, Lost) /\ up[f] \notin Early
    BY <2>1 DEF Safe, Alive, UploadInvOf, Uploading, Early, Lost
  <2>. QED
    BY <2>1, <2>2 DEF JobsInv, PlacedOrMoving, Recording
<1>. QED
  BY <1>1, SystemInvariance, PTL

=============================================================================
