--------------------------- MODULE FileStoreProofs --------------------------
(***************************************************************************)
(* What holds of the handlers of FileStore for any number of files,        *)
(* drives, requests, failures and crashes.                                 *)
(*                                                                         *)
(* The invariant speaks of the files that are safe: alive, and not among   *)
(* those given up, a parameter that is empty here.  Scans and migrations   *)
(* (StorageSystemProofs) give up the files they may lose, and reuse what   *)
(* is proved here of the handlers' steps.                                  *)
(* At the end: the handlers implement FileVault.                           *)
(***************************************************************************)
EXTENDS FileStore, FiniteSetTheorems, TLAPS

Uploading == {"new", "checked", "stored", "saved"}
Early == {"new", "checked", "stored"}
Resolved == {"checked", "stored", "saved", "acked", "transcoding", "encoded"}

(* A file nobody asked to delete whose upload has not failed.  Once a file *)
(* is not alive it never is again.                                         *)
Alive(f) == f \notin dropped /\ (f \in acked \/ up[f] \in Uploading)
Safe(f, L) == Alive(f) /\ f \notin L

(* Until the insert a file has no row, and its object, if it is stored, is *)
(* young and only on the drive the upload resolved.                        *)
UploadInvOf(f) ==
  /\ up[f] \in Uploading => f \notin acked
  /\ up[f] \in Resolved => upTo[f] \in Drives
  /\ up[f] \in Early =>
       /\ drive[f] = NoDrive
       /\ \A d \in Drives : Main(f) \in bucket[d] => up[f] = "stored" /\ upTo[f] = d
  /\ up[f] = "stored" => <<upTo[f], Main(f)>> \in recentObj
  /\ up[f] = "stored" /\ f \notin dropped => Main(f) \in bucket[upTo[f]]

UploadInv == \A f \in Files : UploadInvOf(f)

(* Only files past their insert that are not safe are being deleted.       *)
Deletable(f, L) == f \in Files /\ up[f] \notin Early /\ ~Safe(f, L)

DeleteInv(L) == \A k \in Deleters : del[k].pc # "idle" => Deletable(del[k].file, L)

PurgeInv ==
  /\ purge \in {"blobs", "reset"} => dropped = Files
  /\ purgeTodo # {} => purge = "blobs"

HandlerInv(L) == TypeOK /\ UploadInv /\ DeleteInv(L) /\ PurgeInv

(* A safe file is readable from its insert on.                             *)
Placed(L) == \A f \in Files : Safe(f, L) /\ up[f] \notin Early => Readable(f)

StoreInv(L) == HandlerInv(L) /\ Placed(L)

(* What a step of the handlers does to a file: after its insert, nothing   *)
(* as long as it is safe; and its insert leaves it on one drive.           *)
Untouched(f) ==
  /\ drive[f] = upTo[f] /\ upTo[f] \in Drives
  /\ \A d \in Drives : Main(f) \in bucket[d] <=> upTo[f] = d

Effect(g, L) ==
  /\ g \in dropped => g \in dropped'
  /\ Alive(g)' => Alive(g)
  /\ up[g] \notin Early =>
       /\ up'[g] \notin Early /\ upTo'[g] = upTo[g]
       /\ \A d \in Drives : Main(g) \in bucket'[d] => Main(g) \in bucket[d]
       /\ Alive(g)' /\ g \notin L =>
            /\ drive'[g] = drive[g]
            /\ \A d \in Drives : Main(g) \in bucket[d] => Main(g) \in bucket'[d]
  /\ up[g] \in Early /\ up'[g] \notin Early /\ Alive(g)' /\ g \notin L => Untouched(g)'
  /\ drive'[g] \in {drive[g], NoDrive} \/ Main(g) \in recentRow'

----------------------------------------------------------------------------
(* The handlers' operators.                                                *)

LEMMA ObjectsDiffer ==
  ASSUME NEW f \in Files, NEW g \in Files
  PROVE  /\ Main(f) \in Objects /\ Variant(f) \in Objects
         /\ Main(f) # Variant(g)
         /\ Main(f) = Main(g) => f = g
  BY DEF Main, Variant, Objects, Kinds

LEMMA WithTypes ==
  ASSUME TypeOK, NEW o \in Objects, NEW d
  PROVE  With(o, d) \in [Drives -> SUBSET Objects]
  BY DEF With, TypeOK

LEMMA WithoutTypes ==
  ASSUME TypeOK, NEW o, NEW d
  PROVE  Without(o, d) \in [Drives -> SUBSET Objects]
  BY DEF Without, TypeOK

(* What storing and removing objects changes for a file's own object.      *)
LEMMA MainMoves ==
  ASSUME TypeOK, NEW f \in Files, NEW g \in Files, NEW d \in Drives, NEW e
  PROVE  /\ Main(g) \in With(Main(f), e)[d] <=> Main(g) \in bucket[d] \/ (f = g /\ e = d)
         /\ Main(g) \in Without(Main(f), e)[d] <=> Main(g) \in bucket[d] /\ ~(f = g /\ e = d)
         /\ Main(g) \in With(Variant(f), e)[d] <=> Main(g) \in bucket[d]
         /\ Main(g) \in Without(Variant(f), e)[d] <=> Main(g) \in bucket[d]
  BY ObjectsDiffer DEF With, Without, TypeOK

(* Deletes in progress stay deletes of such files.                         *)
LEMMA DeletesKept ==
  ASSUME NEW L, DeleteInv(L),
         \A g \in Files : (Alive(g)' => Alive(g)) /\ (up[g] \notin Early => up'[g] \notin Early),
         \A k \in Deleters :
           del'[k].pc # "idle" => \/ del[k].pc # "idle" /\ del'[k].file = del[k].file
                                  \/ Deletable(del[k].file, L)'
  PROVE  DeleteInv(L)'
<1> SUFFICES ASSUME NEW k \in Deleters, del'[k].pc # "idle"
             PROVE  Deletable(del[k].file, L)'
  BY DEF DeleteInv
<1>1. CASE del[k].pc # "idle" /\ del'[k].file = del[k].file
  BY <1>1 DEF DeleteInv, Deletable, Safe, Alive
<1>. QED
  BY <1>1

----------------------------------------------------------------------------
(* Types.                                                                  *)

LEMMA DeleteStartTypes ==
  ASSUME TypeOK, NEW k \in Deleters, NEW f \in Files, DeleteStart(k, f)
  PROVE  /\ del' \in [Deleters -> [pc : {"idle", "variant", "blob", "row", "refund"},
                         file : Files \cup {NoFile}, drive : Drives \cup {NoDrive}]]
         /\ faults' \in Nat
  BY FileStoreAssumption DEF DeleteStart, Fault, TypeOK, storeVars

LEMMA HandlerTypes ==
  ASSUME TypeOK, UploadInv, HandlerStep \/ HandlersDie \/ \E f \in Files : Age(f)
  PROVE  TypeOK'
<1> USE FileStoreAssumption DEF storeVars, handlerVars
<1>1. ASSUME NEW f \in Files, UploadCheck(f)
      PROVE  TypeOK'
  BY <1>1, ObjectsDiffer DEF UploadCheck, Fault, TypeOK
<1>2. ASSUME NEW f \in Files, UploadPut(f)
      PROVE  TypeOK'
  <2>1. bucket' \in [Drives -> SUBSET Objects]
    <3>1. Main(f) \in Objects
      BY ObjectsDiffer
    <3>2. /\ With(Main(f), upTo[f]) \in [Drives -> SUBSET Objects]
          /\ Without(Main(f), upTo[f]) \in [Drives -> SUBSET Objects]
      BY <3>1, WithTypes, WithoutTypes
    <3>3. QED
      BY <1>2, <3>2 DEF UploadPut, TypeOK
  <2>2. upTo[f] \in Drives /\ Main(f) \in Objects
    BY <1>2, ObjectsDiffer DEF UploadPut, UploadInv, UploadInvOf, Resolved
  <2>3. recentObj' \subseteq Drives \X Objects
    BY <1>2, <2>2 DEF UploadPut, TypeOK
  <2>4. QED
    BY <1>2, <2>1, <2>3 DEF UploadPut, Fault, TypeOK
<1>3. ASSUME NEW f \in Files, UploadSave(f)
      PROVE  TypeOK'
  BY <1>3, ObjectsDiffer DEF UploadSave, Fault, TypeOK, Saved
<1>4. ASSUME NEW f \in Files, UploadUndo(f)
      PROVE  TypeOK'
  <2>1. bucket' \in [Drives -> SUBSET Objects]
    <3>1. Main(f) \in Objects
      BY ObjectsDiffer
    <3>2. /\ With(Main(f), upTo[f]) \in [Drives -> SUBSET Objects]
          /\ Without(Main(f), upTo[f]) \in [Drives -> SUBSET Objects]
      BY <3>1, WithTypes, WithoutTypes
    <3>3. QED
      BY <1>4, <3>2 DEF UploadUndo, TypeOK
  <2>2. QED
    BY <1>4, <2>1, ObjectsDiffer DEF UploadUndo, Fault, TypeOK, Saved
<1>5. ASSUME NEW f \in Files, UploadCount(f)
      PROVE  TypeOK'
  BY <1>5, ObjectsDiffer DEF UploadCount, Fault, TypeOK
<1>6. ASSUME NEW f \in Files, VariantBegin(f)
      PROVE  TypeOK'
  BY <1>6, ObjectsDiffer DEF VariantBegin, Fault, TypeOK
<1>7. ASSUME NEW f \in Files, VariantPut(f)
      PROVE  TypeOK'
  <2>1. bucket' \in [Drives -> SUBSET Objects]
    <3>1. Variant(f) \in Objects
      BY ObjectsDiffer
    <3>2. /\ With(Variant(f), upTo[f]) \in [Drives -> SUBSET Objects]
          /\ Without(Variant(f), upTo[f]) \in [Drives -> SUBSET Objects]
      BY <3>1, WithTypes, WithoutTypes
    <3>3. QED
      BY <1>7, <3>2 DEF VariantPut, TypeOK
  <2>2. upTo[f] \in Drives /\ Variant(f) \in Objects
    BY <1>7, ObjectsDiffer DEF VariantPut, UploadInv, UploadInvOf, Resolved
  <2>3. recentObj' \subseteq Drives \X Objects
    BY <1>7, <2>2 DEF VariantPut, TypeOK
  <2>4. QED
    BY <1>7, <2>1, <2>3 DEF VariantPut, Fault, TypeOK
<1>8. ASSUME NEW f \in Files, VariantReady(f)
      PROVE  TypeOK'
  <2>1. bucket' \in [Drives -> SUBSET Objects]
    <3>1. Variant(f) \in Objects
      BY ObjectsDiffer
    <3>2. /\ With(Variant(f), upTo[f]) \in [Drives -> SUBSET Objects]
          /\ Without(Variant(f), upTo[f]) \in [Drives -> SUBSET Objects]
      BY <3>1, WithTypes, WithoutTypes
    <3>3. QED
      BY <1>8, <3>2 DEF VariantReady, TypeOK
  <2>2. QED
    BY <1>8, <2>1, ObjectsDiffer DEF VariantReady, Fault, TypeOK
<1>9. ASSUME NEW f \in Files, NEW k \in Requests, UserDelete(k, f)
      PROVE  TypeOK'
  BY <1>9, DeleteStartTypes DEF UserDelete, DeleteStart, TypeOK, Deleters
<1>10. ASSUME NEW k \in Deleters, DeleteVariant(k)
      PROVE  TypeOK'
  <2>1. del' \in [Deleters -> [pc : {"idle", "variant", "blob", "row", "refund"},
                      file : Files \cup {NoFile}, drive : Drives \cup {NoDrive}]]
    BY <1>10 DEF DeleteVariant, TypeOK, Idle
  <2>2. bucket' \in [Drives -> SUBSET Objects]
    <3>1. Without(Variant(del[k].file), del[k].drive) \in [Drives -> SUBSET Objects]
      BY WithoutTypes
    <3>2. QED
      BY <1>10, <3>1 DEF DeleteVariant, TypeOK
  <2>3. QED
    BY <1>10, <2>1, <2>2 DEF DeleteVariant, Fault, TypeOK
<1>11. ASSUME NEW k \in Deleters, DeleteBlob(k)
      PROVE  TypeOK'
  <2>1. del' \in [Deleters -> [pc : {"idle", "variant", "blob", "row", "refund"},
                      file : Files \cup {NoFile}, drive : Drives \cup {NoDrive}]]
    BY <1>11 DEF DeleteBlob, TypeOK, Idle
  <2>2. bucket' \in [Drives -> SUBSET Objects]
    <3>1. Without(Main(del[k].file), del[k].drive) \in [Drives -> SUBSET Objects]
      BY WithoutTypes
    <3>2. QED
      BY <1>11, <3>1 DEF DeleteBlob, TypeOK
  <2>3. QED
    BY <1>11, <2>1, <2>2 DEF DeleteBlob, Fault, TypeOK
<1>12. ASSUME NEW k \in Deleters, DeleteRow(k)
      PROVE  TypeOK'
  <2>1. del' \in [Deleters -> [pc : {"idle", "variant", "blob", "row", "refund"},
                      file : Files \cup {NoFile}, drive : Drives \cup {NoDrive}]]
    BY <1>12 DEF DeleteRow, TypeOK, Idle
  <2>2. drive' \in [Files -> Drives \cup {NoDrive}] /\ variantRow' \subseteq Files
    BY <1>12 DEF DeleteRow, TypeOK
  <2>3. faults' \in Nat
    BY <1>12 DEF DeleteRow, Fault, TypeOK
  <2>4. QED
    BY <1>12, <2>1, <2>2, <2>3 DEF DeleteRow, TypeOK
<1>13. ASSUME NEW k \in Deleters, DeleteRefund(k)
      PROVE  TypeOK'
  BY <1>13 DEF DeleteRefund, Fault, TypeOK, Idle, Refunded
<1>14. CASE PurgeList
  BY <1>14 DEF PurgeList, Fault, TypeOK, Rows, Kinds, Objects
<1>15. CASE PurgeRows
  BY <1>15 DEF PurgeRows, Fault, TypeOK
<1>16. CASE PurgeReset
  BY <1>16 DEF PurgeReset, Fault, TypeOK
<1>17. ASSUME NEW t \in purgeTodo, PurgeBlob(t)
      PROVE  TypeOK'
  BY <1>17, WithoutTypes DEF PurgeBlob, Fault, TypeOK, Objects, Kinds
<1>18. CASE HandlersDie
  BY <1>18 DEF HandlersDie, TypeOK, Idle
<1>19. ASSUME NEW f \in Files, Age(f)
      PROVE  TypeOK'
  BY <1>19 DEF Age, TypeOK
<1>20. QED
  BY <1>1, <1>2, <1>3, <1>4, <1>5, <1>6, <1>7, <1>8, <1>9, <1>10, <1>11, <1>12, <1>13, <1>14, <1>15, <1>16, <1>17, <1>18, <1>19
     DEF HandlerStep, UploadStep, VariantStep, DeleteStep, PurgeStep


----------------------------------------------------------------------------
(* What the handlers' steps do to a file.                                  *)

LEMMA HandlerEffect ==
  ASSUME NEW L, HandlerInv(L), HandlerStep \/ HandlersDie \/ \E f \in Files : Age(f),
         NEW g \in Files
  PROVE  UploadInvOf(g)' /\ Effect(g, L)
<1> USE DEF storeVars, handlerVars
<1>0. TypeOK /\ UploadInvOf(g) /\ DeleteInv(L) /\ PurgeInv
  BY DEF HandlerInv, UploadInv
<1>1. ASSUME NEW f \in Files, UploadCheck(f)
      PROVE  UploadInvOf(g)' /\ Effect(g, L)
  BY <1>0, <1>1, MainMoves, SMTT(30)
     DEF UploadCheck, UploadInvOf, Effect, Untouched, Alive, Safe, Uploading, Early, Resolved, TypeOK, Main
<1>2. ASSUME NEW f \in Files, UploadPut(f)
      PROVE  UploadInvOf(g)' /\ Effect(g, L)
  BY <1>0, <1>2, MainMoves, SMTT(30)
     DEF UploadPut, UploadInvOf, Effect, Untouched, Alive, Safe, Uploading, Early, Resolved, TypeOK, Main
<1>3. ASSUME NEW f \in Files, UploadSave(f)
      PROVE  UploadInvOf(g)' /\ Effect(g, L)
  BY <1>0, <1>3, MainMoves
     DEF UploadSave, Saved, UploadInvOf, Effect, Untouched, Alive, Safe, Uploading, Early, Resolved, TypeOK, Main
<1>4. ASSUME NEW f \in Files, UploadUndo(f)
      PROVE  UploadInvOf(g)' /\ Effect(g, L)
  BY <1>0, <1>4, MainMoves, SMTT(30)
     DEF UploadUndo, Saved, UploadInvOf, Effect, Untouched, Alive, Safe, Uploading, Early, Resolved, TypeOK, Main
<1>5. ASSUME NEW f \in Files, UploadCount(f)
      PROVE  UploadInvOf(g)' /\ Effect(g, L)
  BY <1>0, <1>5, MainMoves
     DEF UploadCount, UploadInvOf, Effect, Untouched, Alive, Safe, Uploading, Early, Resolved, TypeOK, Main
<1>6. ASSUME NEW f \in Files, VariantBegin(f)
      PROVE  UploadInvOf(g)' /\ Effect(g, L)
  BY <1>0, <1>6, MainMoves
     DEF VariantBegin, UploadInvOf, Effect, Untouched, Alive, Safe, Uploading, Early, Resolved, TypeOK, Main
<1>7. ASSUME NEW f \in Files, VariantPut(f)
      PROVE  UploadInvOf(g)' /\ Effect(g, L)
  <2>1. \A d \in Drives : Main(g) \in bucket'[d] <=> Main(g) \in bucket[d]
    BY <1>0, <1>7, MainMoves DEF VariantPut
  <2>. QED
    BY <1>0, <1>7, <2>1
       DEF VariantPut, UploadInvOf, Effect, Untouched, Alive, Safe, Uploading, Early, Resolved, TypeOK, Main
<1>8. ASSUME NEW f \in Files, VariantReady(f)
      PROVE  UploadInvOf(g)' /\ Effect(g, L)
  <2>1. \A d \in Drives : Main(g) \in bucket'[d] <=> Main(g) \in bucket[d]
    BY <1>0, <1>8, MainMoves DEF VariantReady
  <2>. QED
    BY <1>0, <1>8, <2>1, ZenonT(60)
       DEF VariantReady, UploadInvOf, Effect, Untouched, Alive, Safe, Uploading, Early, Resolved, TypeOK, Main
<1>9. ASSUME NEW f \in Files, NEW k \in Requests, UserDelete(k, f)
      PROVE  UploadInvOf(g)' /\ Effect(g, L)
  BY <1>0, <1>9
     DEF UserDelete, DeleteStart, UploadInvOf, Effect, Untouched, Alive, Safe, Uploading, Early, Resolved, TypeOK, Main
<1>10. ASSUME NEW k \in Deleters, DeleteVariant(k)
      PROVE  UploadInvOf(g)' /\ Effect(g, L)
  <2>1. \A d \in Drives : Main(g) \in bucket'[d] <=> Main(g) \in bucket[d]
    BY <1>0, <1>10, MainMoves DEF DeleteVariant, DeleteInv, Deletable
  <2>. QED
    BY <1>0, <1>10, <2>1
       DEF DeleteVariant, UploadInvOf, Effect, Untouched, Alive, Safe, Uploading, Early, Resolved, TypeOK, Main
<1>11. ASSUME NEW k \in Deleters, DeleteBlob(k)
      PROVE  UploadInvOf(g)' /\ Effect(g, L)
  <2>1. Deletable(del[k].file, L)
    BY <1>0, <1>11 DEF DeleteBlob, DeleteInv
  <2>2. \A d \in Drives : Main(g) \in bucket'[d] => Main(g) \in bucket[d]
    BY <1>0, <1>11, <2>1, MainMoves DEF DeleteBlob, Deletable
  <2>3. g # del[k].file => \A d \in Drives : Main(g) \in bucket[d] => Main(g) \in bucket'[d]
    BY <1>0, <1>11, <2>1, MainMoves DEF DeleteBlob, Deletable
  <2>4. UNCHANGED <<up, upTo, acked, dropped, drive, recentObj>>
    BY <1>11 DEF DeleteBlob
  <2>. QED
    BY <1>0, <2>1, <2>2, <2>3, <2>4
       DEF Deletable, UploadInvOf, Effect, Untouched, Alive, Safe, Uploading, Early, Resolved, TypeOK, Main
<1>12. ASSUME NEW k \in Deleters, DeleteRow(k)
      PROVE  UploadInvOf(g)' /\ Effect(g, L)
  BY <1>0, <1>12
     DEF DeleteRow, DeleteInv, Deletable, UploadInvOf, Effect, Untouched, Alive, Safe, Uploading, Early, Resolved, TypeOK, Main
<1>13. ASSUME NEW k \in Deleters, DeleteRefund(k)
      PROVE  UploadInvOf(g)' /\ Effect(g, L)
  BY <1>0, <1>13
     DEF DeleteRefund, UploadInvOf, Effect, Untouched, Alive, Safe, Uploading, Early, Resolved, TypeOK, Main
<1>14. ASSUME PurgeList
      PROVE  UploadInvOf(g)' /\ Effect(g, L)
  BY <1>0, <1>14
     DEF PurgeList, UploadInvOf, Effect, Untouched, Alive, Safe, Uploading, Early, Resolved, TypeOK, Main
<1>15. ASSUME NEW t \in purgeTodo, PurgeBlob(t)
      PROVE  UploadInvOf(g)' /\ Effect(g, L)
  <2>1. dropped = Files /\ UNCHANGED <<up, upTo, acked, dropped, drive, recentObj>>
    BY <1>0, <1>15 DEF PurgeBlob, PurgeInv
  <2>2. \A d \in Drives : Main(g) \in bucket'[d] => Main(g) \in bucket[d]
    BY <1>0, <1>15 DEF PurgeBlob, Without, TypeOK
  <2>. QED
    BY <1>0, <2>1, <2>2
       DEF UploadInvOf, Effect, Untouched, Alive, Safe, Uploading, Early, Resolved, TypeOK, Main
<1>16. ASSUME PurgeRows
      PROVE  UploadInvOf(g)' /\ Effect(g, L)
  BY <1>0, <1>16
     DEF PurgeRows, PurgeInv, UploadInvOf, Effect, Untouched, Alive, Safe, Uploading, Early, Resolved, TypeOK, Main
<1>17. ASSUME PurgeReset
      PROVE  UploadInvOf(g)' /\ Effect(g, L)
  BY <1>0, <1>17
     DEF PurgeReset, UploadInvOf, Effect, Untouched, Alive, Safe, Uploading, Early, Resolved, TypeOK, Main
<1>18. ASSUME HandlersDie
      PROVE  UploadInvOf(g)' /\ Effect(g, L)
  BY <1>0, <1>18
     DEF HandlersDie, UploadInvOf, Effect, Untouched, Alive, Safe, Uploading, Early, Resolved, TypeOK, Main
<1>19. ASSUME NEW f \in Files, Age(f)
      PROVE  UploadInvOf(g)' /\ Effect(g, L)
  BY <1>0, <1>19
     DEF Age, UploadInvOf, Effect, Untouched, Alive, Safe, Uploading, Early, Resolved, TypeOK, Main
<1>. QED
  BY <1>1, <1>2, <1>3, <1>4, <1>5, <1>6, <1>7, <1>8, <1>9, <1>10, <1>11, <1>12, <1>13, <1>14, <1>15, <1>16, <1>17, <1>18, <1>19
     DEF HandlerStep, UploadStep, VariantStep, DeleteStep, PurgeStep

----------------------------------------------------------------------------
(* Deletes and purges in flight.                                           *)

LEMMA DeletesAndPurges ==
  ASSUME NEW L, HandlerInv(L), HandlerStep \/ HandlersDie \/ \E f \in Files : Age(f)
  PROVE  DeleteInv(L)' /\ PurgeInv'
<1> USE DEF storeVars, handlerVars
<1>0. /\ TypeOK /\ UploadInv /\ DeleteInv(L) /\ PurgeInv
      /\ \A g \in Files : (Alive(g)' => Alive(g)) /\ (up[g] \notin Early => up'[g] \notin Early)
  BY HandlerEffect DEF HandlerInv, Effect
<1>1. CASE UNCHANGED del
  <2>1. DeleteInv(L)'
    BY <1>0, <1>1, DeletesKept
  <2>2. PurgeInv'
    <3>1. CASE UNCHANGED <<purge, purgeTodo>> /\ (dropped = Files => dropped' = Files)
      BY <1>0, <3>1 DEF PurgeInv
    <3>2. CASE PurgeStep
      <4>1. CASE PurgeList
        BY <4>1 DEF PurgeList, PurgeInv
      <4>2. ASSUME NEW t \in purgeTodo, PurgeBlob(t)
            PROVE  PurgeInv'
        BY <1>0, <4>2 DEF PurgeBlob, PurgeInv
      <4>3. CASE PurgeRows
        BY <1>0, <4>3 DEF PurgeRows, PurgeInv
      <4>4. CASE PurgeReset
        BY <1>0, <4>4 DEF PurgeReset, PurgeInv
      <4>. QED
        BY <3>2, <4>1, <4>2, <4>3, <4>4 DEF PurgeStep
    <3>3. CASE HandlersDie
      BY <3>3 DEF HandlersDie, PurgeInv
    <3>4. ASSUME NEW f \in Files, UploadStep(f) \/ VariantStep(f) \/ Age(f)
          PROVE  UNCHANGED <<purge, purgeTodo, dropped>>
      BY <3>4 DEF UploadStep, UploadCheck, UploadPut, UploadSave, UploadUndo, UploadCount,
                  VariantStep, VariantBegin, VariantPut, VariantReady, Age
    <3>5. ASSUME NEW f \in Files, NEW k \in Requests, UserDelete(k, f)
          PROVE  UNCHANGED <<purge, purgeTodo>> /\ (dropped = Files => dropped' = Files)
      BY <1>0, <3>5 DEF UserDelete, DeleteStart
    <3>6. ASSUME NEW k \in Deleters, DeleteStep(k)
          PROVE  UNCHANGED <<purge, purgeTodo, dropped>>
      BY <3>6 DEF DeleteStep, DeleteVariant, DeleteBlob, DeleteRow, DeleteRefund
    <3>. QED
      BY <3>1, <3>2, <3>3, <3>4, <3>5, <3>6 DEF HandlerStep
  <2>. QED
    BY <2>1, <2>2
<1>2. ASSUME NEW f \in Files, UploadStep(f) \/ VariantStep(f) \/ Age(f)
      PROVE  UNCHANGED del
  BY <1>2 DEF UploadStep, UploadCheck, UploadPut, UploadSave, UploadUndo, UploadCount,
              VariantStep, VariantBegin, VariantPut, VariantReady, Age
<1>3. ASSUME NEW f \in Files, NEW k \in Requests, UserDelete(k, f)
      PROVE  DeleteInv(L)' /\ PurgeInv'
  <2>1. /\ UNCHANGED <<purge, purgeTodo, up>> /\ dropped' = dropped \cup {f}
        /\ del'[k].file = f /\ \A j \in Deleters \ {k} : del'[j] = del[j]
        /\ drive[f] # NoDrive
    BY <1>0, <1>3 DEF UserDelete, DeleteStart, TypeOK, Deleters, Rows
  <2>2. up[f] \notin Early
    BY <1>0, <2>1 DEF UploadInv, UploadInvOf
  <2>3. DeleteInv(L)'
    BY <1>0, <2>1, <2>2, DeletesKept DEF Deletable, Safe, Alive
  <2>4. PurgeInv'
    BY <1>0, <2>1 DEF PurgeInv, TypeOK
  <2>. QED
    BY <2>3, <2>4
<1>4. ASSUME NEW k \in Deleters, DeleteStep(k)
      PROVE  DeleteInv(L)' /\ PurgeInv'
  <2>1. /\ UNCHANGED <<purge, purgeTodo, dropped>>
        /\ \A j \in Deleters \ {k} : del'[j] = del[j]
        /\ del[k].pc # "idle"
        /\ del'[k].pc # "idle" => del'[k].file = del[k].file
    <3>1. CASE DeleteVariant(k)
      BY <1>0, <3>1 DEF DeleteVariant, TypeOK
    <3>2. CASE DeleteBlob(k)
      BY <1>0, <3>2 DEF DeleteBlob, TypeOK, Idle
    <3>3. CASE DeleteRow(k)
      BY <1>0, <3>3 DEF DeleteRow, TypeOK, Idle
    <3>4. CASE DeleteRefund(k)
      BY <1>0, <3>4 DEF DeleteRefund, TypeOK, Idle
    <3>. QED
      BY <1>4, <3>1, <3>2, <3>3, <3>4 DEF DeleteStep
  <2>2. DeleteInv(L)'
    BY <1>0, <2>1, DeletesKept
  <2>3. PurgeInv'
    BY <1>0, <2>1 DEF PurgeInv
  <2>. QED
    BY <2>2, <2>3
<1>5. CASE PurgeStep
  <2>1. ASSUME NEW t \in purgeTodo, PurgeBlob(t)
        PROVE  UNCHANGED del
    BY <2>1 DEF PurgeBlob
  <2>2. UNCHANGED del
    BY <1>5, <2>1 DEF PurgeStep, PurgeList, PurgeRows, PurgeReset
  <2>. QED
    BY <1>1, <2>2
<1>6. CASE HandlersDie
  BY <1>6 DEF HandlersDie, DeleteInv, PurgeInv, Idle
<1>. QED
  BY <1>1, <1>2, <1>3, <1>4, <1>5, <1>6 DEF HandlerStep

----------------------------------------------------------------------------
(* The invariant, for any set of files given up.                           *)

LEMMA HandlersKeep ==
  ASSUME NEW L, HandlerInv(L), HandlerStep \/ HandlersDie \/ \E f \in Files : Age(f)
  PROVE  HandlerInv(L)' /\ \A g \in Files : Effect(g, L)
<1>1. TypeOK'
  BY HandlerTypes DEF HandlerInv
<1>2. UploadInv' /\ \A g \in Files : Effect(g, L)
  BY HandlerEffect DEF UploadInv
<1>. QED
  BY <1>1, <1>2, DeletesAndPurges DEF HandlerInv

LEMMA StoreInvKept ==
  ASSUME NEW L, StoreInv(L), HandlerStep \/ HandlersDie \/ \E f \in Files : Age(f)
  PROVE  StoreInv(L)'
<1>1. HandlerInv(L)' /\ \A g \in Files : Effect(g, L)
  BY HandlersKeep DEF StoreInv
<1>2. ASSUME NEW g \in Files, Safe(g, L)', up'[g] \notin Early
      PROVE  Readable(g)'
  <2>1. CASE up[g] \in Early
    BY <1>1, <1>2, <2>1 DEF Effect, Safe, Untouched, Readable
  <2>2. CASE up[g] \notin Early
    BY <1>1, <1>2, <2>2 DEF Effect, Safe, StoreInv, Placed, Readable, Main
  <2>. QED
    BY <2>1, <2>2
<1>. QED
  BY <1>1, <1>2 DEF StoreInv, Placed

LEMMA StoreInvInitially ==
  ASSUME NEW L, StoreInit
  PROVE  StoreInv(L)
<1> USE FileStoreAssumption
<1>1. TypeOK
  BY DEF StoreInit, TypeOK, Idle, Objects
<1>2. UploadInv /\ Placed(L)
  BY DEF StoreInit, UploadInv, UploadInvOf, Placed, Uploading, Early, Resolved
<1>3. DeleteInv(L) /\ PurgeInv
  BY DEF StoreInit, DeleteInv, PurgeInv, Idle
<1>. QED
  BY <1>1, <1>2, <1>3 DEF StoreInv, HandlerInv

LEMMA HandlerInvUnchanged ==
  ASSUME NEW L, HandlerInv(L), UNCHANGED allStoreVars
  PROVE  HandlerInv(L)'
BY DEF HandlerInv, TypeOK, UploadInv, UploadInvOf, DeleteInv, Deletable, Safe, PurgeInv, Alive,
       allStoreVars, storeVars, handlerVars

LEMMA StoreInvDurable ==
  ASSUME StoreInv({})
  PROVE  Durable
<1> SUFFICES ASSUME NEW f \in acked, f \notin dropped
             PROVE  Readable(f)
  BY DEF Durable
<1>1. f \in Files /\ UploadInvOf(f)
  BY DEF StoreInv, HandlerInv, UploadInv, TypeOK
<1>. QED
  BY <1>1 DEF StoreInv, Placed, UploadInvOf, Safe, Alive, Early, Uploading

----------------------------------------------------------------------------
(* The invariant holds in every reachable state of the handlers.           *)
THEOREM StoreInvariance == StoreSpec => []StoreInv({})
<1>1. ASSUME StoreInv({}), UNCHANGED allStoreVars
      PROVE  StoreInv({})'
  BY <1>1, HandlerInvUnchanged
     DEF StoreInv, Placed, Readable, Safe, Alive, allStoreVars, storeVars, handlerVars
<1>2. StoreInv({}) /\ [StoreNext]_allStoreVars => StoreInv({})'
  BY <1>1, StoreInvKept DEF StoreNext
<1>3. StoreInit => StoreInv({})
  BY StoreInvInitially
<1>. QED
  BY <1>2, <1>3, PTL DEF StoreSpec

(* MinIO, the rows, the counter and the handlers keep their types.         *)
THEOREM StoreTypes == StoreSpec => []TypeOK
<1>1. StoreInv({}) => TypeOK
  BY DEF StoreInv, HandlerInv
<1>. QED
  BY <1>1, StoreInvariance, PTL

(* However many uploads, transcodes, deletes, purges, failures and crashes *)
(* interleave, a file whose upload was acknowledged and that nobody asked  *)
(* to delete is readable from the drive its row names.                     *)
THEOREM StoreDurable == StoreSpec => []Durable
<1>1. StoreInv({}) => Durable
  BY StoreInvDurable
<1>. QED
  BY <1>1, StoreInvariance, PTL

----------------------------------------------------------------------------
(* Without failures: what MinIO holds of a file, what the rows say, and    *)
(* what the handlers in flight still have to do about it.                  *)

Removed(f) == \A d \in Drives : Main(f) \notin bucket[d]

(* Between the removal of the object and that of the row.                  *)
Removing(f) == \E k \in Deleters : del[k].pc = "row" /\ del[k].file = f

InStepOf(f) ==
  /\ up[f] = "stored" => upTo[f] \in Drives /\ Main(f) \in bucket[upTo[f]]
  /\ up[f] = "failed" => drive[f] = NoDrive /\ Removed(f)
  /\ up[f] \notin Early \cup {"failed"} =>
       /\ upTo[f] \in Drives /\ drive[f] \in {upTo[f], NoDrive}
       /\ \A d \in Drives : Main(f) \in bucket[d] => d = upTo[f]
       /\ drive[f] = NoDrive => Removed(f)
       /\ drive[f] # NoDrive => Main(f) \in bucket[upTo[f]] \/ Removing(f)

DeletesInStep ==
  \A k \in Deleters : del[k].pc # "idle" =>
    /\ k \in Requests /\ del[k].file \in Files
    /\ up[del[k].file] \notin Early \cup {"failed"}
    /\ del[k].drive = upTo[del[k].file]
    /\ del[k].pc \in {"row", "refund"} => Removed(del[k].file)
    /\ OneDeleteAtATime /\ del[k].pc # "refund" => del[k].file \in Rows

InStep == (\A f \in Files : InStepOf(f)) /\ DeletesInStep

Saving == {f \in Files : up[f] = "saved"}
Refunding == {k \in Deleters : del[k].pc = "refund"}

Counted ==
  /\ IsFiniteSet(Refunding)
  /\ used <= Cardinality(Rows) - Cardinality(Saving) + Cardinality(Refunding)
  /\ OneDeleteAtATime => used = Cardinality(Rows) - Cardinality(Saving) + Cardinality(Refunding)

----------------------------------------------------------------------------
(* A step after which nothing has failed is one that does not fail.        *)
LEMMA StillUndisturbed ==
  ASSUME TypeOK, HandlerStep \/ HandlersDie \/ \E f \in Files : Age(f), Undisturbed'
  PROVE  Undisturbed /\ ~Fault /\ ~HandlersDie /\ ~PurgeStep
<1> USE DEF Undisturbed
<1>1. PurgeStep => purge' # "idle"
  <2>1. ASSUME NEW t \in purgeTodo, PurgeBlob(t)
        PROVE  purge' # "idle"
    BY <2>1 DEF PurgeBlob
  <2>. QED
    BY <2>1 DEF PurgeStep, PurgeList, PurgeRows, PurgeReset
<1>2. ~Fault /\ ~HandlersDie
  BY DEF Fault, HandlersDie, TypeOK
<1>3. CASE \E f \in Files : UploadStep(f) \/ VariantStep(f) \/ Age(f)
  BY <1>1, <1>2, <1>3 DEF UploadStep, UploadCheck, UploadPut, UploadSave, UploadUndo, UploadCount,
                    VariantStep, VariantBegin, VariantPut, VariantReady, Age, storeVars, handlerVars
<1>4. CASE \E f \in Files, k \in Requests : UserDelete(k, f)
  BY <1>1, <1>2, <1>4 DEF UserDelete, DeleteStart
<1>5. CASE \E k \in Deleters : DeleteStep(k)
  BY <1>1, <1>2, <1>5 DEF DeleteStep, DeleteVariant, DeleteBlob, DeleteRow, DeleteRefund
<1>. QED
  BY <1>1, <1>2, <1>3, <1>4, <1>5 DEF HandlerStep

LEMMA InStepStays ==
  ASSUME NEW g \in Files, InStepOf(g), Removing(g) => Removing(g)',
         up'[g] = up[g], upTo'[g] = upTo[g], drive'[g] = drive[g],
         \A d \in Drives : Main(g) \in bucket'[d] <=> Main(g) \in bucket[d]
  PROVE  InStepOf(g)'
<1>1. Removed(g)' <=> Removed(g)
  BY DEF Removed, Main
<1>. QED
  BY <1>1 DEF InStepOf, Main

LEMMA UploadsInStep ==
  ASSUME TypeOK, UploadInv, DeleteInv({}), InStep, ~Fault,
         NEW f \in Files, UploadStep(f) \/ VariantStep(f)
  PROVE  InStep'
<1> USE DEF storeVars
<1>0. UploadInvOf(f) /\ InStepOf(f) /\ DeletesInStep /\ \A g \in Files : InStepOf(g)
  BY DEF UploadInv, InStep
<1>1. /\ UNCHANGED del /\ \A g \in Files \ {f} : up'[g] = up[g] /\ upTo'[g] = upTo[g] /\ drive'[g] = drive[g]
      /\ \A g \in Files, d \in Drives : g # f => (Main(g) \in bucket'[d] <=> Main(g) \in bucket[d])
  <2>1. CASE UploadCheck(f) \/ UploadCount(f) \/ VariantBegin(f)
    BY <2>1 DEF UploadCheck, UploadCount, VariantBegin, TypeOK
  <2>2. CASE UploadPut(f)
    BY <2>2, MainMoves DEF UploadPut, TypeOK
  <2>3. CASE UploadSave(f)
    BY <2>3 DEF UploadSave, Saved, TypeOK
  <2>4. CASE UploadUndo(f)
    BY <2>4, MainMoves DEF UploadUndo, Saved, TypeOK
  <2>5. CASE VariantPut(f)
    BY <2>5, MainMoves DEF VariantPut, TypeOK
  <2>6. CASE VariantReady(f)
    BY <2>6, MainMoves DEF VariantReady, TypeOK
  <2>. QED
    BY <2>1, <2>2, <2>3, <2>4, <2>5, <2>6 DEF UploadStep, VariantStep
<1>2. \A g \in Files : Removing(g)' <=> Removing(g)
  BY <1>1 DEF Removing
<1>3. InStepOf(f)'
  <2>1. CASE UploadCheck(f)
    BY <1>0, <1>2, <2>1 DEF UploadCheck, UploadInvOf, InStepOf, Removed, Early, Resolved, TypeOK, Main
  <2>2. CASE UploadPut(f)
    BY <1>0, <2>2, MainMoves DEF UploadPut, UploadInvOf, InStepOf, Removed, Early, Resolved, TypeOK, Main
  <2>3. CASE UploadSave(f)
    BY <1>0, <2>3, FileStoreAssumption DEF UploadSave, Saved, UploadInvOf, InStepOf, Removed, Early, Resolved, TypeOK, Main
  <2>4. CASE UploadUndo(f)
    BY <1>0, <2>4, MainMoves DEF UploadUndo, UploadInvOf, InStepOf, Removed, Early, Resolved, TypeOK, Main
  <2>5. CASE UploadCount(f)
    BY <1>0, <1>2, <2>5 DEF UploadCount, UploadInvOf, InStepOf, Removed, Early, Resolved, TypeOK, Main
  <2>6. CASE VariantBegin(f)
    BY <1>0, <1>2, <2>6 DEF VariantBegin, UploadInvOf, InStepOf, Removed, Early, Resolved, TypeOK, Main
  <2>7. CASE VariantPut(f)
    <3>1. \A d \in Drives : Main(f) \in bucket'[d] <=> Main(f) \in bucket[d]
      BY <2>7, MainMoves DEF VariantPut
    <3>2. Removed(f)' <=> Removed(f)
      BY <3>1 DEF Removed, Main
    <3>. QED
      BY <1>0, <1>2, <2>7, <3>1, <3>2 DEF VariantPut, UploadInvOf, InStepOf, Early, Resolved, TypeOK, Main
  <2>8. CASE VariantReady(f)
    <3>1. \A d \in Drives : Main(f) \in bucket'[d] <=> Main(f) \in bucket[d]
      BY <2>8, MainMoves DEF VariantReady
    <3>2. Removed(f)' <=> Removed(f)
      BY <3>1 DEF Removed, Main
    <3>. QED
      BY <1>0, <1>2, <2>8, <3>1, <3>2 DEF VariantReady, UploadInvOf, InStepOf, Early, Resolved, TypeOK, Main
  <2>. QED
    BY <2>1, <2>2, <2>3, <2>4, <2>5, <2>6, <2>7, <2>8 DEF UploadStep, VariantStep
<1>4. ASSUME NEW g \in Files, g # f
      PROVE  InStepOf(g)'
  BY <1>0, <1>1, <1>2, <1>4, InStepStays
<1>5. ASSUME up[f] \notin Early \cup {"failed"}
      PROVE  /\ up'[f] \notin Early \cup {"failed"} /\ upTo'[f] = upTo[f] /\ drive'[f] = drive[f]
             /\ \A d \in Drives : Main(f) \in bucket'[d] <=> Main(f) \in bucket[d]
  <2>1. CASE UploadCount(f) \/ VariantBegin(f)
    BY <1>5, <2>1 DEF UploadCount, VariantBegin, Early, TypeOK
  <2>2. CASE VariantPut(f)
    BY <1>5, <2>2, MainMoves DEF VariantPut, Early, TypeOK
  <2>3. CASE VariantReady(f)
    BY <1>5, <2>3, MainMoves DEF VariantReady, Early, TypeOK
  <2>. QED
    BY <1>5, <2>1, <2>2, <2>3
       DEF UploadStep, VariantStep, UploadCheck, UploadPut, UploadSave, UploadUndo, Early
<1>6. DeletesInStep'
  BY <1>0, <1>1, <1>5 DEF DeletesInStep, Removed, Rows, OneDeleteAtATime, Main
<1>. QED
  BY <1>3, <1>4, <1>6 DEF InStep

LEMMA DeletesStayInStep ==
  ASSUME TypeOK, UploadInv, InStep, ~Fault,
         \/ \E f \in Files, k \in Requests : UserDelete(k, f)
         \/ \E k \in Deleters : DeleteStep(k)
  PROVE  InStep'
<1> USE DEF storeVars
<1>0. DeletesInStep /\ \A g \in Files : UploadInvOf(g) /\ InStepOf(g)
  BY DEF UploadInv, InStep
<1>1. ASSUME NEW f \in Files, NEW k \in Requests, UserDelete(k, f)
      PROVE  InStep'
  <2>1. /\ del[k].pc = "idle" /\ drive[f] # NoDrive /\ k \in Deleters
        /\ del' = [del EXCEPT ![k] = [pc |-> "variant", file |-> f, drive |-> drive[f]]]
        /\ UNCHANGED <<bucket, drive, up, upTo>>
    BY <1>1 DEF UserDelete, DeleteStart, Rows, Deleters
  <2>2. up[f] \notin Early \cup {"failed"} /\ drive[f] = upTo[f]
    BY <1>0, <2>1 DEF UploadInvOf, InStepOf
  <2>3. DeletesInStep'
    BY <1>0, <2>1, <2>2 DEF DeletesInStep, OneDeleteAtATime, Removed, Rows, TypeOK, Main
  <2>4. \A g \in Files : Removing(g) => Removing(g)'
    BY <2>1 DEF Removing, TypeOK
  <2>5. \A g \in Files : InStepOf(g)'
    BY <1>0, <2>1, <2>4, InStepStays
  <2>. QED
    BY <2>3, <2>5 DEF InStep
<1>2. ASSUME NEW k \in Deleters, DeleteVariant(k)
      PROVE  InStep'
  <2>1. /\ del' = [del EXCEPT ![k].pc = "blob"] /\ del[k].pc = "variant"
        /\ UNCHANGED <<drive, up, upTo>>
    BY <1>2 DEF DeleteVariant
  <2>2. \A g \in Files, d \in Drives : Main(g) \in bucket'[d] <=> Main(g) \in bucket[d]
    BY <1>0, <1>2, MainMoves DEF DeleteVariant, DeletesInStep
  <2>3. DeletesInStep'
    BY <1>0, <2>1, <2>2 DEF DeletesInStep, OneDeleteAtATime, Removed, Rows, TypeOK, Main
  <2>4. \A g \in Files : Removing(g) => Removing(g)'
    BY <2>1 DEF Removing, TypeOK
  <2>5. \A g \in Files : InStepOf(g)'
    BY <1>0, <2>1, <2>2, <2>4, InStepStays
  <2>. QED
    BY <2>3, <2>5 DEF InStep
<1>3. ASSUME NEW k \in Deleters, DeleteBlob(k)
      PROVE  InStep'
  <2>1. /\ del' = [del EXCEPT ![k].pc = "row"] /\ del[k].pc = "blob"
        /\ bucket' = Without(Main(del[k].file), del[k].drive)
        /\ UNCHANGED <<drive, up, upTo>>
    BY <1>3 DEF DeleteBlob
  <2>2. /\ del[k].file \in Files /\ up[del[k].file] \notin Early \cup {"failed"}
        /\ del[k].drive = upTo[del[k].file] /\ upTo[del[k].file] \in Drives
    BY <1>0, <2>1 DEF DeletesInStep, InStepOf
  <2>3. /\ \A g \in Files, d \in Drives : Main(g) \in bucket'[d] => Main(g) \in bucket[d]
        /\ \A g \in Files, d \in Drives :
             g # del[k].file => (Main(g) \in bucket'[d] <=> Main(g) \in bucket[d])
        /\ Main(del[k].file) \notin bucket'[del[k].drive]
    BY <2>1, <2>2, MainMoves
  <2>4. Removed(del[k].file)'
    <3> DEFINE f == del[k].file
    <3>1. \A d \in Drives : Main(f) \notin bucket'[d]
      BY <1>0, <2>2, <2>3 DEF InStepOf
    <3>2. del'[k].file = f
      BY <2>1 DEF TypeOK
    <3>. QED
      BY <3>1, <3>2 DEF Removed, Main
  <2>5. DeletesInStep'
    <3> SUFFICES ASSUME NEW j \in Deleters, del'[j].pc # "idle"
                 PROVE  /\ j \in Requests /\ del'[j].file \in Files
                        /\ up[del'[j].file] \notin Early \cup {"failed"}
                        /\ del'[j].drive = upTo[del'[j].file]
                        /\ del'[j].pc \in {"row", "refund"} => Removed(del[j].file)'
                        /\ OneDeleteAtATime /\ del'[j].pc # "refund" => del'[j].file \in Rows
      BY <2>1 DEF DeletesInStep, OneDeleteAtATime, Rows
    <3>1. del'[j].file = del[j].file /\ del'[j].drive = del[j].drive /\ del[j].pc # "idle"
          /\ (j # k => del'[j].pc = del[j].pc)
      BY <2>1 DEF TypeOK
    <3>2. j # k /\ del'[j].pc \in {"row", "refund"} => Removed(del[j].file)'
      BY <1>0, <2>3, <3>1 DEF DeletesInStep, Removed, Main
    <3>. QED
      BY <1>0, <2>1, <2>4, <3>1, <3>2 DEF DeletesInStep
  <2>6. \A g \in Files : InStepOf(g)'
    <3> SUFFICES ASSUME NEW g \in Files
                 PROVE  InStepOf(g)'
      OBVIOUS
    <3>1. Removing(g) => Removing(g)'
      BY <2>1 DEF Removing, TypeOK
    <3>2. CASE g = del[k].file
      <4>1. Removing(g)'
        BY <2>1, <3>2 DEF Removing, TypeOK
      <4>. QED
        BY <1>0, <2>1, <2>2, <2>3, <2>4, <3>2, <4>1 DEF InStepOf, Removed, Early, Main
    <3>3. CASE g # del[k].file
      BY <1>0, <2>1, <2>3, <3>1, <3>3, InStepStays
    <3>. QED
      BY <3>2, <3>3
  <2>. QED
    BY <2>5, <2>6 DEF InStep
<1>4. ASSUME NEW k \in Deleters, DeleteRow(k)
      PROVE  InStep'
  <2>1. /\ del' = [del EXCEPT ![k].pc = "refund"] /\ del[k].pc = "row"
        /\ drive' = [drive EXCEPT ![del[k].file] = NoDrive]
        /\ UNCHANGED <<bucket, up, upTo>>
    BY <1>4 DEF DeleteRow
  <2>2. /\ del[k].file \in Files /\ Removed(del[k].file) /\ k \in Requests
        /\ up[del[k].file] \notin Early \cup {"failed"}
    BY <1>0, <2>1 DEF DeletesInStep
  <2>3. DeletesInStep'
    <3>1. \A j \in Deleters :
            /\ del'[j].file = del[j].file /\ del'[j].drive = del[j].drive
            /\ del'[j].pc # "idle" => del[j].pc # "idle"
            /\ j # k => del'[j].pc = del[j].pc
      BY <2>1 DEF TypeOK
    <3>2. ASSUME NEW j \in Deleters, OneDeleteAtATime, del'[j].pc \notin {"idle", "refund"}
          PROVE  FALSE
      BY <1>0, <2>1, <2>2, <3>1, <3>2 DEF DeletesInStep, OneDeleteAtATime, TypeOK
    <3>. QED
      BY <1>0, <2>1, <2>2, <3>1, <3>2 DEF DeletesInStep, OneDeleteAtATime, Removed, Main
  <2>4. \A g \in Files : g # del[k].file /\ Removing(g) => Removing(g)'
    BY <2>1 DEF Removing, TypeOK
  <2>5. \A g \in Files : InStepOf(g)'
    <3> SUFFICES ASSUME NEW g \in Files
                 PROVE  InStepOf(g)'
      OBVIOUS
    <3>1. CASE g # del[k].file
      BY <1>0, <2>1, <2>4, <3>1, InStepStays DEF TypeOK
    <3>2. CASE g = del[k].file
      <4>1. Removed(g)' /\ drive'[g] = NoDrive
        BY <2>1, <2>2, <3>2 DEF Removed, TypeOK, Main
      <4>. QED
        BY <1>0, <2>1, <2>2, <3>2, <4>1 DEF InStepOf, Early
    <3>. QED
      BY <3>1, <3>2
  <2>. QED
    BY <2>3, <2>5 DEF InStep
<1>5. ASSUME NEW k \in Deleters, DeleteRefund(k)
      PROVE  InStep'
  <2>1. /\ del' = [del EXCEPT ![k] = Idle] /\ del[k].pc = "refund"
        /\ UNCHANGED <<bucket, drive, up, upTo>>
    BY <1>5 DEF DeleteRefund
  <2>2. DeletesInStep'
    BY <1>0, <2>1 DEF DeletesInStep, OneDeleteAtATime, Removed, Rows, Idle, TypeOK, Main
  <2>3. \A g \in Files : Removing(g) => Removing(g)'
    BY <2>1 DEF Removing, Idle, TypeOK
  <2>4. \A g \in Files : InStepOf(g)'
    BY <1>0, <2>1, <2>3, InStepStays
  <2>. QED
    BY <2>2, <2>4 DEF InStep
<1>. QED
  BY <1>1, <1>2, <1>3, <1>4, <1>5 DEF DeleteStep

LEMMA CountOne ==
  ASSUME NEW S, IsFiniteSet(S), NEW x
  PROVE  /\ x \notin S => Cardinality(S \cup {x}) = Cardinality(S) + 1
         /\ x \in S => Cardinality(S \ {x}) = Cardinality(S) - 1
         /\ IsFiniteSet(S \cup {x}) /\ IsFiniteSet(S \ {x}) /\ Cardinality(S) \in Int
  BY FS_AddElement, FS_RemoveElement, FS_CardinalityType

LEMMA CountedKept ==
  ASSUME TypeOK, UploadInv, InStep, Counted, ~Fault, HandlerStep, ~PurgeStep
  PROVE  Counted'
<1> USE DEF storeVars
<1>0. /\ IsFiniteSet(Rows) /\ IsFiniteSet(Saving) /\ IsFiniteSet(Refunding)
      /\ Cardinality(Rows) \in Int /\ Cardinality(Saving) \in Int
      /\ Cardinality(Refunding) \in Int /\ used \in Int
  BY FileStoreAssumption, FS_Subset, CountOne DEF Rows, Saving, Counted, TypeOK
<1>1. CASE UNCHANGED <<used, Rows, Saving, Refunding>>
  BY <1>1 DEF Counted, OneDeleteAtATime
<1>2. ASSUME NEW f \in Files, UploadCheck(f) \/ UploadPut(f) \/ UploadUndo(f) \/ VariantStep(f)
      PROVE  UNCHANGED <<used, Rows, Saving, Refunding>>
  BY <1>2 DEF UploadCheck, UploadPut, UploadUndo, VariantStep, VariantBegin, VariantPut,
              VariantReady, TypeOK, Rows, Saving, Refunding
<1>3. ASSUME NEW f \in Files, UploadSave(f)
      PROVE  Counted'
  <2>1. f \notin Rows /\ f \notin Saving
    BY <1>3 DEF UploadInv, UploadInvOf, Early, UploadSave, Rows, Saving
  <2>2. upTo[f] # NoDrive
    BY <1>3, FileStoreAssumption DEF UploadInv, UploadInvOf, Resolved, UploadSave
  <2>3. /\ Rows' = Rows \cup {f} /\ Saving' = Saving \cup {f}
        /\ Refunding' = Refunding /\ used' = used
    BY <1>3, <2>2 DEF UploadSave, Saved, Rows, Saving, Refunding, TypeOK
  <2>. QED
    BY <1>0, <2>1, <2>3, CountOne DEF Counted, OneDeleteAtATime
<1>4. ASSUME NEW f \in Files, UploadCount(f)
      PROVE  Counted'
  <2>1. /\ f \in Saving /\ Saving' = Saving \ {f}
        /\ Rows' = Rows /\ Refunding' = Refunding /\ used' = used + 1
    BY <1>4 DEF UploadCount, Rows, Saving, Refunding, TypeOK
  <2>. QED
    BY <1>0, <2>1, CountOne DEF Counted, OneDeleteAtATime
<1>5. ASSUME NEW f \in Files, NEW k \in Requests, UserDelete(k, f)
      PROVE  UNCHANGED <<used, Rows, Saving, Refunding>>
  BY <1>5 DEF UserDelete, DeleteStart, TypeOK, Rows, Saving, Refunding
<1>6. ASSUME NEW k \in Deleters, DeleteVariant(k) \/ DeleteBlob(k)
      PROVE  UNCHANGED <<used, Rows, Saving, Refunding>>
  BY <1>6 DEF DeleteVariant, DeleteBlob, TypeOK, Rows, Saving, Refunding
<1>7. ASSUME NEW k \in Deleters, DeleteRow(k)
      PROVE  Counted'
  <2>1. /\ k \notin Refunding /\ Refunding' = Refunding \cup {k}
        /\ Rows' = Rows \ {del[k].file} /\ Saving' = Saving /\ used' = used
    BY <1>7 DEF DeleteRow, Rows, Saving, Refunding, TypeOK
  <2>2. OneDeleteAtATime => del[k].file \in Rows
    BY <1>7 DEF DeleteRow, InStep, DeletesInStep
  <2>3. Cardinality(Refunding') = Cardinality(Refunding) + 1 /\ IsFiniteSet(Refunding')
    BY <1>0, <2>1, CountOne
  <2>4. OneDeleteAtATime' = OneDeleteAtATime
    BY DEF OneDeleteAtATime
  <2>5. CASE del[k].file \in Rows
    <3>1. Cardinality(Rows') = Cardinality(Rows) - 1
      BY <1>0, <2>1, <2>5, CountOne
    <3>. QED
      BY <1>0, <2>1, <2>3, <2>4, <3>1 DEF Counted
  <2>6. CASE del[k].file \notin Rows
    <3>1. Rows' = Rows
      BY <2>1, <2>6
    <3>. QED
      BY <1>0, <2>1, <2>2, <2>3, <2>4, <2>6, <3>1 DEF Counted
  <2>. QED
    BY <2>5, <2>6
<1>8. ASSUME NEW k \in Deleters, DeleteRefund(k)
      PROVE  Counted'
  <2>1. /\ k \in Refunding /\ Refunding' = Refunding \ {k}
        /\ Rows' = Rows /\ Saving' = Saving /\ used' = used - 1
    BY <1>8 DEF DeleteRefund, Refunded, Rows, Saving, Refunding, TypeOK, Idle
  <2>. QED
    BY <1>0, <2>1, CountOne DEF Counted, OneDeleteAtATime
<1>. QED
  BY <1>1, <1>2, <1>3, <1>4, <1>5, <1>6, <1>7, <1>8
     DEF HandlerStep, UploadStep, VariantStep, DeleteStep

(* The invariants while nothing has failed.                                *)
Balanced == Undisturbed => InStep /\ Counted

LEMMA BalancedKept ==
  ASSUME StoreInv({}), Balanced, [StoreNext]_allStoreVars
  PROVE  Balanced'
<1> USE DEF Balanced
<1>0. TypeOK /\ UploadInv /\ DeleteInv({})
  BY DEF StoreInv, HandlerInv
<1>1. CASE UNCHANGED allStoreVars
  BY <1>1 DEF Undisturbed, InStep, InStepOf, Removed, Removing, DeletesInStep, OneDeleteAtATime,
              Counted, Rows, Saving, Refunding, allStoreVars, storeVars, handlerVars
<1>2. CASE StoreNext /\ Undisturbed'
  <2>1. Undisturbed /\ ~Fault /\ ~HandlersDie /\ ~PurgeStep
    BY <1>0, <1>2, StillUndisturbed DEF StoreNext
  <2>2. ASSUME NEW f \in Files, Age(f)
        PROVE  InStep' /\ Counted'
    BY <2>1, <2>2 DEF Age, InStep, InStepOf, Removed, Removing, DeletesInStep, OneDeleteAtATime,
              Counted, Rows, Saving, Refunding, handlerVars
  <2>3. CASE HandlerStep
    BY <1>0, <2>1, <2>3, CountedKept, UploadsInStep, DeletesStayInStep
       DEF HandlerStep, DeleteStep
  <2>. QED
    BY <1>2, <2>1, <2>2, <2>3 DEF StoreNext
<1>. QED
  BY <1>1, <1>2

LEMMA BalancedInitially ==
  ASSUME StoreInit
  PROVE  Balanced
<1>1. InStep
  BY DEF StoreInit, InStep, InStepOf, DeletesInStep, Idle, Early
<1>2. Rows = {} /\ Saving = {} /\ Refunding = {} /\ used = 0
  BY DEF StoreInit, Rows, Saving, Refunding, Idle
<1>. QED
  BY <1>1, <1>2, FS_EmptySet DEF Balanced, Counted

THEOREM StoreBalanced == StoreSpec => []Balanced
<1>1. StoreInv({}) /\ Balanced /\ [StoreNext]_allStoreVars => Balanced'
  BY BalancedKept
<1>2. StoreInit => Balanced
  BY BalancedInitially
<1>. QED
  BY <1>1, <1>2, StoreInvariance, PTL DEF StoreSpec

(* As long as no call fails and nobody is purged, the handlers leave no    *)
(* orphan object and no ghost row behind, however many uploads and deletes *)
(* of the same files overlap.                                              *)
THEOREM StoreInStep == StoreSpec => []InStepAtRest
<1>1. StoreInv({}) /\ Balanced => InStepAtRest
  <2> SUFFICES ASSUME StoreInv({}), InStep, AtRest, NEW f \in Files
               PROVE  IF f \in Rows THEN Readable(f) ELSE ~Stored(f)
    BY DEF Balanced, InStepAtRest
  <2>1. InStepOf(f) /\ UploadInvOf(f) /\ TypeOK /\ ~Removing(f)
    BY DEF InStep, StoreInv, HandlerInv, UploadInv, AtRest, Removing
  <2>2. CASE up[f] \in {"new", "failed"}
    BY <2>1, <2>2 DEF InStepOf, UploadInvOf, Removed, Rows, Stored, Early
  <2>3. CASE up[f] \notin Early \cup {"failed"}
    BY <2>1, <2>3 DEF InStepOf, Removed, Rows, Readable, Stored
  <2>. QED
    BY <2>2, <2>3 DEF AtRest, Early
<1>. QED
  BY <1>1, StoreInvariance, StoreBalanced, PTL

(* As long as no call fails and nobody is purged, the storage counter is   *)
(* never above what is due; and it is exact when no two deletes can run at *)
(* once.                                                                   *)
THEOREM StoreCounter == StoreSpec => []CounterExact
<1>1. Balanced => CounterExact
  BY DEF Balanced, Counted, CounterExact, Due, Saving, Refunding
<1>. QED
  BY <1>1, StoreBalanced, PTL
----------------------------------------------------------------------------
(* What the store implements.  A file can be read only once it was saved,  *)
(* its row and its object are never made anew, and what was lost was not   *)
(* to be kept: so every step is one of FileVault, or changes nothing there. *)

(* Some files vanish: those that are no longer unsaved or kept.            *)
LEMMA VanishStep ==
  ASSUME UNCHANGED <<acked, dropped>>, Unsaved' \subseteq Unsaved, Kept' \subseteq Kept,
         \A g \in Kept \ Kept' : g \in acked => g \in dropped
  PROVE  Vault!VaultNext
<1> DEFINE gone == (Unsaved \ Unsaved') \cup (Kept \ Kept')
<1>1. gone \in SUBSET Files /\ Kept \cap Unsaved = {}
  BY DEF Unsaved, Kept
<1>2. Unsaved' = Unsaved \ gone /\ Kept' = Kept \ gone
  BY <1>1
<1>3. gone \subseteq Unsaved \cup Kept /\ gone \cap Kept \cap acked \subseteq dropped
  BY <1>1
<1>4. Vault!Vanish(gone)
  BY <1>2, <1>3 DEF Vault!Vanish
<1>. QED
  BY <1>1, <1>4 DEF Vault!VaultNext

(* A saved file gets no other row, ...                                     *)
LEMMA RowsFade ==
  ASSUME TypeOK, HandlerStep \/ HandlersDie \/ \E f \in Files : Age(f), NEW g \in Files, up[g] \notin Early
  PROVE  drive'[g] \in {drive[g], NoDrive}
<1>1. ASSUME NEW f \in Files, UploadStep(f) \/ VariantStep(f) \/ Age(f)
      PROVE  drive'[g] = drive[g]
  BY <1>1 DEF UploadStep, UploadCheck, UploadPut, UploadSave, UploadUndo, UploadCount, Saved, Early,
              VariantStep, VariantBegin, VariantPut, VariantReady, Age, storeVars, TypeOK
<1>2. ASSUME NEW f \in Files, NEW k \in Requests, UserDelete(k, f)
      PROVE  drive'[g] = drive[g]
  BY <1>2 DEF UserDelete, DeleteStart, storeVars
<1>3. ASSUME NEW k \in Deleters, DeleteStep(k)
      PROVE  drive'[g] \in {drive[g], NoDrive}
  BY <1>3 DEF DeleteStep, DeleteVariant, DeleteBlob, DeleteRow, DeleteRefund, TypeOK
<1>4. CASE PurgeStep
  <2>1. ASSUME NEW t \in purgeTodo, PurgeBlob(t)
        PROVE  drive'[g] = drive[g]
    BY <2>1 DEF PurgeBlob
  <2>. QED
    BY <1>4, <2>1 DEF PurgeStep, PurgeList, PurgeRows, PurgeReset, storeVars
<1>5. CASE HandlersDie
  BY <1>5 DEF HandlersDie, storeVars
<1>. QED
  BY <1>1, <1>2, <1>3, <1>4, <1>5 DEF HandlerStep

(* ... so that it can be read only if it could before, ...                 *)
LEMMA SavedFade ==
  ASSUME StoreInv({}), HandlerStep \/ HandlersDie \/ \E f \in Files : Age(f),
         NEW g \in Files, up[g] \notin Early
  PROVE  /\ up'[g] \notin Early /\ (Readable(g)' => Readable(g))
         /\ Readable(g) /\ ~Readable(g)' => ~Alive(g)'
<1>1. Effect(g, {}) /\ TypeOK
  BY HandlersKeep DEF StoreInv, HandlerInv
<1>2. drive'[g] \in {drive[g], NoDrive}
  BY <1>1, RowsFade
<1>. QED
  BY <1>1, <1>2, FileStoreAssumption DEF Effect, Readable, Main

(* ... and a file that could not can be only once its row is inserted.     *)
LEMMA ArrivesSaved ==
  ASSUME StoreInv({}), HandlerStep \/ HandlersDie \/ \E f \in Files : Age(f),
         NEW g \in Files, up[g] \in Early, up'[g] \notin Early, Readable(g)'
  PROVE  UploadSave(g)
<1>0. TypeOK /\ drive[g] = NoDrive /\ NoDrive \notin Drives /\ upTo[g] \in Drives \cup {NoDrive}
  BY FileStoreAssumption DEF StoreInv, HandlerInv, UploadInv, UploadInvOf, TypeOK
<1>1. drive'[g] # drive[g] /\ up'[g] # up[g] /\ Main(g) \in bucket'[drive'[g]]
  BY <1>0 DEF Readable, Main
<1>2. ASSUME NEW f \in Files, UploadStep(f) \/ VariantStep(f)
      PROVE  f = g /\ (UploadSave(g) \/ UploadUndo(g))
  BY <1>0, <1>1, <1>2 DEF UploadStep, UploadCheck, UploadPut, UploadSave, UploadUndo, UploadCount, Saved,
              VariantStep, VariantBegin, VariantPut, VariantReady, storeVars, TypeOK
<1>3. ASSUME UploadUndo(g)
      PROVE  FALSE
  <2>1. drive'[g] = upTo[g] /\ bucket' = Without(Main(g), upTo[g])
    BY <1>0, <1>1, <1>3 DEF UploadUndo, Saved, TypeOK
  <2>. QED
    BY <1>0, <1>1, <2>1, MainMoves DEF Readable, Main
<1>4. ASSUME NEW f \in Files, NEW k \in Requests, UserDelete(k, f)
      PROVE  FALSE
  BY <1>1, <1>4 DEF UserDelete, DeleteStart
<1>5. ASSUME NEW k \in Deleters, DeleteStep(k)
      PROVE  FALSE
  BY <1>1, <1>5 DEF DeleteStep, DeleteVariant, DeleteBlob, DeleteRow, DeleteRefund
<1>6. CASE PurgeStep
  <2>1. ASSUME NEW t \in purgeTodo, PurgeBlob(t)
        PROVE  FALSE
    BY <1>1, <2>1 DEF PurgeBlob
  <2>. QED
    BY <1>1, <1>6, <2>1 DEF PurgeStep, PurgeList, PurgeRows, PurgeReset
<1>7. CASE HandlersDie
  BY <1>1, <1>7 DEF HandlersDie, storeVars
<1>8. ASSUME NEW f \in Files, Age(f)
      PROVE  FALSE
  BY <1>1, <1>8 DEF Age, handlerVars
<1>. QED
  BY <1>2, <1>3, <1>4, <1>5, <1>6, <1>7, <1>8 DEF HandlerStep

LEMMA VaultStep ==
  ASSUME StoreInv({}), HandlerStep \/ HandlersDie \/ \E f \in Files : Age(f)
  PROVE  [Vault!VaultNext]_Vault!vaultVars
<1> DEFINE Goal == [Vault!VaultNext]_Vault!vaultVars
<1>0. TypeOK /\ UploadInv
  BY DEF StoreInv, HandlerInv
<1>1. /\ \A g \in Files : g \in Unsaved <=> up[g] \in Early
      /\ \A g \in Files : g \in Unsaved' <=> up'[g] \in Early
      /\ Unsaved \subseteq Files /\ Unsaved' \subseteq Files /\ Kept \subseteq Files /\ Kept' \subseteq Files
  BY DEF Unsaved, Kept, Early
<1>2. Unsaved' \subseteq Unsaved
  BY <1>1, SavedFade
<1>3. \A g \in Kept \ Kept' : g \in acked' => g \in dropped'
  BY <1>1, SavedFade DEF Kept, Alive
<1>4. \A g \in Kept' \ Kept : UploadSave(g)
  <2> SUFFICES ASSUME NEW g \in Kept', g \notin Kept PROVE UploadSave(g)
    OBVIOUS
  <2>1. g \in Files /\ up'[g] \notin Early /\ Readable(g)'
    BY <1>1 DEF Kept
  <2>2. up[g] \in Early
    BY <1>1, <2>1, SavedFade DEF Kept
  <2>. QED
    BY <2>1, <2>2, ArrivesSaved
<1>5. ASSUME NEW f \in Files, UploadSave(f), f \in Kept'
      PROVE  Goal
  <2>1. UNCHANGED <<acked, dropped>> /\ f \in Unsaved /\ f \notin Unsaved'
        /\ \A g \in Files \ {f} : up'[g] = up[g] /\ drive'[g] = drive[g] /\ bucket' = bucket
    BY <1>0, <1>1, <1>5 DEF UploadSave, Saved, TypeOK, Early
  <2>2. Unsaved' = Unsaved \ {f}
    BY <1>1, <2>1
  <2>3. \A g \in Files \ {f} : g \in Kept' <=> g \in Kept
    BY <1>1, <2>1 DEF Kept, Readable, Main
  <2>4. Kept' = Kept \cup {f}
    BY <1>1, <1>5, <2>3
  <2>5. Vault!Arrive(f)
    BY <2>1, <2>2, <2>4 DEF Vault!Arrive
  <2>. QED
    BY <2>5 DEF Vault!VaultNext
<1>6. ASSUME NEW f \in Files, UploadCount(f), acked' # acked
      PROVE  Goal
  <2>1. acked' = acked \cup {f} /\ UNCHANGED <<drive, bucket, dropped>> /\ up[f] = "saved"
    BY <1>0, <1>6 DEF UploadCount
  <2>2. \A g \in Files : up'[g] \in Early <=> up[g] \in Early
    BY <1>0, <1>6, <2>1 DEF UploadCount, TypeOK, Early
  <2>3. Unsaved' = Unsaved /\ Kept' = Kept
    BY <1>1, <2>1, <2>2 DEF Kept, Readable, Main
  <2>4. f \in Kept \cup dropped
    BY <1>1, <2>1 DEF Kept, StoreInv, Placed, Safe, Alive, Early, Uploading
  <2>5. Vault!Report(f)
    BY <2>1, <2>3, <2>4 DEF Vault!Report
  <2>. QED
    BY <2>5 DEF Vault!VaultNext
<1>7. ASSUME NEW some \in SUBSET Files, dropped' = dropped \cup some, UNCHANGED <<up, drive, bucket, acked>>
      PROVE  Goal
  <2>1. Unsaved' = Unsaved /\ Kept' = Kept
    BY <1>7 DEF Unsaved, Kept, Readable, Main
  <2>2. Vault!Ask(some)
    BY <1>7, <2>1 DEF Vault!Ask
  <2>. QED
    BY <2>2 DEF Vault!VaultNext
<1>8. ASSUME NEW f \in Files, NEW k \in Requests, UserDelete(k, f)
      PROVE  Goal
  BY <1>7, <1>8 DEF UserDelete, DeleteStart, storeVars
<1>9. ASSUME PurgeList
      PROVE  Goal
  BY <1>0, <1>7, <1>9 DEF PurgeList, storeVars, TypeOK
<1>10. ASSUME Kept' \subseteq Kept, UNCHANGED <<acked, dropped>>
       PROVE  Goal
  BY <1>2, <1>3, <1>10, VanishStep
<1>11. \/ UNCHANGED <<acked, dropped>> \/ PurgeList
       \/ \E f \in Files : (UploadCount(f) /\ acked' # acked) \/ \E k \in Requests : UserDelete(k, f)
  <2>1. ASSUME NEW f \in Files, UploadStep(f) \/ VariantStep(f) \/ Age(f)
        PROVE  UNCHANGED <<acked, dropped>> \/ (UploadCount(f) /\ acked' # acked)
    BY <2>1 DEF UploadStep, UploadCheck, UploadPut, UploadSave, UploadUndo, UploadCount,
                VariantStep, VariantBegin, VariantPut, VariantReady, Age
  <2>2. ASSUME NEW k \in Deleters, DeleteStep(k)
        PROVE  UNCHANGED <<acked, dropped>>
    BY <2>2 DEF DeleteStep, DeleteVariant, DeleteBlob, DeleteRow, DeleteRefund
  <2>3. PurgeStep => UNCHANGED <<acked, dropped>> \/ PurgeList
    BY DEF PurgeStep, PurgeBlob, PurgeRows, PurgeReset
  <2>4. HandlersDie => UNCHANGED <<acked, dropped>>
    BY DEF HandlersDie
  <2>. QED
    BY <2>1, <2>2, <2>3, <2>4 DEF HandlerStep
<1>. QED
  BY <1>1, <1>4, <1>5, <1>6, <1>8, <1>9, <1>10, <1>11

(* The handlers implement FileVault: whatever fails, a file reported as    *)
(* stored stays until somebody asks for its deletion, only what was stored *)
(* is reported, and what is gone does not come back.                       *)
THEOREM StoreKeepsPromise == StoreSpec => ImplementsFileVault
<1>1. StoreInit => Vault!VaultInit
  BY FileStoreAssumption DEF StoreInit, Vault!VaultInit, Unsaved, Kept
<1>2. ASSUME UNCHANGED allStoreVars
      PROVE  UNCHANGED Vault!vaultVars
  BY <1>2 DEF allStoreVars, storeVars, handlerVars, Vault!vaultVars, Unsaved, Kept, Readable, Main
<1>3. StoreInv({}) /\ [StoreNext]_allStoreVars => [Vault!VaultNext]_Vault!vaultVars
  BY <1>2, VaultStep DEF StoreNext
<1>. QED
  BY <1>1, <1>3, StoreInvariance, PTL DEF StoreSpec, ImplementsFileVault, Vault!VaultSpec

=============================================================================
