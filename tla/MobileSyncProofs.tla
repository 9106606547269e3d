-------------------------- MODULE MobileSyncProofs --------------------------
(***************************************************************************)
(* The camera-roll backup keeps the promise of PhotoBackup, for any number *)
(* of photos, failures, kills and deletions and any limit and quota.       *)
(*                                                                         *)
(* The argument: "done" is written only where the photo is known to have   *)
(* reached the server, either because the server said so or because the    *)
(* upload was answered; the cleanup frees what it read as done; and a copy *)
(* once made is on the server or was discarded by its owner.               *)
(***************************************************************************)
EXTENDS MobileSync, FiniteSetTheorems, TLAPS

(* A photo that has had a copy on the server.                              *)
Copied == stored \cup deleted

(* The rows are a function on the photos, and everything is of photos taken. *)
Shape ==
  /\ taken \in 0 .. MaxPhotos
  /\ roll \subseteq Taken /\ stored \subseteq Taken /\ deleted \subseteq Taken
  /\ row \in [Photos -> {"none", "pending", "uploading", "done", "failed"}]
  /\ pc \in [Runners -> {"idle", "scan", "known", "item", "upload", "stored", "advance", "error"}]
  /\ DOMAIN todo = Runners /\ DOMAIN doing = Runners

(* What is marked done, about to be marked done, or about to be freed.     *)
DoneCopied == \A p \in Photos : row[p] = "done" => p \in Copied
MarkingCopied == \A r \in Runners : pc[r] \in {"known", "stored", "advance"} => doing[r] \in Copied
CleaningCopied == cleaning \subseteq Copied

SyncInv == Shape /\ DoneCopied /\ MarkingCopied /\ CleaningCopied /\ CleanedAreStored

----------------------------------------------------------------------------
(* It holds in the beginning.                                              *)
LEMMA SyncInitially == Init => SyncInv
<1> USE MobileSyncAssumption
<1> SUFFICES ASSUME Init PROVE SyncInv
  OBVIOUS
<1>1. Shape
  BY DEF Init, Shape, Taken, Photos, Runners
<1>2. DoneCopied /\ MarkingCopied /\ CleaningCopied /\ CleanedAreStored
  BY DEF Init, DoneCopied, MarkingCopied, CleaningCopied, CleanedAreStored, Copied, Taken, Photos, Runners
<1>. QED
  BY <1>1, <1>2 DEF SyncInv
----------------------------------------------------------------------------
(* Every step keeps it.                                                    *)
LEMMA SyncStep == SyncInv /\ [Next]_vars => SyncInv'
<1> USE MobileSyncAssumption
<1> SUFFICES ASSUME SyncInv, [Next]_vars PROVE SyncInv'
  OBVIOUS
<1> USE DEF SyncInv, Shape, DoneCopied, MarkingCopied, CleaningCopied, CleanedAreStored, Copied,
            Taken, Photos, Runners, device, process
<1>1. CASE TakePhoto
  BY <1>1 DEF TakePhoto
<1>2. CASE AskCleanup
  <2>1. roll \subseteq Photos
    OBVIOUS
  <2>2. \A p \in Cleanable : p \in Copied
    BY <2>1 DEF Cleanable
  <2>. QED
    BY <1>2, <2>2 DEF AskCleanup
<1>3. CASE AnswerCleanup
  BY <1>3 DEF AnswerCleanup
<1>4. CASE Kill
  BY <1>4 DEF Kill
<1>5. CASE OpenPreview
  BY <1>5 DEF OpenPreview
<1>6. CASE ClosePreview
  BY <1>6 DEF ClosePreview
<1>7. CASE CutOff
  BY <1>7 DEF CutOff, Fault
<1>8. CASE BackgroundCutOff
  BY <1>8 DEF BackgroundCutOff, Fault
<1>9. CASE BackgroundStart
  BY <1>9 DEF BackgroundStart
<1>10. CASE ScanPhoto
  BY <1>10 DEF ScanPhoto, Enqueued, TurnTo, Through
<1>11. CASE TakeItems
  BY <1>11 DEF TakeItems
<1>12. ASSUME NEW p \in Photos, DeleteOnServer(p) PROVE SyncInv'
  BY <1>12 DEF DeleteOnServer
<1>13. ASSUME NEW selected \in SUBSET preview, Confirm(selected) PROVE SyncInv'
  BY <1>13 DEF Confirm
<1>14. ASSUME NEW r \in Runners, BeginItem(r) PROVE SyncInv'
  <2>1. PICK p :
          /\ \/ p \in stored /\ pc' = [pc EXCEPT ![r] = "known"] /\ row' = Enqueued(p)
             \/ pc' = [pc EXCEPT ![r] = "upload"] /\ row' = [Enqueued(p) EXCEPT ![p] = "uploading"]
          /\ todo' = [todo EXCEPT ![r] = todo[r] \ {p}] /\ doing' = [doing EXCEPT ![r] = p]
          /\ UNCHANGED <<taken, roll, stored, cleaning, deleted>>
    BY <1>14 DEF BeginItem, TurnTo
  <2>2. /\ row' \in [Photos -> {"none", "pending", "uploading", "done", "failed"}]
        /\ \A q \in Photos : row'[q] = "done" => row[q] = "done"
    BY <2>1 DEF Enqueued
  <2>3. \A s \in Runners : pc'[s] \in {"known", "stored", "advance"} => doing'[s] \in Copied
    BY <2>1
  <2>. QED
    BY <2>1, <2>2, <2>3
<1>15. ASSUME NEW r \in Runners, MarkKnown(r) PROVE SyncInv'
  BY <1>15 DEF MarkKnown, Through
<1>16. ASSUME NEW r \in Runners, Upload(r) PROVE SyncInv'
  BY <1>16, ZenonT(60) DEF Upload, Fault
<1>17. ASSUME NEW r \in Runners, MarkStored(r) PROVE SyncInv'
  BY <1>17, ZenonT(60) DEF MarkStored, Fault
<1>18. ASSUME NEW r \in Runners, AdvanceCursor(r) PROVE SyncInv'
  BY <1>18 DEF AdvanceCursor, Through
<1>19. ASSUME NEW r \in Runners, ItemFails(r) PROVE SyncInv'
  BY <1>19 DEF ItemFails, Through
<1>20. ASSUME NEW r \in Runners, PassEnds(r) PROVE SyncInv'
  BY <1>20 DEF PassEnds
<1>21. CASE UNCHANGED vars
  BY <1>21 DEF vars
<1>. QED
  BY <1>1, <1>2, <1>3, <1>4, <1>5, <1>6, <1>7, <1>8, <1>9, <1>10, <1>11, <1>12, <1>13, <1>14, <1>15, <1>16, <1>17, <1>18, <1>19, <1>20, <1>21 DEF Next, BackgroundStep, RunnerStep

(* The inductive invariant holds in every reachable state.                 *)
THEOREM SyncInvariance == Spec => []SyncInv
<1>. QED
  BY SyncInitially, SyncStep, PTL DEF Spec

(* A photo that has left the device is on the server, or its owner deleted *)
(* it there, whatever two passes, retries and kills did to its row.        *)
THEOREM PhotosNeverLost == Spec => []CleanedAreStored
<1>1. SyncInv => CleanedAreStored
  BY DEF SyncInv
<1>. QED
  BY <1>1, SyncInvariance, PTL

----------------------------------------------------------------------------
(* The refinement.                                                         *)

(* A step of the device or the server that is not one of the promise's     *)
(* leaves what the promise speaks of alone.                                *)
LEMMA PromiseStep ==
  SyncInv /\ [Next]_vars => [Promise!BackupNext]_<<roll, stored, deleted>>
<1> USE MobileSyncAssumption
<1> SUFFICES ASSUME SyncInv, [Next]_vars
             PROVE  Promise!BackupNext \/ UNCHANGED <<roll, stored, deleted>>
  OBVIOUS
<1> USE DEF Promise!BackupNext, device, process
<1>1. CASE TakePhoto
  <2>1. taken + 1 \in Photos /\ taken + 1 \notin roll \cup stored \cup deleted
    BY <1>1 DEF TakePhoto, SyncInv, Shape, Photos, Taken
  <2>2. Promise!Take(taken + 1)
    BY <1>1, <2>1 DEF TakePhoto, Promise!Take
  <2>. QED
    BY <2>1, <2>2
<1>2. CASE AnswerCleanup
  <2>1. cleaning \subseteq stored \cup deleted
    BY DEF SyncInv, CleaningCopied, Copied
  <2>2. cleaning \in SUBSET Photos
    BY <2>1 DEF SyncInv, Shape, Taken, Photos
  <2>3. CASE roll' = roll \ cleaning
    BY <1>2, <2>1, <2>2, <2>3 DEF AnswerCleanup, Promise!Free
  <2>4. CASE UNCHANGED roll
    BY <1>2, <2>4 DEF AnswerCleanup
  <2>. QED
    BY <1>2, <2>3, <2>4 DEF AnswerCleanup
<1>3. ASSUME NEW p \in Photos, DeleteOnServer(p) PROVE Promise!BackupNext
  BY <1>3 DEF DeleteOnServer, Promise!Discard
<1>4. ASSUME NEW r \in Runners, Upload(r)
      PROVE  Promise!BackupNext \/ UNCHANGED <<roll, stored, deleted>>
  <2> DEFINE p == doing[r]
  <2>1. CASE p \in roll /\ stored' = stored \cup {p}
    <3>1. p \in roll /\ roll \subseteq Photos
      BY <2>1 DEF SyncInv, Shape, Taken, Photos
    <3>2. Promise!Store(p)
      BY <1>4, <2>1 DEF Upload, Promise!Store
    <3>. QED
      BY <3>1, <3>2
  <2>2. CASE UNCHANGED stored
    BY <1>4, <2>2 DEF Upload
  <2>. QED
    BY <1>4, <2>1, <2>2 DEF Upload
<1>5. CASE \/ AskCleanup \/ Kill \/ OpenPreview \/ ClosePreview \/ CutOff \/ BackgroundCutOff
           \/ ScanPhoto \/ TakeItems
  BY <1>5 DEF AskCleanup, Kill, OpenPreview, ClosePreview, CutOff, BackgroundCutOff,
              ScanPhoto, TakeItems
<1>8. CASE BackgroundStart \/ \E selected \in SUBSET preview : Confirm(selected)
  BY <1>8 DEF BackgroundStart, Confirm
<1>6. ASSUME NEW r \in Runners,
             \/ BeginItem(r) \/ MarkKnown(r) \/ MarkStored(r) \/ AdvanceCursor(r)
             \/ ItemFails(r) \/ PassEnds(r)
      PROVE  UNCHANGED <<roll, stored, deleted>>
  BY <1>6 DEF BeginItem, MarkKnown, MarkStored, AdvanceCursor, ItemFails, PassEnds
<1>7. CASE UNCHANGED vars
  BY <1>7 DEF vars
<1>. QED
  BY <1>1, <1>2, <1>3, <1>4, <1>5, <1>6, <1>7, <1>8 DEF Next, BackgroundStep, RunnerStep, Runners

(* The queue, the cursor and the two passes implement PhotoBackup.         *)
THEOREM PromiseKept == Spec => ImplementsPhotoBackup
<1>1. Init => Promise!BackupInit
  BY DEF Init, Promise!BackupInit
<1>. QED
  BY <1>1, SyncInvariance, PromiseStep, PTL DEF Spec, ImplementsPhotoBackup, Promise!BackupSpec

----------------------------------------------------------------------------
(* Nothing is forgotten.                                                   *)

(* What has to be remembered.                                              *)
Outstanding == roll \ (Copied \cup excused)

(* Between two passes a runner holds nothing, between two photos it is at  *)
(* none.                                                                   *)
HandsEmpty ==
  \A r \in Runners : /\ pc[r] \in {"idle", "scan", "item"} => doing[r] = 0
                     /\ pc[r] = "idle" => todo[r] = {}

(* A row says "uploading" as long as a runner is at its photo.             *)
Working == {"upload", "stored", "advance", "error"}
UploadingHeld ==
  \A p \in Photos : row[p] = "uploading" =>
    p \in Copied \cup excused \/ \E r \in Runners : pc[r] \in Working /\ doing[r] = p

(* Photos without a row are in front of the cursor, or among those the     *)
(* user selected.  Where a runner may come to move the cursor, the former  *)
(* are gone: the foreground had the user choose among them, the background *)
(* enters what it has listed before it uploads anything.                   *)
Entered(p) == row[p] # "none" \/ p \in Held("fg")
ReachedInv ==
  /\ cursor \in Nat /\ cursor <= taken
  /\ \A p \in Outstanding :
       /\ p > cursor \/ Entered(p)
       /\ Running("fg") => Entered(p)
       /\ pc["bg"] \in {"item"} \cup Working => Entered(p)
       /\ pc["bg"] \in {"scan", "known"} => Entered(p) \/ p \in Held("bg")

RememberInv == SyncInv /\ HandsEmpty /\ UploadingHeld /\ ReachedInv

(* Nothing is forgotten by a step that lets no row, cursor and photo in a  *)
(* runner's hands go.                                                      *)
LEMMA QuietKeeps ==
  ASSUME RememberInv, SyncInv', roll' \subseteq roll, Copied \subseteq Copied', excused \subseteq excused',
         UNCHANGED <<taken, cursor, row, pc, todo, doing>>
  PROVE  RememberInv'
<1>1. HandsEmpty'
  BY DEF RememberInv, HandsEmpty
<1>2. UploadingHeld'
  BY DEF RememberInv, UploadingHeld
<1>3. ReachedInv'
  <2>1. Outstanding' \subseteq Outstanding
    BY DEF Outstanding
  <2>2. \A p, r : /\ Entered(p)' <=> Entered(p)
                  /\ p \in Held(r)' <=> p \in Held(r)
    BY DEF Entered, Held
  <2>3. Running("fg")' <=> Running("fg")
    BY DEF Running
  <2>. QED
    BY <2>1, <2>2, <2>3 DEF RememberInv, ReachedInv
<1>. QED
  BY <1>1, <1>2, <1>3 DEF RememberInv

(* A runner at a photo: ...                                                *)
LEMMA RunnerKeeps ==
  ASSUME RememberInv, SyncInv', NEW r \in Runners,
         \/ BeginItem(r) \/ MarkKnown(r) \/ Upload(r) \/ MarkStored(r) \/ AdvanceCursor(r)
         \/ ItemFails(r) \/ PassEnds(r)
  PROVE  RememberInv'
<1> USE DEF RememberInv, SyncInv, Shape, HandsEmpty, Runners
<1>0. /\ roll \subseteq Photos /\ 0 \notin Photos /\ roll \subseteq Taken /\ Taken \subseteq Nat
      /\ pc[r] \in {"idle", "scan", "known", "item", "upload", "stored", "advance", "error"}
      /\ pc["bg"] \in {"idle", "scan", "known", "item", "upload", "stored", "advance", "error"}
  BY MobileSyncAssumption DEF Taken, Photos
<1>1. CASE BeginItem(r)
  <2>1. PICK p :
          /\ pc[r] = "item" /\ p \in todo[r]
          /\ todo' = [todo EXCEPT ![r] = todo[r] \ {p}] /\ doing' = [doing EXCEPT ![r] = p]
          /\ \/ r = "fg" /\ p \in stored /\ pc' = [pc EXCEPT ![r] = "known"] /\ row' = Enqueued(p)
             \/ pc' = [pc EXCEPT ![r] = "upload"] /\ row' = [Enqueued(p) EXCEPT ![p] = "uploading"]
          /\ UNCHANGED <<taken, roll, cursor, stored, deleted, excused>>
    BY <1>1 DEF BeginItem, TurnTo, NextUp, Oldest, Latest
  <2>2. /\ \A q \in Photos : row[q] # "none" => row'[q] # "none"
        /\ \A q \in Photos : row'[q] = "uploading" => row[q] = "uploading" \/ (q = p /\ pc'[r] = "upload")
    BY <2>1 DEF Enqueued
  <2>3. \A s \in Runners : Held(s) \subseteq Held(s)'
    BY <2>1 DEF Held
  <2>4. HandsEmpty'
    BY <2>1
  <2>5. UploadingHeld'
    BY <2>1, <2>2 DEF UploadingHeld, Working, Copied
  <2>6. \A q \in Outstanding' : q \in Outstanding /\ q \in Photos /\ (Entered(q) => Entered(q)')
    BY <1>0, <2>1, <2>2, <2>3 DEF Outstanding, Entered, Copied
  <2>7. ReachedInv'
    BY <2>1, <2>3, <2>6 DEF ReachedInv, Running, Working
  <2>. QED
    BY <2>4, <2>5, <2>7
<1>2. CASE MarkKnown(r) \/ AdvanceCursor(r) \/ ItemFails(r)
  <2>1. /\ pc[r] \in {"known", "advance", "error"}
        /\ pc' = [pc EXCEPT ![r] = IF r = "bg" /\ pc[r] = "known" THEN "scan" ELSE "item"]
        /\ doing' = [doing EXCEPT ![r] = 0]
        /\ UNCHANGED <<taken, roll, stored, todo, deleted, excused>>
    BY <1>2 DEF MarkKnown, AdvanceCursor, ItemFails, Through
  <2>2. /\ \A q \in Photos : row[q] # "none" => row'[q] # "none"
        /\ \A q \in Photos : row'[q] = "uploading" => row[q] = "uploading"
        /\ pc[r] = "error" /\ doing[r] \in Photos => row'[doing[r]] = "failed"
        /\ pc[r] # "error" => doing[r] \in Copied
    <3>1. CASE MarkKnown(r)
      BY <3>1 DEF MarkKnown, MarkingCopied
    <3>2. CASE AdvanceCursor(r)
      BY <3>2 DEF AdvanceCursor, MarkingCopied
    <3>3. CASE ItemFails(r)
      BY <3>3 DEF ItemFails
    <3>. QED
      BY <1>2, <3>1, <3>2, <3>3
  <2>3. \A s \in Runners : Held(s) \subseteq Held(s)' \cup {doing[r]}
    BY <2>1 DEF Held
  <2>4. HandsEmpty'
    BY <2>1
  <2>5. UploadingHeld'
    <3> SUFFICES ASSUME NEW q \in Photos, row'[q] = "uploading", q \notin Copied \cup excused
                 PROVE  \E s \in Runners : pc'[s] \in Working /\ doing'[s] = q
      BY <2>1 DEF UploadingHeld, Copied
    <3>1. PICK s \in Runners : pc[s] \in Working /\ doing[s] = q
      BY <2>2 DEF UploadingHeld
    <3>2. s # r
      BY <2>1, <2>2, <3>1
    <3>. QED
      BY <2>1, <3>1, <3>2
  <2>6. \A q \in Outstanding' : q \in Outstanding /\ q \in Photos /\ (Entered(q) => Entered(q)')
    BY <1>0, <2>1, <2>2, <2>3 DEF Outstanding, Entered, Copied
  <2>7. \A q \in Outstanding : q \in Held("bg") /\ pc[r] = "known" => q \in Held("bg")'
    BY <2>2, <2>3 DEF Outstanding
  <2>8. ReachedInv'
    <3>1. CASE AdvanceCursor(r)
      <4>1. cursor' = taken /\ taken \in Nat /\ pc[r] = "advance"
        BY <3>1, MobileSyncAssumption DEF AdvanceCursor
      <4>2. \A q \in Outstanding : Entered(q)
        BY <4>1 DEF ReachedInv, Running, Working
      <4>. QED
        BY <2>1, <2>6, <4>1, <4>2 DEF ReachedInv
    <3>2. CASE ~AdvanceCursor(r)
      <4>1. UNCHANGED cursor
        BY <1>2, <3>2 DEF MarkKnown, ItemFails
      <4>2. Running("fg")' => Running("fg")
        BY <2>1 DEF Running
      <4>3. \A q \in Outstanding' : pc'["bg"] \in {"scan", "known"} => Entered(q)' \/ q \in Held("bg")'
        <5> SUFFICES ASSUME NEW q \in Outstanding', pc'["bg"] \in {"scan", "known"}, ~Entered(q)'
                     PROVE  q \in Held("bg")'
          OBVIOUS
        <5>1. pc["bg"] \in {"scan", "known"}
          BY <2>1
        <5>2. q \in Held("bg") /\ q \in Outstanding /\ q \in Photos
          BY <2>6, <5>1 DEF ReachedInv
        <5>3. q # doing[r] \/ r = "fg"
          BY <2>2, <5>1, <5>2 DEF Outstanding, Working
        <5>. QED
          BY <2>1, <5>2, <5>3 DEF Held
      <4>. QED
        BY <1>0, <2>1, <2>6, <4>1, <4>2, <4>3 DEF ReachedInv, Working
    <3>. QED
      BY <3>1, <3>2
  <2>. QED
    BY <2>4, <2>5, <2>8
<1>3. CASE Upload(r) \/ MarkStored(r)
  <2>1. /\ pc[r] \in {"upload", "stored"} /\ \E st \in {"stored", "error", "advance"} : pc' = [pc EXCEPT ![r] = st]
        /\ Copied \subseteq Copied'
        /\ UNCHANGED <<taken, roll, cursor, todo, doing, excused>>
    BY <1>3 DEF Upload, MarkStored, device, Copied
  <2>2. /\ \A q \in Photos : row[q] # "none" => row'[q] # "none"
        /\ \A q \in Photos : row'[q] = "uploading" => row[q] = "uploading"
    BY <1>3 DEF Upload, MarkStored, device
  <2>3. \A s \in Runners : Held(s)' = Held(s)
    BY <2>1 DEF Held
  <2>4. HandsEmpty'
    BY <2>1
  <2>5. UploadingHeld'
    <3>1. \A s \in Runners : pc[s] \in Working => pc'[s] \in Working
      BY <2>1 DEF Working
    <3>. QED
      BY <2>1, <2>2, <3>1 DEF UploadingHeld
  <2>6. \A q \in Outstanding' : q \in Outstanding /\ q \in Photos /\ (Entered(q) => Entered(q)')
    BY <1>0, <2>1, <2>2, <2>3 DEF Outstanding, Entered
  <2>7. ReachedInv'
    BY <2>1, <2>3, <2>6 DEF ReachedInv, Running, Working
  <2>. QED
    BY <2>4, <2>5, <2>7
<1>4. CASE PassEnds(r)
  <2>1. /\ pc[r] = "item" /\ todo[r] = {} /\ pc' = [pc EXCEPT ![r] = "idle"]
        /\ UNCHANGED <<taken, roll, cursor, row, stored, todo, doing, deleted, excused>>
    BY <1>4 DEF PassEnds, device
  <2>2. HandsEmpty'
    BY <2>1
  <2>3. UploadingHeld'
    BY <2>1 DEF UploadingHeld, Working, Copied
  <2>4. /\ Outstanding' = Outstanding
        /\ \A q, s : (Entered(q)' <=> Entered(q)) /\ (q \in Held(s)' <=> q \in Held(s))
    BY <2>1 DEF Outstanding, Entered, Held, Copied
  <2>5. ReachedInv'
    BY <2>1, <2>4 DEF ReachedInv, Running, Working
  <2>. QED
    BY <2>2, <2>3, <2>5
<1>. QED
  BY <1>1, <1>2, <1>3, <1>4

(* what begins or breaks off a pass, ...                                   *)
LEMMA ForegroundKeeps ==
  ASSUME RememberInv, SyncInv',
         CutOff \/ \E selected \in SUBSET preview : Confirm(selected)
  PROVE  RememberInv'
<1> USE DEF RememberInv, SyncInv, Shape, HandsEmpty, Runners
<1>0. /\ roll \subseteq Photos /\ 0 \notin Photos
      /\ pc["fg"] \in {"idle", "scan", "known", "item", "upload", "stored", "advance", "error"}
  BY MobileSyncAssumption DEF Taken, Photos
<1>1. CASE CutOff
  <2>1. /\ pc["fg"] = "item" /\ pc' = [pc EXCEPT !["fg"] = "idle"] /\ todo' = [todo EXCEPT !["fg"] = {}]
        /\ excused' = excused \cup Held("fg")
        /\ UNCHANGED <<taken, roll, cursor, row, stored, doing, deleted>>
    BY <1>1 DEF CutOff, device
  <2>2. HandsEmpty'
    BY <2>1
  <2>3. UploadingHeld'
    BY <2>1 DEF UploadingHeld, Working, Copied
  <2>4. \A q \in Outstanding' : q \in Outstanding /\ (Entered(q) => Entered(q)')
    BY <2>1 DEF Outstanding, Entered, Copied
  <2>5. ReachedInv'
    BY <2>1, <2>4 DEF ReachedInv, Running, Held
  <2>. QED
    BY <2>2, <2>3, <2>5
<1>2. ASSUME NEW selected \in SUBSET preview, Confirm(selected) PROVE RememberInv'
  <2>1. /\ pc["fg"] = "idle" /\ pc' = [pc EXCEPT !["fg"] = "item"]
        /\ todo' = [todo EXCEPT !["fg"] = selected]
        /\ excused' = excused \cup {p \in Seen : p \notin selected /\ row[p] = "none"}
        /\ UNCHANGED <<taken, roll, cursor, row, stored, doing, deleted>>
    BY <1>2 DEF Confirm, device, Running
  <2>2. HandsEmpty'
    BY <2>1
  <2>3. UploadingHeld'
    BY <2>1 DEF UploadingHeld, Working, Copied
  <2>4. Held("fg") = {} /\ Held("fg")' = selected \ {0} /\ Held("bg")' = Held("bg")
    BY <2>1 DEF Held
  <2>5. \A q \in Outstanding' : q \in Outstanding /\ q \in roll /\ q \in Photos
    BY <1>0, <2>1 DEF Outstanding, Copied
  <2>6. \A q \in Outstanding' : Entered(q)'
    <3> SUFFICES ASSUME NEW q \in Outstanding' PROVE row[q] # "none" \/ q \in selected
      BY <1>0, <2>1, <2>4, <2>5 DEF Entered
    <3>1. q > cursor \/ row[q] # "none"
      BY <2>4, <2>5 DEF ReachedInv, Entered
    <3>2. q \in roll /\ q \notin excused'
      BY <2>5 DEF Outstanding
    <3>. QED
      BY <2>1, <3>1, <3>2 DEF Seen
  <2>7. ReachedInv'
    BY <2>1, <2>6 DEF ReachedInv
  <2>. QED
    BY <2>2, <2>3, <2>7
<1>. QED
  BY <1>1, <1>2

LEMMA BackgroundKeeps ==
  ASSUME RememberInv, SyncInv',
         \/ BackgroundStart \/ ScanPhoto \/ TakeItems \/ BackgroundCutOff
  PROVE  RememberInv'
<1> USE DEF RememberInv, SyncInv, Shape, HandsEmpty, Runners
<1>0. /\ roll \subseteq Photos /\ 0 \notin Photos
      /\ pc["fg"] \in {"idle", "scan", "known", "item", "upload", "stored", "advance", "error"}
  BY MobileSyncAssumption DEF Taken, Photos
<1>1. CASE BackgroundStart
  <2>1. /\ pc["bg"] = "idle" /\ pc' = [pc EXCEPT !["bg"] = "scan"] /\ todo' = [todo EXCEPT !["bg"] = Seen]
        /\ UNCHANGED <<taken, roll, cursor, row, stored, doing, deleted, excused>>
    BY <1>1 DEF BackgroundStart, device, Running
  <2>2. HandsEmpty'
    BY <2>1
  <2>3. UploadingHeld'
    BY <2>1 DEF UploadingHeld, Working, Copied
  <2>4. Outstanding' = Outstanding /\ \A q : Entered(q)' <=> Entered(q)
    BY <2>1 DEF Outstanding, Entered, Held, Copied
  <2>5. \A q \in Outstanding : q \in roll /\ (q > cursor => q \in Held("bg")')
    BY <1>0, <2>1 DEF Outstanding, Held, Seen
  <2>6. ReachedInv'
    BY <2>1, <2>4, <2>5 DEF ReachedInv, Running, Working
  <2>. QED
    BY <2>2, <2>3, <2>6
<1>2. CASE ScanPhoto
  <2>1. PICK p \in todo["bg"] :
          /\ pc["bg"] = "scan"
          /\ \/ row[p] = "done" /\ UNCHANGED row
             \/ row[p] # "done" /\ row' = Enqueued(p)
          /\ \/ todo' = [todo EXCEPT !["bg"] = todo["bg"] \ {p}] /\ UNCHANGED <<pc, doing>>
             \/ /\ todo' = [todo EXCEPT !["bg"] = todo["bg"] \ {p}]
                /\ doing' = [doing EXCEPT !["bg"] = p] /\ pc' = [pc EXCEPT !["bg"] = "known"]
          /\ UNCHANGED <<taken, roll, cursor, stored, deleted, excused>>
    BY <1>2 DEF ScanPhoto, TurnTo, NextUp, Oldest, Latest
  <2>2. /\ \A q \in Photos : row[q] # "none" => row'[q] # "none"
        /\ \A q \in Photos : row'[q] = "uploading" => row[q] = "uploading"
        /\ p \in Photos => row'[p] # "none"
    BY <2>1 DEF Enqueued
  <2>3. HandsEmpty'
    BY <2>1
  <2>4. UploadingHeld'
    BY <2>1, <2>2 DEF UploadingHeld, Working, Copied
  <2>5. \A q \in Outstanding' : q \in Outstanding /\ q \in Photos /\ (Entered(q) => Entered(q)')
    BY <1>0, <2>1, <2>2 DEF Outstanding, Entered, Copied, Held
  <2>6. \A q \in Photos : q \in Held("bg") => q = p \/ q \in Held("bg")'
    BY <2>1 DEF Held
  <2>7. ReachedInv'
    BY <2>1, <2>2, <2>5, <2>6 DEF ReachedInv, Running, Working, Entered
  <2>. QED
    BY <2>3, <2>4, <2>7
<1>3. CASE TakeItems
  <2>1. /\ pc["bg"] = "scan" /\ todo["bg"] = {} /\ pc' = [pc EXCEPT !["bg"] = "item"]
        /\ \E S : todo' = [todo EXCEPT !["bg"] = S]
        /\ UNCHANGED <<taken, roll, cursor, row, stored, doing, deleted, excused>>
    BY <1>3 DEF TakeItems, device
  <2>2. HandsEmpty'
    BY <2>1
  <2>3. UploadingHeld'
    BY <2>1 DEF UploadingHeld, Working, Copied
  <2>4. Outstanding' = Outstanding /\ (\A q : Entered(q)' <=> Entered(q)) /\ Held("bg") = {}
    BY <2>1 DEF Outstanding, Entered, Held, Copied
  <2>5. ReachedInv'
    BY <2>1, <2>4 DEF ReachedInv, Running
  <2>. QED
    BY <2>2, <2>3, <2>5
<1>4. CASE BackgroundCutOff
  <2>1. /\ pc["bg"] \in {"scan", "item"} /\ pc' = [pc EXCEPT !["bg"] = "idle"]
        /\ todo' = [todo EXCEPT !["bg"] = {}]
        /\ UNCHANGED <<taken, roll, cursor, row, stored, doing, deleted, excused>>
    BY <1>4 DEF BackgroundCutOff, device
  <2>2. HandsEmpty'
    BY <2>1
  <2>3. UploadingHeld'
    BY <2>1 DEF UploadingHeld, Working, Copied
  <2>4. Outstanding' = Outstanding /\ \A q : Entered(q)' <=> Entered(q)
    BY <2>1 DEF Outstanding, Entered, Held, Copied
  <2>5. ReachedInv'
    BY <2>1, <2>4 DEF ReachedInv, Running, Working
  <2>. QED
    BY <2>2, <2>3, <2>5
<1>. QED
  BY <1>1, <1>2, <1>3, <1>4

(* and what the user, the camera and the operating system do.              *)
LEMMA RememberStep == RememberInv /\ [Next]_vars => RememberInv'
<1> SUFFICES ASSUME RememberInv, [Next]_vars PROVE RememberInv'
  OBVIOUS
<1>0. SyncInv'
  BY SyncStep DEF RememberInv
<1>1. CASE TakePhoto
  <2>1. /\ taken' = taken + 1 /\ roll' = roll \cup {taken + 1} /\ excused \subseteq excused'
        /\ (\E r \in Runners : Running(r)) => taken + 1 \in excused'
        /\ UNCHANGED <<cursor, row, stored, pc, todo, doing, deleted>>
    BY <1>1 DEF TakePhoto, process
  <2>2. HandsEmpty' /\ UploadingHeld'
    BY <2>1 DEF RememberInv, HandsEmpty, UploadingHeld, Copied
  <2>3. \A q \in Outstanding' : q \in Outstanding \/ q = taken + 1
    BY <2>1 DEF Outstanding, Copied
  <2>4. \A q : (Entered(q)' <=> Entered(q)) /\ (q \in Held("bg")' <=> q \in Held("bg"))
    BY <2>1 DEF Entered, Held
  <2>5. taken \in Nat /\ cursor \in Nat /\ cursor <= taken
    BY MobileSyncAssumption DEF RememberInv, SyncInv, Shape, ReachedInv
  <2>6. taken + 1 \in Outstanding' => ~Running("fg") /\ pc["bg"] = "idle"
    BY <2>1 DEF Outstanding, Runners, Running
  <2>7. ReachedInv'
    <3> SUFFICES ASSUME NEW q \in Outstanding'
                 PROVE  /\ q > cursor \/ Entered(q)
                        /\ Running("fg") => Entered(q)
                        /\ pc["bg"] \in {"item"} \cup Working => Entered(q)
                        /\ pc["bg"] \in {"scan", "known"} => Entered(q) \/ q \in Held("bg")
      BY <2>1, <2>4, <2>5 DEF ReachedInv, Running
    <3>1. CASE q \in Outstanding
      BY <3>1 DEF RememberInv, ReachedInv
    <3>2. CASE q = taken + 1
      BY <2>5, <2>6, <3>2 DEF Working
    <3>. QED
      BY <2>3, <3>1, <3>2
  <2>. QED
    BY <1>0, <2>2, <2>7 DEF RememberInv
<1>2. CASE Kill
  <2>1. /\ pc' = [r \in Runners |-> "idle"] /\ todo' = [r \in Runners |-> {}] /\ doing' = [r \in Runners |-> 0]
        /\ excused' = excused \cup Held("fg") \cup Held("bg")
        /\ UNCHANGED <<taken, roll, cursor, row, stored, deleted>>
    BY <1>2 DEF Kill, device
  <2>2. HandsEmpty'
    BY <2>1 DEF HandsEmpty
  <2>3. UploadingHeld'
    <3>1. 0 \notin Photos
      BY MobileSyncAssumption DEF Photos
    <3>. QED
      BY <2>1, <3>1 DEF RememberInv, UploadingHeld, Held, Runners, Copied
  <2>4. \A q \in Outstanding' : q \in Outstanding /\ (Entered(q) => row[q] # "none")
    BY <2>1 DEF Outstanding, Entered, Copied
  <2>5. ReachedInv'
    BY <2>1, <2>4 DEF RememberInv, ReachedInv, Running, Runners, Entered, Working
  <2>. QED
    BY <1>0, <2>2, <2>3, <2>5 DEF RememberInv
<1>3. CASE \/ AskCleanup \/ AnswerCleanup \/ OpenPreview \/ ClosePreview
           \/ \E p \in Photos : DeleteOnServer(p)
  <2>1. /\ roll' \subseteq roll /\ Copied \subseteq Copied' /\ excused \subseteq excused'
        /\ UNCHANGED <<taken, cursor, row, pc, todo, doing>>
    BY <1>3 DEF AskCleanup, AnswerCleanup, OpenPreview, ClosePreview, DeleteOnServer, Copied, device, process
  <2>. QED
    BY <1>0, <2>1, QuietKeeps
<1>4. CASE CutOff \/ \E selected \in SUBSET preview : Confirm(selected)
  BY <1>0, <1>4, ForegroundKeeps
<1>5. CASE BackgroundStart \/ ScanPhoto \/ TakeItems \/ BackgroundCutOff
  BY <1>0, <1>5, BackgroundKeeps
<1>6. CASE \E r \in Runners : RunnerStep(r)
  BY <1>0, <1>6, RunnerKeeps DEF RunnerStep
<1>7. CASE UNCHANGED vars
  BY <1>0, <1>7, QuietKeeps DEF vars, device, process, Copied
<1>. QED
  BY <1>1, <1>2, <1>3, <1>4, <1>5, <1>6, <1>7 DEF Next, BackgroundStep, Runners

LEMMA RememberInitially == Init => RememberInv
<1> SUFFICES ASSUME Init PROVE RememberInv
  OBVIOUS
<1>1. SyncInv
  BY SyncInitially
<1>2. HandsEmpty /\ UploadingHeld /\ ReachedInv
  BY DEF Init, HandsEmpty, UploadingHeld, ReachedInv, Outstanding, Runners
<1>. QED
  BY <1>1, <1>2 DEF RememberInv

(* A photo that is neither on the server nor deleted there by its owner    *)
(* stays in reach of a later pass, however two passes share the queue and  *)
(* the cursor: unless it was taken during a pass, left out of a selection, *)
(* or dropped with the network or the process.                             *)
THEOREM PhotosStayRemembered == Spec => []StillRemembered
<1>1. RememberInv => StillRemembered
  <2> SUFFICES ASSUME RememberInv, NEW p \in roll \ (stored \cup deleted \cup excused)
               PROVE  \/ p > cursor
                      \/ row[p] \in {"pending", "failed"}
                      \/ \E r \in Runners : p \in Held(r)
    BY DEF StillRemembered
  <2>1. p \in Photos /\ p # 0 /\ p \in Outstanding
    BY MobileSyncAssumption DEF RememberInv, SyncInv, Shape, Taken, Photos, Outstanding, Copied
  <2>2. p > cursor \/ row[p] # "none" \/ p \in Held("fg")
    BY <2>1 DEF RememberInv, ReachedInv, Entered
  <2>3. row[p] \in {"none", "pending", "uploading", "done", "failed"} /\ row[p] # "done"
    BY <2>1 DEF RememberInv, SyncInv, Shape, DoneCopied, Outstanding
  <2>4. row[p] = "uploading" => \E r \in Runners : doing[r] = p
    BY <2>1 DEF RememberInv, UploadingHeld, Outstanding
  <2>. QED
    BY <2>1, <2>2, <2>3, <2>4 DEF Held, Runners
<1>2. Spec => []RememberInv
  BY RememberInitially, RememberStep, PTL DEF Spec
<1>. QED
  BY <1>1, <1>2, PTL

----------------------------------------------------------------------------
(* Types.                                                                  *)
(* A new row's rank is within bounds.                                      *)
LEMMA RankFits ==
  ASSUME MaxPhotos \in Nat, NEW p \in Photos, row[p] = "none"
  PROVE  Cardinality(Rows) + 1 \in 1 .. MaxPhotos
<1>1. IsFiniteSet(Photos) /\ Cardinality(Photos) = MaxPhotos
  BY FS_Interval DEF Photos
<1>2. IsFiniteSet(Rows) /\ Cardinality(Rows) \in Nat
  BY <1>1, FS_Subset, FS_CardinalityType DEF Rows
<1>3. Cardinality(Rows \cup {p}) = Cardinality(Rows) + 1 /\ Rows \cup {p} \subseteq Photos
  BY <1>2, FS_AddElement DEF Rows
<1>4. Cardinality(Rows \cup {p}) <= MaxPhotos
  BY <1>1, <1>3, FS_Subset
<1>. QED
  BY <1>2, <1>3, <1>4

(* The rows: entered with a rank, and never taken out.                     *)
RowsOK ==
  /\ row \in [Photos -> {"none", "pending", "uploading", "done", "failed"}]
  /\ since \in [Photos -> 0 .. MaxPhotos] /\ \A p \in Photos : since[p] = 0 <=> row[p] = "none"
  /\ \A p \in Photos : row[p] # "none" => p \in Taken

LEMMA EnqueuedTypes ==
  ASSUME MaxPhotos \in Nat, RowsOK, NEW p \in Photos, p \in Taken, since' = Ordered(p), taken' = taken,
         row' = Enqueued(p) \/ row' = [Enqueued(p) EXCEPT ![p] = "uploading"]
  PROVE  RowsOK' /\ row'[p] # "none" /\ \A q \in Photos : row[q] # "none" => row'[q] # "none"
<1>1. row[p] = "none" => Cardinality(Rows) + 1 \in 1 .. MaxPhotos
  BY RankFits
<1>2. PICK n : n = Cardinality(Rows) + 1
  OBVIOUS
<1>3. since' = IF row[p] = "none" THEN [since EXCEPT ![p] = n] ELSE since
  BY <1>2 DEF Ordered
<1>4. row[p] = "none" => n \in 1 .. MaxPhotos
  BY <1>1, <1>2
<1>. QED
  BY <1>3, <1>4 DEF RowsOK, Enqueued, Taken

(* What a runner holds has been taken; between two photos it is at none.   *)
HandsOK ==
  /\ pc \in [Runners -> {"idle", "scan", "known", "item", "upload", "stored", "advance", "error"}]
  /\ DOMAIN todo = Runners /\ DOMAIN doing = Runners
  /\ \A r \in Runners : /\ todo[r] \subseteq Taken /\ doing[r] \in {0} \cup Taken
                        /\ doing[r] = 0 <=> pc[r] \in {"idle", "scan", "item"}
                        /\ doing[r] # 0 => row[doing[r]] # "none"

TypesInv ==
  /\ taken \in 0 .. MaxPhotos /\ roll \subseteq Taken /\ cursor \in 0 .. taken
  /\ RowsOK /\ HandsOK
  /\ stored \subseteq Taken /\ deleted \subseteq Taken /\ excused \subseteq Taken
  /\ preview \subseteq Taken /\ cleaning \subseteq Taken

LEMMA RunnerTypes ==
  ASSUME TypesInv, NEW r \in Runners, RunnerStep(r)
  PROVE  TypesInv'
<1> USE MobileSyncAssumption
<1>1. CASE BeginItem(r)
  <2>1. PICK p \in NextUp(r) : TurnTo(r, p) /\ since' = Ordered(p)
           /\ (row' = Enqueued(p) \/ row' = [Enqueued(p) EXCEPT ![p] = "uploading"])
           /\ pc' \in {[pc EXCEPT ![r] = "known"], [pc EXCEPT ![r] = "upload"]}
    BY <1>1 DEF BeginItem
  <2>2. p \in todo[r] /\ p \in Taken /\ p \in Photos /\ p # 0
    BY <2>1 DEF NextUp, Oldest, Latest, TypesInv, HandsOK, Taken, Photos
  <2>3. UNCHANGED <<taken, roll, cursor, stored, preview, cleaning, deleted, excused>>
    BY <1>1 DEF BeginItem
  <2>4. RowsOK' /\ row'[p] # "none" /\ \A q \in Photos : row[q] # "none" => row'[q] # "none"
    BY <2>1, <2>2, <2>3, EnqueuedTypes DEF TypesInv
  <2>5. HandsOK'
    <3>1. Taken \subseteq Photos
      BY DEF TypesInv, Taken, Photos
    <3>. QED
      BY <2>1, <2>2, <2>3, <2>4, <3>1 DEF TypesInv, HandsOK, TurnTo, Taken
  <2>. QED
    BY <2>3, <2>4, <2>5 DEF TypesInv, Taken
<1>2. CASE MarkKnown(r) \/ MarkStored(r) \/ ItemFails(r)
  <2>1. doing[r] \in Photos /\ row[doing[r]] # "none"
    BY <1>2 DEF MarkKnown, MarkStored, ItemFails, TypesInv, HandsOK, Taken, Photos
  <2>2. RowsOK'
    BY <1>2, <2>1 DEF MarkKnown, MarkStored, ItemFails, TypesInv, RowsOK, Taken
  <2>3. HandsOK'
    <3>1. \A q \in Photos : row[q] # "none" => row'[q] # "none"
      BY <1>2 DEF MarkKnown, MarkStored, ItemFails, TypesInv, RowsOK
    <3>2. Taken \subseteq Photos
      BY DEF TypesInv, Taken, Photos
    <3>. QED
      BY <1>2, <3>1, <3>2 DEF MarkKnown, MarkStored, ItemFails, TypesInv, HandsOK, Through, Taken
  <2>4. UNCHANGED <<taken, roll, cursor, stored, preview, cleaning, deleted, excused>>
    BY <1>2 DEF MarkKnown, MarkStored, ItemFails
  <2>. QED
    BY <2>2, <2>3, <2>4 DEF TypesInv, Taken
<1>3. CASE Upload(r)
  <2>1. /\ UNCHANGED <<device, todo, doing, preview, cleaning, deleted, excused>>
        /\ pc[r] = "upload" /\ stored' \in {stored, stored \cup {doing[r]}}
        /\ pc' \in {[pc EXCEPT ![r] = "stored"], [pc EXCEPT ![r] = "error"]}
    BY <1>3 DEF Upload
  <2>2. doing[r] \in Taken
    BY <2>1 DEF TypesInv, HandsOK
  <2>. QED
    BY <2>1, <2>2 DEF TypesInv, RowsOK, HandsOK, Taken, device
<1>4. CASE AdvanceCursor(r)
  <2>1. HandsOK'
    BY <1>4 DEF AdvanceCursor, TypesInv, HandsOK, Through, Taken
  <2>. QED
    BY <1>4, <2>1 DEF AdvanceCursor, TypesInv, RowsOK, Taken
<1>5. CASE PassEnds(r)
  <2>1. HandsOK'
    BY <1>5 DEF PassEnds, TypesInv, HandsOK, Taken, device
  <2>. QED
    BY <1>5, <2>1 DEF PassEnds, TypesInv, RowsOK, Taken, device
<1>. QED
  BY <1>1, <1>2, <1>3, <1>4, <1>5 DEF RunnerStep

LEMMA TypesStep == TypesInv /\ [Next]_vars => TypesInv'
<1> SUFFICES ASSUME TypesInv, [Next]_vars PROVE TypesInv'
  OBVIOUS
<1> USE MobileSyncAssumption
<1>1. CASE TakePhoto
  <2>1. /\ Taken \subseteq Taken' /\ taken' \in Taken' /\ taken' \in 0 .. MaxPhotos
        /\ cursor' \in 0 .. taken'
    BY <1>1 DEF TakePhoto, TypesInv, Taken
  <2>2. RowsOK' /\ HandsOK'
    BY <1>1, <2>1 DEF TakePhoto, TypesInv, RowsOK, HandsOK, process
  <2>. QED
    BY <1>1, <2>1, <2>2 DEF TakePhoto, TypesInv, process
<1>2. CASE AskCleanup \/ AnswerCleanup \/ OpenPreview \/ ClosePreview
  BY <1>2 DEF AskCleanup, AnswerCleanup, OpenPreview, ClosePreview, Cleanable, Listed, Seen, TypesInv, RowsOK,
              HandsOK, Taken, device
<1>3. CASE Kill
  BY <1>3 DEF Kill, Held, TypesInv, RowsOK, HandsOK, Runners, Taken, device
<1>4. ASSUME NEW p \in Photos, DeleteOnServer(p)
      PROVE  TypesInv'
  BY <1>4 DEF DeleteOnServer, TypesInv, RowsOK, HandsOK, Taken, device, process
<1>5. ASSUME NEW selected \in SUBSET preview, Confirm(selected)
      PROVE  TypesInv'
  BY <1>5 DEF Confirm, Running, Seen, TypesInv, RowsOK, HandsOK, Runners, Taken, device
<1>6. CASE CutOff \/ BackgroundCutOff
  <2>1. HandsOK'
    BY <1>6 DEF CutOff, BackgroundCutOff, TypesInv, HandsOK, Runners, Taken, device
  <2>2. Held("fg") \subseteq Taken
    BY DEF Held, TypesInv, HandsOK, Runners
  <2>. QED
    BY <1>6, <2>1, <2>2 DEF CutOff, BackgroundCutOff, TypesInv, RowsOK, Taken, device
<1>7. CASE BackgroundStart \/ TakeItems
  <2>1. Seen \subseteq Taken /\ PendingItems \subseteq Taken
    BY DEF Seen, PendingItems, Waiting, TypesInv, RowsOK
  <2>2. HandsOK'
    <3>1. PICK some \in SUBSET Taken : todo' = [todo EXCEPT !["bg"] = some]
      BY <1>7, <2>1 DEF BackgroundStart, TakeItems
    <3>2. /\ pc["bg"] \in {"idle", "scan"} /\ UNCHANGED <<doing, row, taken>>
          /\ pc' \in {[pc EXCEPT !["bg"] = "scan"], [pc EXCEPT !["bg"] = "item"]}
      BY <1>7 DEF BackgroundStart, TakeItems, Running, device
    <3>. QED
      BY <3>1, <3>2 DEF TypesInv, HandsOK, Taken
  <2>. QED
    BY <1>7, <2>2 DEF BackgroundStart, TakeItems, TypesInv, RowsOK, Taken, device
<1>8. CASE ScanPhoto
  <2>1. PICK p \in NextUp("bg") :
          \/ todo' = [todo EXCEPT !["bg"] = @ \ {p}] /\ UNCHANGED <<pc, doing, row, since>>
          \/ /\ row' = Enqueued(p) /\ since' = Ordered(p)
             /\ todo' = [todo EXCEPT !["bg"] = @ \ {p}]
             /\ \/ pc' = [pc EXCEPT !["bg"] = "known"] /\ doing' = [doing EXCEPT !["bg"] = p]
                \/ UNCHANGED <<pc, doing>>
    BY <1>8 DEF ScanPhoto, TurnTo
  <2>2. /\ UNCHANGED <<taken, roll, cursor, stored, preview, cleaning, deleted, excused>>
        /\ p \in todo["bg"] /\ p \in Taken /\ p \in Photos /\ p # 0 /\ Taken \subseteq Photos
    BY <1>8, <2>1 DEF ScanPhoto, NextUp, Oldest, Latest, TypesInv, HandsOK, Taken, Photos, Runners
  <2>3. CASE UNCHANGED <<pc, doing, row, since>> /\ todo' = [todo EXCEPT !["bg"] = @ \ {p}]
    BY <2>2, <2>3 DEF TypesInv, RowsOK, HandsOK, Taken
  <2>4. CASE row' = Enqueued(p) /\ since' = Ordered(p)
    <3>1. RowsOK' /\ row'[p] # "none" /\ \A q \in Photos : row[q] # "none" => row'[q] # "none"
      BY <2>2, <2>4, EnqueuedTypes DEF TypesInv
    <3>2. HandsOK'
      BY <2>1, <2>2, <3>1 DEF TypesInv, HandsOK, Taken
    <3>. QED
      BY <2>2, <3>1, <3>2 DEF TypesInv, Taken
  <2>. QED
    BY <2>1, <2>3, <2>4
<1>9. CASE UNCHANGED vars
  BY <1>9 DEF vars, device, process, TypesInv, RowsOK, HandsOK, Taken
<1>. QED
  BY <1>1, <1>2, <1>3, <1>4, <1>5, <1>6, <1>7, <1>8, <1>9, RunnerTypes DEF Next, BackgroundStep, Runners

(* Queue, runners and dialogs speak of photos that were taken; a row has a *)
(* rank of its own age as long as it is there, and a runner is at a photo  *)
(* exactly while it works on one.                                          *)
THEOREM SyncTypes == Spec => []SyncTypeOK
<1>1. Init => TypesInv
  BY MobileSyncAssumption DEF Init, TypesInv, RowsOK, HandsOK, Taken, Photos
<1>2. TypesInv => SyncTypeOK
  BY DEF TypesInv, RowsOK, HandsOK, SyncTypeOK, Held
<1>. QED
  BY <1>1, <1>2, TypesStep, PTL DEF Spec

============================================================================
