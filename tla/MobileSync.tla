----------------------------- MODULE MobileSync -----------------------------
(***************************************************************************)
(* Camera-roll backup of the mobile app: the upload queue in SQLite, the   *)
(* scan cursor in AsyncStorage, the sync a user starts from the preview    *)
(* ("fg") and the one the operating system starts in the background        *)
(* ("bg").  Both run in one process over the same queue and cursor, and    *)
(* await the network at every step, so they interleave; the process may be *)
(* killed at any of them.                                                  *)
(*                                                                         *)
(* Photos are numbered in the order they are taken, and the clock is the   *)
(* number taken so far: a cursor of c excludes photos 1 .. c.              *)
(***************************************************************************)
EXTENDS Naturals, FiniteSets

CONSTANTS
  MaxPhotos,     \* bound: photos ever taken
  PendingLimit,  \* items one pass takes from the queue (10 in the code)
  Quota,         \* the user's quota, in photos; 0 is no quota
  Refused,       \* photos the server never accepts
  MaxFaults,     \* bound: failing calls and lost networks
  MaxKills,      \* bound: process deaths
  MaxDeletes     \* bound: deletions on the server

ASSUME MobileSyncAssumption ==
  /\ MaxPhotos \in Nat /\ PendingLimit \in Nat \ {0}
  /\ Quota \in Nat /\ Refused \subseteq Nat
  /\ MaxFaults \in Nat /\ MaxKills \in Nat /\ MaxDeletes \in Nat

Photos == 1 .. MaxPhotos
Runners == {"fg", "bg"}

VARIABLES
  \* The device.
  taken,     \* photos taken so far, and the time
  roll,      \* photos in the camera roll
  cursor,    \* CURSOR_KEY
  row,       \* upload_queue.status per photo; "none" = no row
  since,     \* created_at: the number of the row, 0 where there is none
  \* The server.
  stored,    \* photos the user has a file of
  \* The process.
  pc,        \* where each runner is
  todo,      \* what it has still to look at
  doing,     \* the one it is at, 0 between two of them
  preview,   \* the photos the preview modal shows
  cleaning,  \* done items read by handleCleanupSynced, awaiting the alert
  \* The environment and history.
  faults, kills,
  deleted,   \* photos the user deleted on the server
  excused    \* photos taken during a pass, not selected, cut off, or killed

device == <<taken, roll, cursor, row, since>>
process == <<pc, todo, doing, preview, cleaning>>
vars == <<device, stored, process, faults, kills, deleted, excused>>

Taken == 1 .. taken
Held(r) == (todo[r] \cup {doing[r]}) \ {0}
Running(r) == pc[r] # "idle"
Fault == faults < MaxFaults /\ faults' = faults + 1

(* Forms these operators would take in a faulty program.                   *)
WaitingPending == {p \in Photos : row[p] = "pending"}
SeenLate == {p \in roll : p > cursor + 1}
CleanableQueued == {p \in roll : row[p] # "none"}

(* getPhotos from the cursor.                                              *)
Seen == {p \in roll : p > cursor}

(* scanForPreview: what of that is not done.                               *)
Listed == {p \in Seen : row[p] # "done"}

(* getPendingItems: what may be tried again, the oldest rows of it.        *)
Waiting == {p \in Photos : row[p] \in {"pending", "failed"}}
Before(p) == {q \in Waiting : since[q] < since[p]}
PendingItems == {p \in Waiting : Cardinality(Before(p)) < PendingLimit}

(* enqueue: INSERT OR IGNORE.                                              *)
Enqueued(p) == IF row[p] = "none" THEN [row EXCEPT ![p] = "pending"] ELSE row
Rows == {p \in Photos : row[p] # "none"}
Ordered(p) == IF row[p] = "none" THEN [since EXCEPT ![p] = Cardinality(Rows) + 1] ELSE since

(* The queue is worked off by age, what was listed from the roll begins    *)
(* with the latest photo.                                                  *)
Oldest(S) == {p \in S : \A q \in S : since[p] <= since[q]}
Latest(S) == {p \in S : \A q \in S : p >= q}
NextUp(r) == IF r = "bg" /\ pc[r] = "item" THEN Oldest(todo[r]) ELSE Latest(todo[r])

(* The runner turns to p, and is through with what it is at.               *)
TurnTo(r, p) == todo' = [todo EXCEPT ![r] = @ \ {p}] /\ doing' = [doing EXCEPT ![r] = p]
Through(r) == doing' = [doing EXCEPT ![r] = 0]

(* getAllDoneItems.                                                        *)
Cleanable == {p \in roll : row[p] = "done"}

(* SyncPreviewModal: the limit starts at three quarters of the quota, or at *)
(* what is used if that is more; the slider moves it up to the quota once   *)
(* the cap is overridden.  What is used is what the cached profile says.    *)
CanProceed(selected, used) ==
  selected # {} /\ (Quota > 0 => used + Cardinality(selected) <= Quota)

Init ==
  /\ taken = 0 /\ roll = {} /\ cursor = 0
  /\ row = [p \in Photos |-> "none"]
  /\ since = [p \in Photos |-> 0]
  /\ stored = {}
  /\ pc = [r \in Runners |-> "idle"]
  /\ todo = [r \in Runners |-> {}]
  /\ doing = [r \in Runners |-> 0]
  /\ preview = {} /\ cleaning = {}
  /\ faults = 0 /\ kills = 0 /\ deleted = {} /\ excused = {}

----------------------------------------------------------------------------
(* The user and the environment.                                           *)

(* A photo is taken.  One taken while a pass runs is behind the cursor the *)
(* pass will set, unless the listing had yet to be made.                   *)
TakePhoto ==
  /\ taken < MaxPhotos
  /\ taken' = taken + 1
  /\ roll' = roll \cup {taken'}
  /\ excused' = IF \E r \in Runners : Running(r) THEN excused \cup {taken'} ELSE excused
  /\ UNCHANGED <<cursor, row, since, stored, process, faults, kills, deleted>>

(* The user deletes a file on the server, from any client.                 *)
DeleteOnServer(p) ==
  /\ p \in stored /\ Cardinality(deleted) < MaxDeletes
  /\ stored' = stored \ {p}
  /\ deleted' = deleted \cup {p}
  /\ UNCHANGED <<device, process, faults, kills, excused>>

(* handleCleanupSynced reads the done items and asks.                      *)
AskCleanup ==
  /\ cleaning = {} /\ preview = {} /\ Cleanable # {}
  /\ cleaning' = Cleanable
  /\ UNCHANGED <<device, stored, pc, todo, doing, preview, faults, kills, deleted, excused>>

(* The answer: the photos are removed from the device, or not.             *)
AnswerCleanup ==
  /\ cleaning # {}
  /\ \/ roll' = roll \ cleaning
     \/ UNCHANGED roll
  /\ cleaning' = {}
  /\ UNCHANGED <<taken, cursor, row, since, stored, pc, todo, doing, preview, faults, kills, deleted,
                 excused>>

(* The process dies: the queue and the cursor survive.                     *)
Kill ==
  /\ kills < MaxKills /\ \E r \in Runners : Running(r)
  /\ kills' = kills + 1
  /\ excused' = excused \cup Held("fg") \cup Held("bg")
  /\ pc' = [r \in Runners |-> "idle"]
  /\ todo' = [r \in Runners |-> {}]
  /\ doing' = [r \in Runners |-> 0]
  /\ preview' = {} /\ cleaning' = {}
  /\ UNCHANGED <<device, stored, faults, deleted>>

----------------------------------------------------------------------------
(* The foreground: preview, choice, runSelected.                           *)

(* handleSyncNow.                                                          *)
OpenPreview ==
  /\ ~Running("fg") /\ preview = {} /\ cleaning = {}
  /\ Listed # {} /\ preview' = Listed
  /\ UNCHANGED <<device, stored, pc, todo, doing, cleaning, faults, kills, deleted, excused>>

ClosePreview ==
  /\ preview # {} /\ preview' = {}
  /\ UNCHANGED <<device, stored, pc, todo, doing, cleaning, faults, kills, deleted, excused>>

(* The user confirms a selection.  What was not selected, or taken since   *)
(* the preview was read, is not in the pass.                               *)
Confirm(selected) ==
  /\ preview # {} /\ ~Running("fg")
  /\ \E used \in 0 .. Cardinality(stored) : CanProceed(selected, used)
  /\ preview' = {}
  /\ pc' = [pc EXCEPT !["fg"] = "item"]
  /\ todo' = [todo EXCEPT !["fg"] = selected]
  /\ excused' = excused \cup {p \in Seen : p \notin selected /\ row[p] = "none"}
  /\ UNCHANGED <<device, stored, doing, cleaning, faults, kills, deleted>>

(* networkOk is false: runSelected breaks out of its loop, and what is     *)
(* left of the selection is nowhere recorded.                              *)
CutOff ==
  /\ pc["fg"] = "item" /\ todo["fg"] # {} /\ Fault
  /\ pc' = [pc EXCEPT !["fg"] = "idle"]
  /\ todo' = [todo EXCEPT !["fg"] = {}]
  /\ excused' = excused \cup Held("fg")
  /\ UNCHANGED <<device, stored, doing, preview, cleaning, kills, deleted>>

----------------------------------------------------------------------------
(* The background: run() scans the roll, then works off the queue.         *)

(* headlessTask and the fetch callback both end in run(): the night-sync   *)
(* window, its once-a-day mark and the quota test do not hold it back.     *)
BackgroundStart ==
  /\ ~Running("bg")
  /\ pc' = [pc EXCEPT !["bg"] = "scan"]
  /\ todo' = [todo EXCEPT !["bg"] = Seen]
  /\ UNCHANGED <<device, stored, doing, preview, cleaning, faults, kills, deleted, excused>>

(* One photo of scanCameraRoll.  A photo the server already has is entered *)
(* and then marked done; a check that fails, or a photo that cannot be     *)
(* hashed, counts as not there.                                            *)
ScanPhoto ==
  /\ pc["bg"] = "scan"
  /\ \E p \in NextUp("bg") :
       \/ /\ row[p] = "done"
          /\ todo' = [todo EXCEPT !["bg"] = @ \ {p}]
          /\ UNCHANGED <<pc, doing, row, since, faults>>
       \/ /\ row[p] # "done"
          /\ row' = Enqueued(p) /\ since' = Ordered(p)
          /\ \/ /\ p \in stored
                /\ pc' = [pc EXCEPT !["bg"] = "known"] /\ TurnTo("bg", p)
                /\ UNCHANGED faults
             \/ /\ p \notin stored \/ faults < MaxFaults
                /\ faults' = IF p \in stored THEN faults + 1 ELSE faults
                /\ todo' = [todo EXCEPT !["bg"] = @ \ {p}]
                /\ UNCHANGED <<pc, doing>>
  /\ UNCHANGED <<taken, roll, cursor, stored, preview, cleaning, kills, deleted, excused>>

(* processQueue: the oldest PendingLimit rows that may be tried.           *)
TakeItems ==
  /\ pc["bg"] = "scan" /\ todo["bg"] = {}
  /\ todo' = [todo EXCEPT !["bg"] = PendingItems]
  /\ pc' = [pc EXCEPT !["bg"] = "item"]
  /\ UNCHANGED <<device, stored, doing, preview, cleaning, faults, kills, deleted, excused>>

(* The background pass loses the network, or its scan throws: its items    *)
(* stay in the queue, or in front of the cursor.                           *)
BackgroundCutOff ==
  /\ pc["bg"] \in {"scan", "item"} /\ todo["bg"] # {} /\ Fault
  /\ pc' = [pc EXCEPT !["bg"] = "idle"]
  /\ todo' = [todo EXCEPT !["bg"] = {}]
  /\ UNCHANGED <<device, stored, doing, preview, cleaning, kills, deleted, excused>>

----------------------------------------------------------------------------
(* One item, in either runner.                                             *)

(* runSelected checks the hash and enters the row first; processQueue goes *)
(* straight to "uploading".                                                *)
BeginItem(r) ==
  /\ pc[r] = "item"
  /\ \E p \in NextUp(r) :
       /\ TurnTo(r, p) /\ since' = Ordered(p)
       /\ \/ /\ r = "fg" /\ p \in stored
             /\ row' = Enqueued(p)
             /\ pc' = [pc EXCEPT ![r] = "known"]
             /\ UNCHANGED faults
          \/ /\ r = "fg" /\ p \in stored => faults < MaxFaults
             /\ faults' = IF r = "fg" /\ p \in stored THEN faults + 1 ELSE faults
             /\ row' = [Enqueued(p) EXCEPT ![p] = "uploading"]
             /\ pc' = [pc EXCEPT ![r] = "upload"]
  /\ UNCHANGED <<taken, roll, cursor, stored, preview, cleaning, kills, deleted, excused>>

(* setStatus(done) for a photo the server already has.                     *)
MarkKnown(r) ==
  /\ pc[r] = "known"
  /\ row' = [row EXCEPT ![doing[r]] = "done"]
  /\ Through(r)
  /\ pc' = [pc EXCEPT ![r] = IF r = "bg" THEN "scan" ELSE "item"]
  /\ UNCHANGED <<taken, roll, cursor, since, stored, todo, preview, cleaning, faults, kills, deleted,
                 excused>>

(* uploadFile.  A name that is taken, a full quota or a refused file is an *)
(* error; so is an answer that is lost after the file was stored.          *)
Upload(r) ==
  /\ pc[r] = "upload"
  /\ LET p == doing[r]
         accepted == p \notin stored \cup Refused /\ Cardinality(stored) < Quota
     IN  \/ /\ accepted /\ p \in roll
            /\ stored' = stored \cup {p}
            /\ \/ pc' = [pc EXCEPT ![r] = "stored"] /\ UNCHANGED faults
               \/ pc' = [pc EXCEPT ![r] = "error"] /\ Fault
         \/ /\ pc' = [pc EXCEPT ![r] = "error"]
            /\ IF accepted /\ p \in roll THEN Fault ELSE UNCHANGED faults
            /\ UNCHANGED stored
  /\ UNCHANGED <<device, todo, doing, preview, cleaning, kills, deleted, excused>>

(* setStatus(done), and then the call for the server's time.  Its failure  *)
(* is caught like a failed upload.                                         *)
MarkStored(r) ==
  /\ pc[r] = "stored"
  /\ row' = [row EXCEPT ![doing[r]] = "done"]
  /\ \/ pc' = [pc EXCEPT ![r] = "advance"] /\ UNCHANGED faults
     \/ pc' = [pc EXCEPT ![r] = "error"] /\ Fault
  /\ UNCHANGED <<taken, roll, cursor, since, stored, todo, doing, preview, cleaning, kills, deleted,
                 excused>>

(* The cursor is set to the server's time.                                 *)
AdvanceCursor(r) ==
  /\ pc[r] = "advance"
  /\ cursor' = taken
  /\ Through(r)
  /\ pc' = [pc EXCEPT ![r] = "item"]
  /\ UNCHANGED <<taken, roll, row, since, stored, todo, preview, cleaning, faults, kills, deleted,
                 excused>>

(* The catch branch.  retry_count stops at its limit, but no query asks for *)
(* it: a failed row stays in the queue whatever its count.                  *)
ItemFails(r) ==
  /\ pc[r] = "error"
  /\ row' = [row EXCEPT ![doing[r]] = "failed"]
  /\ Through(r)
  /\ pc' = [pc EXCEPT ![r] = "item"]
  /\ UNCHANGED <<taken, roll, cursor, since, stored, todo, preview, cleaning, faults, kills,
                 deleted, excused>>

PassEnds(r) ==
  /\ pc[r] = "item" /\ todo[r] = {}
  /\ pc' = [pc EXCEPT ![r] = "idle"]
  /\ UNCHANGED <<device, stored, todo, doing, preview, cleaning, faults, kills, deleted, excused>>

----------------------------------------------------------------------------
RunnerStep(r) ==
  \/ BeginItem(r) \/ MarkKnown(r) \/ Upload(r) \/ MarkStored(r) \/ AdvanceCursor(r)
  \/ ItemFails(r) \/ PassEnds(r)

BackgroundStep == BackgroundStart \/ ScanPhoto \/ TakeItems \/ RunnerStep("bg")

Next ==
  \/ TakePhoto \/ AskCleanup \/ AnswerCleanup \/ Kill
  \/ \E p \in Photos : DeleteOnServer(p)
  \/ OpenPreview \/ ClosePreview \/ CutOff \/ BackgroundCutOff
  \/ \E selected \in SUBSET preview : Confirm(selected)
  \/ BackgroundStep \/ RunnerStep("fg")

Spec == Init /\ [][Next]_vars

(* The operating system keeps fetching in the background, and a pass that  *)
(* has begun goes on.  The user is obliged to nothing.                     *)
SyncFairSpec == Spec /\ WF_vars(BackgroundStep) /\ WF_vars(RunnerStep("fg"))

----------------------------------------------------------------------------
(* Type invariant of the queue, the runners and the dialogs.               *)
SyncTypeOK ==
  /\ taken \in 0 .. MaxPhotos /\ roll \subseteq Taken /\ cursor \in 0 .. taken
  /\ row \in [Photos -> {"none", "pending", "uploading", "done", "failed"}]
  /\ since \in [Photos -> 0 .. MaxPhotos] /\ \A p \in Photos : since[p] = 0 <=> row[p] = "none"
  /\ stored \subseteq Taken /\ deleted \subseteq Taken /\ excused \subseteq Taken
  /\ pc \in [Runners -> {"idle", "scan", "known", "item", "upload", "stored", "advance",
                         "error"}]
  /\ \A r \in Runners : Held(r) \subseteq Taken /\ (doing[r] = 0 <=> pc[r] \in {"idle", "scan", "item"})
  /\ preview \subseteq Taken /\ cleaning \subseteq Taken

(* HomeScreen: "Remove ... backed-up photos from this device? They are     *)
(* safely stored in Apollo SFS."  Whatever the two runners, the retries    *)
(* and the restarts did to the row, a photo that has left the device is on *)
(* the server, unless the user deleted it there.                           *)
CleanedAreStored == \A p \in Taken : p \in roll \cup stored \cup deleted

(* The whole protocol implements the promise of PhotoBackup: seen from the *)
(* roll and the server, every step of queue, cursor, passes and kills is a *)
(* photo taken, stored, discarded or freed after it was stored, or nothing. *)
Promise == INSTANCE PhotoBackup WITH device <- roll, server <- stored, discarded <- deleted
ImplementsPhotoBackup == Promise!BackupSpec

(* The cursor moves past photos by time, not by name; still, a photo that  *)
(* is not on the server stays within reach of a later pass - in front of   *)
(* the cursor, in the queue as pending or failed, or in a runner's hands - *)
(* but for the ways listed with "excused": taken while a pass ran, left    *)
(* out of a selection, dropped with the network, or killed.                *)
StillRemembered ==
  \A p \in roll \ (stored \cup deleted \cup excused) :
    \/ p > cursor
    \/ row[p] \in {"pending", "failed"}
    \/ \E r \in Runners : p \in Held(r)

(* Every photo is backed up in the end, without anybody opening the app:   *)
(* failed uploads, lost answers and lost networks are made up for by later *)
(* background passes.                                                      *)
EventuallyBackedUp ==
  \A p \in Photos :
    p \in roll ~> \/ p \in stored \cup deleted \cup excused \cup Refused
                  \/ p \notin roll
                  \/ Cardinality(stored) >= Quota

============================================================================
