----------------------------- MODULE WebUpload -----------------------------
(* Uploading from the page: files picked or dropped, the modal with its      *)
(* locks (a locked file goes to the folder of the redirect), the hook that   *)
(* sends the files of a batch side by side, large ones in chunks, with its   *)
(* retries, the toast with "Retry failed", and the user who picks the next   *)
(* files while the last ones are on their way.                               *)
EXTENDS Integers, FiniteSets

CONSTANTS MaxBatches, MaxTries, \* batches ever picked, attempts at a file before it has failed
          MaxFaults             \* requests or answers that are lost

Batches == 1..MaxBatches
Items(b) == IF b = 1 THEN 1..2 ELSE {1}   \* an image, and with it a video sent in chunks
ChunkCount == 2
Size(i) == i
VARIABLES ui,                   \* the modal, the hook's live record and the toast that shows it
          srv                   \* the runs of the hook, their requests, and what is stored
vars == <<ui, srv>>

Idle == [status |-> "idle", batch |-> 0, item |-> [i \in 1..2 |-> "none"], ok |-> 0, bad |-> 0]
Asleep == [st |-> "none", try |-> 0, sent |-> 0]
NoRun == [kind |-> "none", ok |-> 0, bad |-> 0, task |-> [i \in 1..2 |-> Asleep],
          open |-> {}, shown |-> {}, at |-> {}]
NoPick == [files |-> 0, open |-> {}, all |-> FALSE, room |-> 0]
Init == \E r \in 3..4, redirect \in {"off", "beside", "elsewhere"} :
  /\ ui = [pick |-> NoPick, live |-> Idle, away |-> {}]
  /\ srv = [run |-> [b \in Batches |-> NoRun], room |-> r, redirect |-> redirect, faults |-> 0,
            overlapped |-> FALSE]

----------------------------------------------------------------------------
(* Choosing the files.                                                      *)

Started == {b \in Batches : srv.run[b].kind # "none"}
Running == {b \in Batches : srv.run[b].kind \in {"first", "retry"}}
Pending == ui.pick.files
\* Files can be dropped on the page also while the modal shows others; the locks begin anew.
PickFiles == \E b \in Batches \ Started :
  /\ b > Pending /\ \A c \in Batches : c < b => c \in Started \cup {Pending}
  /\ ui' = [ui EXCEPT !.pick = [NoPick EXCEPT !.files = b, !.room = srv.room]] /\ UNCHANGED srv
CancelPick == Pending # 0 /\ ui' = [ui EXCEPT !.pick = NoPick] /\ UNCHANGED srv
\* The redirect is known to the page when its folder is listed in the one shown.
ShownRedirect == srv.redirect = "beside"
Lockable == IF ShownRedirect THEN Items(Pending) ELSE {}
Locked(i) == i \in Lockable /\ ~ui.pick.all /\ i \notin ui.pick.open
ToggleLock == /\ Pending # 0 /\ ~ui.pick.all
              /\ \E i \in Lockable :
                   ui' = [ui EXCEPT !.pick.open = IF i \in @ THEN @ \ {i} ELSE @ \cup {i}]
              /\ UNCHANGED srv
IgnoreAll == /\ Pending # 0 /\ Lockable # {} /\ ui' = [ui EXCEPT !.pick.all = ~@] /\ UNCHANGED srv
Exceeds == (IF 2 \in Items(Pending) THEN 3 ELSE 1) > ui.pick.room

\* The hook has one live record: a new batch takes it over from one still running.
Begin(b, is) == [i \in 1..2 |-> IF i \in is THEN [st |-> "presign", try |-> 1, sent |-> 0]
                                ELSE srv.run[b].task[i]]
StartUpload == LET b == Pending IN
  /\ b # 0 /\ ~Exceeds
  /\ ui' = [ui EXCEPT !.pick = NoPick,
              !.live = [status |-> "uploading", batch |-> b, ok |-> 0, bad |-> 0,
                        item |-> [i \in 1..2 |-> IF i \in Items(b) THEN "uploading" ELSE "none"]]]
  /\ srv' = [srv EXCEPT !.overlapped = @ \/ Running \ ui.away # {},
               !.run[b] = [NoRun EXCEPT !.kind = "first", !.task = Begin(b, Items(b)),
                             !.open = {i \in Lockable : ~Locked(i)},
                             !.shown = {i \in Items(b) : ~Locked(i)}]]

----------------------------------------------------------------------------
(* One file of a run: its requests, in turn, and their ends.                *)

Task(b, i) == srv.run[b].task[i]
\* A page that was left no longer shows what its runs report.
Patch(b, i, st) == IF b \in ui.away THEN ui ELSE [ui EXCEPT !.live.item[i] = st]
Goto(b, i, st) == [srv EXCEPT !.run[b].task[i].st = st]
Place(b, i) == IF srv.redirect # "off" /\ i \notin srv.run[b].open THEN "redirect" ELSE "here"
Store(s, b, i) == [s EXCEPT !.run[b].at = @ \cup {<<i, Place(b, i)>>}, !.room = @ - Size(i)]
Fits(i) == Size(i) <= srv.room
Presign(b, i) == /\ Task(b, i).st = "presign" /\ (i = 1 \/ Fits(i))
                 /\ srv' = Goto(b, i, IF i = 1 THEN "put" ELSE "chunk") /\ UNCHANGED ui
UploadChunk(b, i) == /\ Task(b, i).st = "chunk"
                     /\ srv' = [srv EXCEPT !.run[b].task[i].sent = @ + 1,
                                  !.run[b].task[i].st = IF Task(b, i).sent + 1 = ChunkCount THEN "complete" ELSE @]
                     /\ UNCHANGED ui
\* A file is one request, or, sent in chunks, complete when the server has each of them.
Delivered(b, i) == \/ Task(b, i).st = "put" /\ Fits(i)
                   \/ Task(b, i).st = "complete"
Count(s, b, ok) == IF srv.run[b].kind = "retry" THEN s
                   ELSE IF ok THEN [s EXCEPT !.run[b].ok = @ + 1] ELSE [s EXCEPT !.run[b].bad = @ + 1]
\* The first run of a batch writes its own counts, a retry corrects those shown.
Counted(u, b, ok) ==
  IF b \in ui.away THEN u
  ELSE IF srv.run[b].kind = "retry"
       THEN IF ok THEN [u EXCEPT !.live.ok = @ + 1, !.live.bad = @ - 1] ELSE u
       ELSE IF ok THEN [u EXCEPT !.live.ok = srv.run[b].ok + 1] ELSE [u EXCEPT !.live.bad = srv.run[b].bad + 1]
FileDone(b, i) ==
  /\ Delivered(b, i)
  /\ srv' = Count(Store(Goto(b, i, "done"), b, i), b, TRUE)
  /\ ui' = Counted(Patch(b, i, "done"), b, TRUE)
\* A request fails: refused, lost, or answered into the void; the file is tried
\* again from the start, a large one with a session of its own, until the last attempt.
Failed(b, i, s) ==
  IF Task(b, i).try < MaxTries
  THEN /\ srv' = [s EXCEPT !.run[b].task[i] = [st |-> "presign", try |-> @.try + 1, sent |-> 0]]
       /\ UNCHANGED ui
  ELSE /\ srv' = Count([s EXCEPT !.run[b].task[i].st = "failed"], b, FALSE)
       /\ ui' = Counted(Patch(b, i, "failed"), b, FALSE)
Refused(b, i) == /\ Task(b, i).st = (IF i = 1 THEN "put" ELSE "presign") /\ ~Fits(i)
                 /\ Failed(b, i, srv)
Lost(b, i) == /\ srv.faults < MaxFaults /\ Task(b, i).st \in {"presign", "put", "chunk", "complete"}
              /\ Failed(b, i, [srv EXCEPT !.faults = @ + 1])
AnswerLost(b, i) == /\ srv.faults < MaxFaults /\ Delivered(b, i)
                    /\ Failed(b, i, [Store(srv, b, i) EXCEPT !.faults = @ + 1])

----------------------------------------------------------------------------
(* The end of a run, and the toast.                                         *)

Over(b) == \A i \in Items(b) : Task(b, i).st \in {"done", "failed"}
FinalStatus(ok, bad) == IF bad = 0 THEN "complete" ELSE IF ok = 0 THEN "allFailed" ELSE "partial"
EndRun(b) == /\ b \in Running /\ Over(b)
             /\ srv' = [srv EXCEPT !.run[b].kind = "over"]
             /\ ui' = IF b \in ui.away THEN ui
                      ELSE IF srv.run[b].kind = "first"
                      THEN [ui EXCEPT !.live.status = FinalStatus(srv.run[b].ok, srv.run[b].bad)]
                      ELSE [ui EXCEPT !.live.status = FinalStatus(ui.live.ok, ui.live.bad)]
FailedItems == {i \in Items(ui.live.batch) : ui.live.item[i] = "failed"}
\* A bug: the count of failures begins anew with a retry, one that fails again is not counted.
RetryResets == [ui EXCEPT !.live.status = "uploading", !.live.bad = 0,
                          !.live.item = [i \in 1..2 |-> IF i \in FailedItems THEN "uploading" ELSE @[i]]]
RetryShown == [ui EXCEPT !.live.status = "uploading",
                         !.live.item = [i \in 1..2 |-> IF i \in FailedItems THEN "uploading" ELSE @[i]]]
\* A bug: the files are sent again without the choices made in the modal.
ForgetLocks(b) == {}
LastOpen(b) == srv.run[b].open
RetryFailed == LET b == ui.live.batch IN
  /\ b # 0 /\ ui.live.status \in {"partial", "allFailed", "complete"} /\ ui.live.bad > 0 /\ FailedItems # {}
  /\ ui' = RetryShown
  /\ srv' = [srv EXCEPT !.run[b].kind = "retry", !.run[b].task = Begin(b, FailedItems),
                        !.run[b].open = LastOpen(b)]
\* By hand, or by itself some seconds after a success.
Dismiss == /\ ui.live.status \in {"partial", "allFailed", "complete"}
           /\ ui' = [ui EXCEPT !.live = Idle] /\ UNCHANGED srv
\* Leaving the page: its requests go on, nobody waits for them.
LeavePage == /\ (Running \ ui.away # {} \/ ui.live # Idle)
             /\ ui' = [ui EXCEPT !.pick = NoPick, !.live = Idle, !.away = Started]
             /\ UNCHANGED srv

Choose == PickFiles \/ CancelPick \/ ToggleLock \/ IgnoreAll \/ StartUpload
Transfer == \E b \in Batches : \/ EndRun(b)
                               \/ \E i \in Items(b) : \/ Presign(b, i) \/ UploadChunk(b, i) \/ FileDone(b, i)
                                                      \/ Refused(b, i) \/ Lost(b, i) \/ AnswerLost(b, i)
Toast == RetryFailed \/ Dismiss \/ LeavePage
Next == Choose \/ Transfer \/ Toast
Spec == Init /\ [][Next]_vars

----------------------------------------------------------------------------
(* Properties.                                                              *)

\* A toast that says "Complete" speaks of a batch every file of which is stored,
\* retries and lost answers included, unless a batch was started over a running one.
CompleteIsStored ==
  ui.live.status = "complete" /\ ~srv.overlapped =>
    \A i \in Items(ui.live.batch) : \E p \in {"here", "redirect"} : <<i, p>> \in srv.run[ui.live.batch].at
\* A file is stored where its row in the modal said when the upload was
\* confirmed, by the first attempt and by any retry, however many batches ran.
AsShown(b) == \A x \in srv.run[b].at : x[2] = (IF x[1] \in srv.run[b].shown THEN "here" ELSE "redirect")
StoredWhereShown == srv.redirect # "elsewhere" => \A b \in Batches : AsShown(b)
\* The page's own comment: its rule mirrors the server's, so that the modal's
\* lock icons match reality, wherever the folder of the redirect is.
\* The code does not keep this (README, Disagreements).
LocksMatchReality == \A b \in Batches : AsShown(b)
=============================================================================
