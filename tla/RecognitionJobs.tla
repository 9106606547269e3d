-------------------------- MODULE RecognitionJobs --------------------------
(* AI recognition of a file that two media collections may show: the switch  *)
(* in the page's info window and the app's settings sheet, the ledger of     *)
(* jobs, the worker that finds faces, stores their crops and groups them,    *)
(* and what turning the switch off, a purge and a deletion of the file take  *)
(* away again, all of them while jobs run.                                   *)
(* An analysis finds one face, whose crop fits the quota.                    *)
EXTENDS Integers, FiniteSets

CONSTANTS MaxDets,                   \* detections and crops at one time
          MaxTrouble                 \* errors and crashes

Colls == {"a", "b"}
VARIABLES ui,                        \* the info window or the settings sheet
          srv                        \* collections, jobs, detections and crops
vars == <<ui, srv>>

Closed == [coll |-> "none"]
NoOp == [coll |-> "none", what |-> "none"]
Init == /\ ui = Closed
        /\ srv = [on |-> [c \in Colls |-> FALSE], has |-> {"a"},
                  job |-> [c \in Colls |-> "none"], pc |-> [c \in Colls |-> "idle"],
                  own |-> {}, mine |-> [c \in Colls |-> {}],
                  dets |-> {}, in |-> [i \in 1..MaxDets |-> {}], objs |-> {}, counted |-> 0,
                  op |-> NoOp,
                  trouble |-> 0, raced |-> FALSE, lost |-> FALSE]

Trouble(s) == [s EXCEPT !.trouble = @ + 1]
CanFail == srv.trouble < MaxTrouble

----------------------------------------------------------------------------
(* The switch. The flag is committed first; queueing, or clearing and       *)
(* purging, follow. One switch is on its way at a time.                     *)

SetEnabled(c, v, purge) ==
  [srv EXCEPT !.on[c] = v,
              !.op = [coll |-> c, what |-> IF v THEN "enqueue" ELSE IF purge THEN "purge" ELSE "clear"]]
\* The question is for the opposite of what was fetched some time ago.
AskToggle == /\ ui = Closed /\ srv.op = NoOp
             /\ \E c \in Colls, v \in BOOLEAN : ui' = [coll |-> c, want |-> v]
             /\ UNCHANGED srv
CancelToggle == ui # Closed /\ ui' = Closed /\ UNCHANGED srv
ConfirmToggle == /\ ui # Closed
                 /\ \E purge \in {FALSE, ~ui.want} : srv' = SetEnabled(ui.coll, ui.want, purge)
                 /\ ui' = Closed

\* A row of the ledger, whatever its state, is never queued again.
Queued(s, c) == [s EXCEPT !.job[c] = IF c \in s.has /\ @ = "none" THEN "pending" ELSE @]
C == srv.op.coll
EnqueueCollection == /\ srv.op.what = "enqueue"
                     /\ srv' = [Queued(srv, C) EXCEPT !.op = NoOp] /\ UNCHANGED ui
DeletePending == /\ srv.op.what = "clear"
                 /\ srv' = [srv EXCEPT !.job[C] = IF @ = "pending" THEN "none" ELSE @, !.op = NoOp]
                 /\ UNCHANGED ui
\* A bug: the detections another collection's groups still show go as well.
AllOfFile(c) == IF srv.job[c] = "none" THEN {} ELSE srv.dets
Orphans(c) == IF srv.job[c] = "none" THEN {} ELSE {i \in srv.dets : srv.in[i] \subseteq {c}}
\* A purge takes the whole ledger of the collection.
PurgeRecognitionData ==
  /\ srv.op.what = "purge"
  /\ srv' = [srv EXCEPT !.dets = @ \ Orphans(C), !.in = [i \in DOMAIN @ |-> @[i] \ {C}],
                        !.job[C] = "none", !.own = @ \ {C}, !.op = NoOp,
                        !.objs = @ \ Orphans(C), !.counted = @ - Cardinality(Orphans(C))]
  /\ UNCHANGED ui

----------------------------------------------------------------------------
(* The worker claims what is pending when its last batch has ended, and     *)
(* works on the batch in parallel.                                          *)

Idle == \A c \in Colls : srv.pc[c] = "idle"
Claim == /\ Idle
         /\ \E c \in Colls : srv.job[c] \in {"pending", "processing"}
         /\ LET batch == {c \in Colls : srv.job[c] = "pending"}
                stale == {c \in Colls : srv.job[c] = "processing"} IN
            srv' = [srv EXCEPT
              !.job = [c \in Colls |-> IF c \in batch THEN "processing"
                                       ELSE IF c \in stale THEN "pending" ELSE @[c]],
              !.pc = [c \in Colls |-> IF c \in batch THEN "claimed" ELSE @[c]],
              !.own = batch]
         /\ UNCHANGED ui
Ended(s, c, st) == [s EXCEPT !.job[c] = IF c \in s.own THEN st ELSE @, !.own = @ \ {c},
                             !.pc[c] = "idle", !.mine[c] = {}]
\* The write that ends a job may fail; the row is then reset as stale.
Finish(s, c, st) == \/ srv' = Ended(s, c, st)
                    \/ CanFail /\ srv' = Trouble(Ended(s, c, "processing"))
Failed(s, c) == \E st \in {"pending", "failed"} : srv' = Ended(s, c, st)   \* the last attempt or not
\* A bug: what an earlier collection's job found is not looked for.
NothingFound == {}
Existing == srv.dets
Look == /\ \E c \in Colls :
             /\ srv.pc[c] = "claimed"
             /\ IF srv.has = {} \/ ~srv.on[c] THEN Finish(srv, c, "skipped")
                ELSE srv' = [srv EXCEPT
                       !.pc[c] = IF Existing = {} THEN "analysing" ELSE "found", !.mine[c] = Existing,
                       !.raced = @ \/ (Existing = {} /\ \E d \in Colls \ {c} :
                                                          srv.pc[d] \in {"analysing", "stored"})]
        /\ UNCHANGED ui
AssignToGroups ==
  /\ \E c \in Colls :
       /\ srv.pc[c] = "found"
       /\ IF srv.mine[c] \subseteq srv.dets
          THEN Finish([srv EXCEPT !.in = [i \in DOMAIN @ |-> IF i \in srv.mine[c] THEN @[i] \cup {c} ELSE @[i]]],
                      c, "done")
          ELSE Failed(srv, c)
  /\ UNCHANGED ui
Taken == srv.dets \cup srv.objs \cup UNION {srv.mine[c] : c \in Colls}
StoreCrops == /\ \E c \in Colls :
                   /\ srv.pc[c] = "analysing"
                   /\ \/ /\ CanFail /\ Failed(Trouble(srv), c)
                      \/ \E i \in 1..MaxDets \ Taken :
                           /\ \A j \in 1..MaxDets \ Taken : i <= j
                           /\ srv' = [srv EXCEPT !.pc[c] = "stored", !.mine[c] = {i}, !.objs = @ \cup {i}]
              /\ UNCHANGED ui
\* A bug: the crops of rows that were not written stay.
CropsStay(s, c) == s
RemoveCrops(s, c) == [s EXCEPT !.objs = @ \ s.mine[c]]
PersistAndAssign ==
  /\ \E c \in Colls :
       /\ srv.pc[c] = "stored"
       /\ \/ /\ srv.has # {}
             /\ srv' = [srv EXCEPT !.pc[c] = "kept", !.dets = @ \cup srv.mine[c],
                                   !.in = [i \in DOMAIN @ |-> IF i \in srv.mine[c] THEN {c} ELSE @[i]]]
          \/ srv.has = {} /\ Failed(RemoveCrops(srv, c), c)
          \/ CanFail /\ Failed(Trouble(RemoveCrops(srv, c)), c)
  /\ UNCHANGED ui
CountCrops ==
  /\ \E c \in Colls :
       /\ srv.pc[c] = "kept"
       /\ \/ Finish([srv EXCEPT !.counted = @ + 1], c, "done")
          \/ CanFail /\ srv' = [Trouble(Ended(srv, c, "done")) EXCEPT !.lost = TRUE]
  /\ UNCHANGED ui
\* The process starts again: every job in work is pending.
Restart ==
  /\ CanFail
  /\ srv' = [Trouble(srv) EXCEPT
       !.lost = @ \/ (\E c \in Colls : srv.pc[c] \in {"stored", "kept"}),
       !.job = [c \in Colls |-> IF @[c] = "processing" THEN "pending" ELSE @[c]],
       !.pc = [c \in Colls |-> "idle"], !.mine = [c \in Colls |-> {}], !.own = {}, !.op = NoOp]
  /\ UNCHANGED ui

----------------------------------------------------------------------------
(* The file.                                                                *)

\* A copy into a collection queues it there when that collection is switched on.
Copied == /\ srv.has = {"a"}
          /\ srv' = LET s == [srv EXCEPT !.has = Colls] IN IF srv.on["b"] THEN Queued(s, "b") ELSE s
          /\ UNCHANGED ui
\* A bug: only the file's own size is given back.
NoRefund(crops) == 0
Refund(crops) == Cardinality(crops)
DeleteFile == /\ srv.has # {}
              /\ srv' = [srv EXCEPT !.has = {}, !.dets = {}, !.in = [i \in DOMAIN @ |-> {}],
                                    !.job = [c \in Colls |-> "none"], !.own = {},
                                    !.objs = @ \ srv.dets, !.counted = @ - Refund(srv.dets)]
              /\ UNCHANGED ui

----------------------------------------------------------------------------
Next == \/ AskToggle \/ CancelToggle \/ ConfirmToggle
        \/ EnqueueCollection \/ DeletePending \/ PurgeRecognitionData
        \/ Claim \/ Look \/ AssignToGroups \/ StoreCrops \/ PersistAndAssign \/ CountCrops
        \/ Restart \/ Copied \/ DeleteFile
Spec == Init /\ [][Next]_vars

----------------------------------------------------------------------------
AtRest == Idle /\ srv.op = NoOp

\* Storing, purging and deleting crops keep the drive, the rows and the user's
\* storage counter in step, unless a crash or a failed write fell between two
\* of them.
CropsAccounted == AtRest /\ ~srv.lost => /\ srv.objs = srv.dets
                                         /\ srv.counted = Cardinality(srv.dets)
\* The faces of a file are looked for once, whichever collection comes first,
\* unless both collections' jobs ran at the same time.
OneAnalysis == Cardinality(srv.dets) <= 1 \/ srv.raced
\* A job counted as done has its file's faces in the collection's groups,
\* whatever another collection that shows the file purged.
IndexedWhenDone == \A c \in Colls : srv.job[c] = "done" => \E i \in srv.dets : c \in srv.in[i]
\* "Enabling scans the collection and enqueues jobs for every not-yet-indexed media file"
\* The code does not keep this (README, Disagreements).
EnabledIsQueued == AtRest => \A c \in srv.has : srv.on[c] => srv.job[c] \notin {"none", "skipped"}
=============================================================================
