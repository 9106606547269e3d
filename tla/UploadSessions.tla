--------------------------- MODULE UploadSessions ---------------------------
(* A file sent in chunks, on the server: the session in memory, a goroutine  *)
(* per chunk that encrypts and stores it as a part of a multipart upload,    *)
(* the completion, and the hourly sweep.  Requests arrive in any order, are  *)
(* sent again when their answer was lost, and outlive what they began with.  *)
EXTENDS Integers, FiniteSets

CONSTANTS Chunks,               \* of the file
          MaxSends,             \* chunk requests
          MaxCompletes,         \* completion requests
          MaxFaults             \* calls that fail, the end of the process among them

Sends == 1..MaxSends
Completes == 1..MaxCompletes
VARIABLES ui,                   \* what the client has been told by each completion
          srv                   \* session, goroutines, multipart upload, object, row and counter
vars == <<ui, srv>>

NoParts == [c \in Chunks |-> 0]
Unsent == [chunk |-> "none", st |-> "none", under |-> "none"]
\* `stored`: the session is in the store; `key`: its copy of the user's key;
\* `parts`: what the goroutines recorded, `part`: what MinIO holds, by the request that
\* sent it; `early`: a completion did not wait for a chunk it had counted.
Init ==
  /\ ui = [k \in Completes |-> "none"]
  /\ srv = [stored |-> FALSE, key |-> "none", dispatched |-> {}, parts |-> NoParts, partErr |-> FALSE,
            send |-> [r \in Sends |-> Unsent], fin |-> [k \in Completes |-> "none"],
            upload |-> "none", part |-> NoParts, object |-> NoParts, row |-> FALSE, used |-> 0,
            deleting |-> FALSE, sweep |-> "none", aged |-> FALSE,
            faults |-> 0, abortFailed |-> FALSE, early |-> FALSE]
MayFail == srv.faults < MaxFaults
Fault(s) == [s EXCEPT !.faults = @ + 1]

----------------------------------------------------------------------------
(* The session is opened; nobody knows its id before it is answered.        *)

Stored == [srv EXCEPT !.stored = TRUE, !.key = "user", !.upload = "open"]
InitUpload == /\ srv.upload = "none" /\ srv' = Stored /\ UNCHANGED ui

----------------------------------------------------------------------------
(* A chunk: found, read from the network, dispatched, encrypted, stored.    *)

SendAt(s, r, st) == [s EXCEPT !.send[r].st = st]
UploadChunk(r, c) ==
  /\ srv.stored /\ srv.send[r].st = "none" /\ \A q \in Sends : q < r => srv.send[q].st # "none"
  /\ srv' = [srv EXCEPT !.send[r] = [Unsent EXCEPT !.chunk = c, !.st = "reading"]] /\ UNCHANGED ui
\* The connection breaks; the client sends the chunk again.
ReadFails(r) == /\ srv.send[r].st = "reading" /\ MayFail /\ srv' = Fault(SendAt(srv, r, "over"))
                /\ UNCHANGED ui
\* The index counts as dispatched a moment before the wait group knows of it.
DispatchChunk(r) == /\ srv.send[r].st = "reading"
                    /\ srv' = [SendAt(srv, r, "dispatched") EXCEPT !.dispatched = @ \cup {srv.send[r].chunk}]
                    /\ UNCHANGED ui
Launch(r) == srv.send[r].st = "dispatched" /\ srv' = SendAt(srv, r, "encrypt") /\ UNCHANGED ui
Encrypt(r) == /\ srv.send[r].st = "encrypt"
              /\ srv' = [SendAt(srv, r, "upload") EXCEPT !.send[r].under = srv.key] /\ UNCHANGED ui
UploadPart(r) ==
  /\ srv.send[r].st = "upload" /\ UNCHANGED ui
  /\ \/ srv.upload = "open" /\ srv' = [SendAt(srv, r, "record") EXCEPT !.part[srv.send[r].chunk] = r]
     \/ srv.upload # "open" /\ srv' = SendAt(srv, r, "error")
     \/ MayFail /\ srv' = Fault(SendAt(srv, r, "error"))
RecordPart(r) ==
  /\ UNCHANGED ui
  /\ \/ srv.send[r].st = "record" /\ srv' = [SendAt(srv, r, "over") EXCEPT !.parts[srv.send[r].chunk] = r]
     \/ srv.send[r].st = "error" /\ srv' = [SendAt(srv, r, "over") EXCEPT !.partErr = TRUE]

----------------------------------------------------------------------------
(* The completion.                                                          *)

Busy == {r \in Sends : srv.send[r].st \in {"encrypt", "upload", "record", "error"}}
FinAt(s, k, st) == [s EXCEPT !.fin[k] = st]
\* A bug: off by one.
FewDispatched == Cardinality(srv.dispatched) + 1 >= Cardinality(Chunks)
AllDispatched == srv.dispatched = Chunks
CompleteUpload(k) == /\ srv.stored /\ AllDispatched /\ srv.fin[k] = "none"
                     /\ \A j \in Completes : j < k => srv.fin[j] # "none"
                     /\ srv' = FinAt(srv, k, "wait") /\ UNCHANGED ui
\* Every way out zeroes the key; the session stays in the store unless the file was saved.
Answered(s, k, told) == /\ srv' = [FinAt(s, k, "over") EXCEPT !.key = "zero"]
                        /\ ui' = [ui EXCEPT ![k] = told]
Aborted(s) == IF s.upload = "open" THEN [s EXCEPT !.upload = "gone", !.part = NoParts] ELSE s
\* An abort that fails is not looked at.
AbortThen(s, k) ==
  \/ Answered(Aborted(s), k, "failed")
  \/ s.faults < MaxFaults /\ s.upload = "open" /\ Answered([Fault(s) EXCEPT !.abortFailed = TRUE], k, "failed")
\* A bug: what the failed completion may have left is removed with the upload.
RemovedToo(s) == [s EXCEPT !.object = NoParts]
Unfinished(s) == s
NotLaunched == \E r \in Sends : srv.send[r].st = "dispatched"
Wait(k) == /\ srv.fin[k] = "wait" /\ Busy = {}
           /\ \/ srv.partErr /\ AbortThen(srv, k)
              \/ /\ ~srv.partErr /\ UNCHANGED ui
                 /\ srv' = [FinAt(srv, k, "complete") EXCEPT !.early = @ \/ NotLaunched]
\* MinIO completes an open upload whose parts are the ones it holds; the slice
\* of recorded parts is read as it is now.
Matches == \A c \in Chunks : srv.parts[c] # 0 /\ srv.parts[c] = srv.part[c]
Completed == [srv EXCEPT !.upload = "done", !.object = srv.part, !.part = NoParts]
CompleteMultipart(k) ==
  /\ srv.fin[k] = "complete"
  /\ \/ srv.upload = "open" /\ Matches /\ srv' = FinAt(Completed, k, "save") /\ UNCHANGED ui
     \/ ~(srv.upload = "open" /\ Matches) /\ AbortThen(Unfinished(srv), k)
     \/ MayFail /\ AbortThen(Fault(srv), k)
     \/ MayFail /\ srv.upload = "open" /\ Matches /\ AbortThen(Fault(Completed), k)
\* The row: saved, refused for its name, or an error that may hide a commit; then the object goes.
Removed(s) == [s EXCEPT !.object = NoParts]
SaveRow(k) ==
  /\ srv.fin[k] = "save"
  /\ \/ srv' = [FinAt(srv, k, "count") EXCEPT !.row = TRUE] /\ UNCHANGED ui
     \/ Answered(Removed(srv), k, "taken")
     \/ MayFail /\ Answered(Fault(Removed(srv)), k, "failed")
     \/ MayFail /\ Answered([Fault(Removed(srv)) EXCEPT !.row = TRUE], k, "failed")
AddStorageUsed(k) ==
  /\ srv.fin[k] = "count"
  /\ \/ Answered([srv EXCEPT !.used = @ + 1, !.deleting = TRUE], k, "created")
     \/ MayFail /\ Answered(Fault(srv), k, "failed")
DeleteSession == /\ srv.deleting /\ UNCHANGED ui
                 /\ srv' = [srv EXCEPT !.deleting = FALSE, !.stored = FALSE, !.key = "zero"]

----------------------------------------------------------------------------
(* The sweep, which looks at the age of the session and not at its use, and *)
(* the end of the process.                                                  *)

Age == srv.stored /\ ~srv.aged /\ srv' = [srv EXCEPT !.aged = TRUE] /\ UNCHANGED ui
SweepTake == /\ srv.stored /\ srv.aged /\ srv.sweep = "none"
             /\ srv' = [srv EXCEPT !.stored = FALSE, !.sweep = "abort"] /\ UNCHANGED ui
SweepAbort == /\ srv.sweep = "abort" /\ UNCHANGED ui
              /\ \/ srv' = [Aborted(srv) EXCEPT !.sweep = "zero"]
                 \/ /\ MayFail /\ srv.upload = "open"
                    /\ srv' = [Fault(srv) EXCEPT !.sweep = "zero", !.abortFailed = TRUE]
SweepZero == srv.sweep = "zero" /\ srv' = [srv EXCEPT !.sweep = "over", !.key = "zero"] /\ UNCHANGED ui
Restart == /\ MayFail /\ srv.stored /\ UNCHANGED ui
           /\ srv' = [Fault(srv) EXCEPT !.stored = FALSE, !.deleting = FALSE, !.key = "zero", !.sweep = "over",
                        !.send = [r \in Sends |-> [@[r] EXCEPT !.st = "over"]],
                        !.fin = [k \in Completes |-> "over"]]

Chunk == \E r \in Sends : \/ \E c \in Chunks : UploadChunk(r, c)
                          \/ ReadFails(r) \/ DispatchChunk(r) \/ Launch(r)
                          \/ Encrypt(r) \/ UploadPart(r) \/ RecordPart(r)
Finalize == \E k \in Completes : \/ CompleteUpload(k) \/ Wait(k) \/ CompleteMultipart(k)
                                 \/ SaveRow(k) \/ AddStorageUsed(k)
Sweep == Age \/ SweepTake \/ SweepAbort \/ SweepZero
Next == InitUpload \/ Chunk \/ Finalize \/ DeleteSession \/ Sweep \/ Restart
Spec == Init /\ [][Next]_vars

----------------------------------------------------------------------------
(* Properties.                                                              *)

\* A file that was saved holds each of its chunks, encrypted under the user's
\* key, although sweep and completion zero that key while requests still use
\* it: an upload is closed before its key is, unless closing it failed.
StoredIsWhole ==
  srv.row /\ srv.object # NoParts /\ ~srv.abortFailed =>
    \A c \in Chunks : LET r == srv.object[c] IN
      r \in Sends /\ srv.send[r].chunk = c /\ srv.send[r].under = "user"
\* A file whose completion was acknowledged is stored and counted once,
\* whatever a second completion, a late chunk or the sweep does then.
AcknowledgedIsStored ==
  (\E k \in Completes : ui[k] = "created") => srv.row /\ srv.object # NoParts /\ srv.used = 1
\* A completion fails only for a reason: a call failed, the session was swept,
\* completed already, or waited for while a chunk had no goroutine yet or two.
Twice == \E q, r \in Sends : q # r /\ srv.send[q].chunk = srv.send[r].chunk /\ srv.send[r].st # "none"
                             /\ srv.send[q].st # "none"
FailsForReason == \A k \in Completes : ui[k] = "failed" =>
  srv.faults > 0 \/ srv.sweep # "none" \/ srv.early \/ Twice \/ \E j \in Completes \ {k} : srv.fin[j] # "none"
\* The handler's comment: chunks may be retried, duplicates overwrite safely.
\* The code does not keep this (README, Disagreements).
DuplicatesAreSafe == \A k \in Completes : ui[k] = "failed" =>
  srv.faults > 0 \/ srv.sweep # "none" \/ srv.early \/ \E j \in Completes \ {k} : srv.fin[j] # "none"
=============================================================================
