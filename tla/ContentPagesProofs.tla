------------------------- MODULE ContentPagesProofs -------------------------
(***************************************************************************)
(* What is proved of the pages on which content moves: uploads in chunks   *)
(* and from the page, recognition groups and jobs, selections of media,    *)
(* retrievals, and the browser of folders and files.  As for               *)
(* AccountPagesProofs, each page has an inductive invariant of its own,    *)
(* and a step is a step of the page shown.                                 *)
(*                                                                         *)
(* Sessions: a key is zeroed under requests that still use it, but the     *)
(* multipart upload is closed before.  As long as MinIO takes parts (and   *)
(* no abort has failed) the key is the user's, so whatever was encrypted   *)
(* under zeros is refused.                                                 *)
(***************************************************************************)
EXTENDS ClientPages, TLAPS, WellFoundedInduction, FiniteSetTheorems

(* A set of numbers has a least one.                                       *)
LEMMA Least == ASSUME NEW S, S \subseteq Nat, S # {}
               PROVE  \E i \in S : \A j \in S : i <= j
<1>1. PICK i \in S : \A j \in S : ~(<<j, i>> \in OpToRel(<, Nat))
  BY NatLessThanWellFounded, WFMin
<1>2. \A j \in S : ~(j < i)
  BY <1>1 DEF OpToRel
<1>. QED
  BY <1>2


----------------------------------------------------------------------------
(* Uploads in chunks.                                                      *)

SessionBounds == MaxSends \in Nat /\ Chunks # {}

(* Types, as far as the argument needs them.                               *)
SessionFields == {"stored", "key", "dispatched", "parts", "partErr", "send", "fin", "upload", "part", "object",
           "row", "used", "deleting", "sweep", "aged", "faults", "abortFailed", "early"}
SessionType ==
  /\ SessionFields \subseteq DOMAIN srv
  /\ srv.dispatched \subseteq Chunks /\ srv.used \in Nat /\ srv.faults \in Nat
  /\ DOMAIN srv.parts = Chunks /\ DOMAIN srv.part = Chunks /\ srv.upload \in {"none", "open", "gone", "done"}
  /\ DOMAIN srv.fin = Sessions!Completes /\ DOMAIN ui = Sessions!Completes
  /\ srv.abortFailed \in BOOLEAN /\ srv.early \in BOOLEAN
  /\ DOMAIN srv.send = Sessions!Sends
  /\ \A r \in Sessions!Sends : {"chunk", "st", "under"} \subseteq DOMAIN srv.send[r]
  /\ \A r \in Sessions!Sends : srv.send[r].st # "none" =>
       srv.send[r].chunk \in Chunks \/ (srv.send[r].st = "over" /\ srv.faults > 0)

(* Before the session is opened nothing is; it is deleted once it is done. *)
SessionOpened ==
  /\ srv.upload = "none" =>
       /\ \A r \in Sessions!Sends : srv.send[r].st = "none"
       /\ \A k \in Sessions!Completes : srv.fin[k] = "none"
       /\ srv.sweep = "none" /\ ~srv.stored
  /\ srv.deleting => srv.upload = "done"

(* While MinIO takes parts the key is the user's, unless an abort failed   *)
(* or the process has ended, after which nobody uses it.                   *)
Restarted == /\ ~srv.stored /\ srv.sweep = "over"
             /\ \A r \in Sessions!Sends : srv.send[r].st = "over"
             /\ \A k \in Sessions!Completes : srv.fin[k] = "over"
KeyKept ==
  /\ srv.upload = "open" /\ ~srv.abortFailed => srv.key = "user" \/ Restarted
  /\ srv.sweep = "zero" => srv.upload # "open" \/ srv.abortFailed
  /\ \A r \in Sessions!Sends : srv.send[r].st = "upload" /\ srv.upload = "open" /\ ~srv.abortFailed =>
       srv.send[r].under = "user"

(* Parts, and with them the object, are of their chunks, under that key.   *)
FromChunk(r, c) == r \in Sessions!Sends /\ srv.send[r].chunk = c /\ srv.send[r].under = "user"
                   /\ srv.send[r].st \in {"record", "over"}
PartsWhole ==
  ~srv.abortFailed => \A c \in Chunks : /\ srv.part[c] # 0 => FromChunk(srv.part[c], c)
                                        /\ srv.object[c] # 0 => FromChunk(srv.object[c], c)
ObjectWhole == srv.object # Sessions!NoParts => \A c \in Chunks : srv.object[c] # 0

(* One completion got the object, and it alone saves and counts it.        *)
Saving(k) == srv.fin[k] \in {"save", "count"}
OneSaves ==
  /\ \A k \in Sessions!Completes : Saving(k) => srv.upload = "done" /\ srv.object # Sessions!NoParts
  /\ \A k \in Sessions!Completes : srv.fin[k] = "count" => srv.row
  /\ \A j, k \in Sessions!Completes : Saving(j) /\ Saving(k) => j = k
Created ==
  /\ srv.used # 0 => \E k \in Sessions!Completes : ui[k] = "created"
  /\ \A k \in Sessions!Completes : ui[k] = "created" =>
       /\ srv.fin[k] = "over" /\ srv.row /\ srv.object # Sessions!NoParts /\ srv.used = 1
       /\ srv.upload = "done" /\ \A j \in Sessions!Completes : ~Saving(j)

(* An upload was closed, and a chunk failed, for a reason.                 *)
UploadClosed == srv.upload \in {"gone", "done"}
Reasons ==
  /\ UploadClosed => srv.faults > 0 \/ srv.sweep # "none"
                 \/ \E k \in Sessions!Completes : srv.fin[k] \in {"save", "count", "over"}
  /\ srv.partErr => srv.faults > 0 \/ UploadClosed
  /\ \A r \in Sessions!Sends : srv.send[r].st = "error" => srv.faults > 0 \/ UploadClosed

(* A completion that waited finds a finished request for every chunk ...   *)
Past(r) == srv.send[r].st \in {"dispatched", "encrypt", "upload", "record", "error", "over"}
Waited ==
  /\ \A c \in srv.dispatched : \E r \in Sessions!Sends : srv.send[r].chunk = c /\ Past(r)
  /\ \A k \in Sessions!Completes : srv.fin[k] = "wait" => srv.dispatched = Chunks
  /\ \A k \in Sessions!Completes : srv.fin[k] = "complete" /\ ~srv.early =>
       \A c \in Chunks : \E r \in Sessions!Sends : srv.send[r].chunk = c /\ srv.send[r].st = "over"
(* ... and one that nobody repeated is the part held and the part recorded. *)
Alone ==
  srv.upload = "open" /\ ~Sessions!Twice => \A r \in Sessions!Sends :
    LET c == srv.send[r].chunk IN
    /\ srv.send[r].st = "record" => srv.part[c] = r
    /\ srv.send[r].st = "over" /\ srv.faults = 0 => srv.part[c] = r /\ srv.parts[c] = r

SessionInv == /\ SessionBounds /\ SessionType /\ SessionOpened /\ KeyKept /\ PartsWhole /\ ObjectWhole
              /\ OneSaves /\ Created /\ Reasons /\ Waited /\ Alone /\ Sessions!FailsForReason

HasReason(k) == srv.faults > 0 \/ srv.sweep # "none" \/ srv.early \/ Sessions!Twice
                  \/ \E j \in Sessions!Completes \ {k} : srv.fin[j] # "none"

----------------------------------------------------------------------------
(* The invariant holds at first ...                                        *)
LEMMA SessionInitially == SessionBounds /\ Sessions!Init => SessionInv
BY DEF Sessions!Init, Sessions!Unsent, Sessions!NoParts, SessionInv, SessionBounds, SessionFields,
   SessionType, SessionOpened, KeyKept, Restarted,
       PartsWhole, FromChunk, ObjectWhole, OneSaves, Saving, Created, Reasons, UploadClosed, Waited, Past,
       Alone, Sessions!FailsForReason

(* A chunk that was sent once and whose goroutine is over is the part that *)
(* MinIO holds, so a completion that waited finds every part.              *)
LEMMA ReasonToFail ==
  ASSUME SessionInv, NEW k \in Sessions!Completes,
         \/ srv.fin[k] = "wait" /\ srv.partErr
         \/ srv.fin[k] = "complete" /\ ~(srv.upload = "open" /\ Sessions!Matches)
  PROVE  HasReason(k)
<1> SUFFICES ASSUME ~HasReason(k) PROVE FALSE
  OBVIOUS
<1>1. ~UploadClosed
  BY DEF SessionInv, SessionType, Reasons, UploadClosed, HasReason
<1>2. srv.upload = "open"
  BY <1>1 DEF SessionInv, SessionType, SessionOpened, UploadClosed
<1>3. srv.fin[k] = "complete" /\ ~Sessions!Matches
  BY <1>1, <1>2 DEF SessionInv, SessionType, Reasons, HasReason
<1>4. ASSUME NEW c \in Chunks PROVE srv.parts[c] # 0 /\ srv.parts[c] = srv.part[c]
  <2>1. PICK r \in Sessions!Sends : srv.send[r].chunk = c /\ srv.send[r].st = "over"
    BY <1>3 DEF SessionInv, Waited, HasReason
  <2>2. srv.part[c] = r /\ srv.parts[c] = r
    BY <1>2, <2>1 DEF SessionInv, SessionType, Alone, HasReason
  <2>. QED
    BY <2>2 DEF Sessions!Sends, SessionInv, SessionBounds
<1>. QED
  BY <1>3, <1>4 DEF Sessions!Matches

(* Whichever way the abort goes, nothing of a finished file is touched.    *)
LEMMA AbortStep ==
  ASSUME SessionInv, NEW k \in Sessions!Completes, srv.fin[k] \in {"wait", "complete"},
         \/ HasReason(k) /\ Sessions!AbortThen(srv, k)
         \/ Sessions!AbortThen(Sessions!Fault(srv), k)
  PROVE  SessionInv'
<1> USE DEF SessionInv, SessionBounds, SessionFields, SessionType, SessionOpened, KeyKept,
   Restarted, PartsWhole, FromChunk,
            ObjectWhole, OneSaves, Saving, Created, Reasons, UploadClosed, Waited, Past, Alone,
            Sessions!FailsForReason, Sessions!Twice, Sessions!NoParts, HasReason, Sessions!Answered, Sessions!FinAt, Sessions!Fault
<1>1. CASE HasReason(k) /\ srv.upload = "open" /\
          Sessions!Answered([srv EXCEPT !.upload = "gone", !.part = Sessions!NoParts], k, "failed")
  BY <1>1
<1>2. CASE HasReason(k) /\ srv.upload # "open" /\ Sessions!Answered(srv, k, "failed")
  BY <1>2
<1>3. CASE srv.upload = "open" /\
          Sessions!Answered([Sessions!Fault(srv) EXCEPT !.upload = "gone", !.part = Sessions!NoParts], k, "failed")
  BY <1>3
<1>4. CASE srv.upload # "open" /\ Sessions!Answered(Sessions!Fault(srv), k, "failed")
  BY <1>4
<1>5. CASE Sessions!Answered([Sessions!Fault(srv) EXCEPT !.abortFailed = TRUE], k, "failed")
  BY <1>5
<1>6. CASE Sessions!Answered([Sessions!Fault(Sessions!Fault(srv)) EXCEPT !.abortFailed = TRUE], k, "failed")
  BY <1>6
<1>7. Sessions!Fault(srv).upload = srv.upload
  OBVIOUS
<1>. QED
  BY <1>1, <1>2, <1>3, <1>4, <1>5, <1>6, <1>7 DEF Sessions!AbortThen, Sessions!Aborted

----------------------------------------------------------------------------
(* Dispatching: the index counts from now on, and its request is past reading. *)
LEMMA DispatchStep ==
  ASSUME SessionInv, NEW r \in Sessions!Sends, Sessions!DispatchChunk(r)
  PROVE  SessionType' /\ Waited'
<1>1. srv.send[r].st = "reading" /\ UNCHANGED ui
  BY DEF Sessions!DispatchChunk
<1>2. srv.send[r].chunk \in Chunks
  BY <1>1 DEF SessionInv, SessionType
<1>3. srv' = [srv EXCEPT !.send[r].st = "dispatched", !.dispatched = @ \cup {srv.send[r].chunk}]
  BY DEF Sessions!DispatchChunk, Sessions!SendAt, SessionInv, SessionType, SessionFields
<1>4. SessionType'
  BY <1>1, <1>2, <1>3 DEF SessionInv, SessionType, SessionFields
<1>5. /\ srv'.dispatched = srv.dispatched \cup {srv.send[r].chunk}
      /\ srv'.fin = srv.fin /\ srv'.early = srv.early
      /\ srv'.send = [srv.send EXCEPT ![r].st = "dispatched"]
  BY <1>3 DEF SessionInv, SessionType, SessionFields
<1>6. /\ srv'.send[r].chunk = srv.send[r].chunk /\ srv'.send[r].st = "dispatched"
      /\ \A q \in Sessions!Sends : q # r => srv'.send[q] = srv.send[q]
  BY <1>5 DEF SessionInv, SessionType
<1>7. ASSUME NEW c \in srv'.dispatched PROVE \E q \in Sessions!Sends : srv'.send[q].chunk = c /\ Past(q)'
  <2>1. CASE c = srv.send[r].chunk
    BY <1>6, <2>1 DEF Past
  <2>2. CASE c \in srv.dispatched
    BY <1>1, <1>6, <2>2 DEF SessionInv, Waited, Past
  <2>. QED
    BY <1>5, <2>1, <2>2
<1>8. \A k \in Sessions!Completes : srv'.fin[k] = "wait" => srv'.dispatched = Chunks
  BY <1>2, <1>5 DEF SessionInv, Waited
<1>9. \A k \in Sessions!Completes : srv'.fin[k] = "complete" /\ ~srv'.early =>
        \A c \in Chunks : \E q \in Sessions!Sends : srv'.send[q].chunk = c /\ srv'.send[q].st = "over"
  BY <1>1, <1>5, <1>6 DEF SessionInv, Waited
<1>. QED
  BY <1>4, <1>7, <1>8, <1>9 DEF Waited

(* No other request of the chunk has written the part or its record.       *)
LEMMA WrittenAlone ==
  ASSUME SessionInv, NEW r \in Sessions!Sends, srv.send[r].st \in {"upload", "record"}, srv.upload = "open",
         NEW to \in {"record", "over"}, srv'.send = [srv.send EXCEPT ![r].st = to],
         srv'.part[srv.send[r].chunk] = r, to = "over" => srv'.parts[srv.send[r].chunk] = r,
         \A c \in Chunks \ {srv.send[r].chunk} : srv'.part[c] = srv.part[c] /\ srv'.parts[c] = srv.parts[c],
         srv'.faults = srv.faults
  PROVE  Alone'
<1> SUFFICES ASSUME ~Sessions!Twice', NEW q \in Sessions!Sends
             PROVE  LET c == srv'.send[q].chunk IN
                    /\ srv'.send[q].st = "record" => srv'.part[c] = q
                    /\ srv'.send[q].st = "over" /\ srv'.faults = 0 => srv'.part[c] = q /\ srv'.parts[c] = q
  BY DEF Alone
<1>1. /\ srv'.send[r].chunk = srv.send[r].chunk /\ srv'.send[r].st = to
      /\ \A p \in Sessions!Sends : p # r => srv'.send[p] = srv.send[p]
  BY DEF SessionInv, SessionType
<1>2. ~Sessions!Twice
  BY <1>1 DEF Sessions!Twice
<1>3. CASE q = r
  BY <1>1, <1>3
<1>4. CASE q # r /\ srv.send[q].st \in {"record", "over"}
  <2>1. srv.send[q].chunk # srv.send[r].chunk
    BY <1>2, <1>4 DEF Sessions!Twice
  <2>2. srv.send[q].st = "record" \/ srv.faults = 0 => srv.send[q].chunk \in Chunks \ {srv.send[r].chunk}
    BY <1>4, <2>1 DEF SessionInv, SessionType
  <2>3. srv'.send[q] = srv.send[q]
    BY <1>1, <1>4
  <2>. QED
    BY <1>2, <1>4, <2>2, <2>3 DEF SessionInv, Alone
<1>. QED
  BY <1>1, <1>3, <1>4

(* The end of the process ends every request and leaves what is stored.    *)
LEMMA RestartStep == ASSUME SessionInv, Sessions!Restart PROVE SessionInv'
<1>1. srv' = [Sessions!Fault(srv) EXCEPT !.stored = FALSE, !.deleting = FALSE, !.key = "zero", !.sweep = "over",
                !.send = [r \in Sessions!Sends |-> [srv.send[r] EXCEPT !.st = "over"]],
                !.fin = [k \in Sessions!Completes |-> "over"]]
  BY DEF Sessions!Restart, Sessions!Fault, SessionInv, SessionType, SessionFields
<1>2. /\ srv'.send = [r \in Sessions!Sends |-> [srv.send[r] EXCEPT !.st = "over"]]
      /\ srv'.fin = [k \in Sessions!Completes |-> "over"] /\ SessionFields \subseteq DOMAIN srv'
      /\ srv'.faults = srv.faults + 1 /\ srv'.sweep = "over" /\ ~srv'.stored /\ ~srv'.deleting
      /\ srv'.dispatched = srv.dispatched /\ srv'.parts = srv.parts /\ srv'.part = srv.part
      /\ srv'.object = srv.object /\ srv'.upload = srv.upload /\ srv'.row = srv.row /\ srv'.used = srv.used
      /\ srv'.abortFailed = srv.abortFailed /\ srv'.early = srv.early /\ srv'.partErr = srv.partErr
  BY <1>1 DEF Sessions!Fault, SessionInv, SessionType, SessionFields
<1>3. ui' = ui /\ srv.stored
  BY DEF Sessions!Restart
<1>4. \A r \in Sessions!Sends : /\ srv'.send[r].st = "over" /\ srv'.send[r].chunk = srv.send[r].chunk
                                /\ srv'.send[r].under = srv.send[r].under
                                /\ {"chunk", "st", "under"} \subseteq DOMAIN srv'.send[r]
  BY <1>2 DEF SessionInv, SessionType
<1>5. \A k \in Sessions!Completes : srv'.fin[k] = "over"
  BY <1>2
<1>6. SessionType' /\ SessionOpened' /\ KeyKept' /\ Alone'
  BY <1>2, <1>3, <1>4, <1>5 DEF SessionInv, SessionType, SessionOpened, KeyKept, Restarted, Alone
<1>7. PartsWhole' /\ ObjectWhole'
  BY <1>2, <1>4 DEF SessionInv, PartsWhole, FromChunk, ObjectWhole, Sessions!NoParts
<1>8. Waited'
  BY <1>2, <1>4, <1>5 DEF SessionInv, Waited, Past
<1>9. OneSaves' /\ Created' /\ Reasons' /\ Sessions!FailsForReason'
  BY <1>2, <1>3, <1>5 DEF SessionInv, SessionType, OneSaves, Saving, Created, Reasons, UploadClosed,
     Sessions!FailsForReason
<1>. QED
  BY <1>6, <1>7, <1>8, <1>9 DEF SessionInv, SessionBounds

(* The session is opened.                                                  *)
LEMMA InitStep == SessionInv /\ Sessions!InitUpload => SessionInv'
BY DEF Sessions!InitUpload, Sessions!Stored, SessionInv, SessionBounds, SessionFields, SessionType,
   SessionOpened, KeyKept, Restarted, PartsWhole,
       FromChunk, ObjectWhole, OneSaves, Saving, Created, Reasons, UploadClosed, Waited, Past, Alone,
       Sessions!FailsForReason, Sessions!Twice, Sessions!NoParts

(* A chunk request, and the goroutine that stores it.                      *)
LEMMA ChunkStep == ASSUME SessionInv, NEW r \in Sessions!Sends PROVE
  /\ (\E c \in Chunks : Sessions!UploadChunk(r, c)) => SessionInv'
  /\ Sessions!ReadFails(r) \/ Sessions!DispatchChunk(r) \/ Sessions!Launch(r) \/ Sessions!Encrypt(r) =>
         SessionInv'
  /\ Sessions!UploadPart(r) \/ Sessions!RecordPart(r) => SessionInv'
<1> USE DEF SessionInv, SessionBounds, SessionFields, SessionType, SessionOpened, KeyKept,
   Restarted, PartsWhole, FromChunk,
            ObjectWhole, OneSaves, Saving, Created, Reasons, UploadClosed, Waited, Past, Alone,
            Sessions!FailsForReason, Sessions!Twice, Sessions!NoParts, Sessions!SendAt
<1>1. ASSUME NEW c \in Chunks, Sessions!UploadChunk(r, c) PROVE SessionInv'
  BY <1>1 DEF Sessions!UploadChunk, Sessions!Unsent
<1>2. CASE Sessions!ReadFails(r)
  <2>1. SessionType' /\ SessionOpened' /\ KeyKept' /\ PartsWhole' /\ ObjectWhole' /\ OneSaves' /\ Created'
    BY <1>2 DEF Sessions!ReadFails, Sessions!Fault
  <2>2. Reasons' /\ Waited' /\ Alone' /\ Sessions!FailsForReason'
    BY <1>2 DEF Sessions!ReadFails, Sessions!Fault
  <2>. QED
    BY <2>1, <2>2
<1>3. CASE Sessions!DispatchChunk(r)
  <2>1. SessionType' /\ Waited'
    BY ONLY SessionInv, <1>3, DispatchStep
  <2>2. SessionOpened' /\ KeyKept' /\ PartsWhole' /\ ObjectWhole' /\ OneSaves' /\ Created'
    BY <1>3 DEF Sessions!DispatchChunk
  <2>3. Reasons' /\ Alone' /\ Sessions!FailsForReason'
    BY <1>3 DEF Sessions!DispatchChunk
  <2>. QED
    BY <2>1, <2>2, <2>3
<1>4. CASE Sessions!Launch(r)
  BY <1>4 DEF Sessions!Launch
<1>5. CASE Sessions!Encrypt(r)
  <2>1. SessionType' /\ SessionOpened' /\ KeyKept' /\ PartsWhole' /\ ObjectWhole' /\ OneSaves' /\ Created'
    BY <1>5 DEF Sessions!Encrypt
  <2>2. Reasons' /\ Waited'
    BY <1>5 DEF Sessions!Encrypt
  <2>3. Alone' /\ Sessions!FailsForReason'
    BY <1>5 DEF Sessions!Encrypt
  <2>. QED
    BY <2>1, <2>2, <2>3
<1>6. CASE Sessions!UploadPart(r)
  <2>1. CASE /\ srv.send[r].st = "upload" /\ srv.upload = "open" /\ UNCHANGED ui
             /\ srv' = [Sessions!SendAt(srv, r, "record") EXCEPT !.part[srv.send[r].chunk] = r]
    <3>1. Alone'
      BY <2>1, WrittenAlone, SMTT(30)
    <3>2. SessionType' /\ SessionOpened' /\ KeyKept' /\ PartsWhole' /\ ObjectWhole' /\ OneSaves' /\ Created'
      BY <2>1
    <3>3. Reasons' /\ Waited' /\ Sessions!FailsForReason'
      BY <2>1
    <3>. QED
      BY <3>1, <3>2, <3>3
  <2>2. CASE /\ srv.send[r].st = "upload" /\ srv.upload # "open" /\ UNCHANGED ui
             /\ srv' = Sessions!SendAt(srv, r, "error")
    BY <2>2
  <2>3. CASE srv.send[r].st = "upload" /\ UNCHANGED ui /\
            srv' = Sessions!Fault(Sessions!SendAt(srv, r, "error"))
    <3>1. SessionType' /\ SessionOpened' /\ KeyKept' /\ PartsWhole' /\ ObjectWhole' /\ OneSaves' /\ Created'
      BY <2>3 DEF Sessions!Fault
    <3>2. Reasons' /\ Waited' /\ Alone' /\ Sessions!FailsForReason'
      BY <2>3 DEF Sessions!Fault
    <3>. QED
      BY <3>1, <3>2
  <2>. QED
    BY <1>6, <2>1, <2>2, <2>3 DEF Sessions!UploadPart
<1>7. CASE Sessions!RecordPart(r)
  <2>1. CASE /\ srv.send[r].st = "record" /\ UNCHANGED ui
             /\ srv' = [Sessions!SendAt(srv, r, "over") EXCEPT !.parts[srv.send[r].chunk] = r]
    <3>1. Alone'
      BY <2>1, WrittenAlone, SMTT(30)
    <3>2. SessionType' /\ SessionOpened' /\ KeyKept' /\ PartsWhole' /\ ObjectWhole' /\ OneSaves' /\ Created'
      BY <2>1
    <3>3. Reasons' /\ Waited' /\ Sessions!FailsForReason'
      BY <2>1
    <3>. QED
      BY <3>1, <3>2, <3>3
  <2>2. CASE /\ srv.send[r].st = "error" /\ UNCHANGED ui
             /\ srv' = [Sessions!SendAt(srv, r, "over") EXCEPT !.partErr = TRUE]
    <3>1. SessionType' /\ SessionOpened' /\ KeyKept' /\ PartsWhole' /\ ObjectWhole' /\ OneSaves' /\ Created'
      BY <2>2
    <3>2. Reasons' /\ Waited' /\ Alone' /\ Sessions!FailsForReason'
      BY <2>2
    <3>. QED
      BY <3>1, <3>2
  <2>. QED
    BY <1>7, <2>1, <2>2 DEF Sessions!RecordPart
<1>. QED
  BY <1>1, <1>2, <1>3, <1>4, <1>5, <1>6, <1>7

(* A completion.                                                           *)
LEMMA FinalizeStep == ASSUME SessionInv, NEW k \in Sessions!Completes PROVE
  /\ Sessions!CompleteUpload(k) \/ Sessions!Wait(k) \/ Sessions!CompleteMultipart(k) => SessionInv'
  /\ Sessions!SaveRow(k) \/ Sessions!AddStorageUsed(k) => SessionInv'
<1> USE DEF SessionInv, SessionBounds, SessionFields, SessionType, SessionOpened, KeyKept,
   Restarted, PartsWhole, FromChunk,
            ObjectWhole, OneSaves, Saving, Created, Reasons, UploadClosed, Waited, Past, Alone,
            Sessions!FailsForReason, Sessions!Twice, Sessions!NoParts, Sessions!FinAt
<1>1. CASE Sessions!CompleteUpload(k)
  BY <1>1 DEF Sessions!CompleteUpload, Sessions!AllDispatched
<1>2. CASE Sessions!Wait(k)
  <2>1. CASE srv.partErr /\ Sessions!AbortThen(srv, k)
    BY <1>2, <2>1, ReasonToFail, AbortStep DEF Sessions!Wait
  <2>2. CASE ~srv.partErr /\ UNCHANGED ui /\
            srv' = [Sessions!FinAt(srv, k, "complete") EXCEPT !.early = @ \/ Sessions!NotLaunched]
    <3>1. Waited'
      <4>1. \A j \in Sessions!Completes : srv'.fin[j] = "wait" => srv'.dispatched = Chunks
        BY <1>2, <2>2 DEF Sessions!Wait
      <4>2. \A c \in srv'.dispatched : \E r \in Sessions!Sends : srv'.send[r].chunk = c /\ Past(r)'
        BY <1>2, <2>2 DEF Sessions!Wait
      <4>3. ASSUME ~srv'.early, NEW c \in Chunks
            PROVE  \E r \in Sessions!Sends : srv'.send[r].chunk = c /\ srv'.send[r].st = "over"
        <5>1. PICK r \in Sessions!Sends : srv.send[r].chunk = c /\ Past(r)
          BY <1>2 DEF Sessions!Wait
        <5>2. r \notin Sessions!Busy /\ ~Sessions!NotLaunched
          BY <1>2, <2>2, <4>3 DEF Sessions!Wait
        <5>3. srv.send[r].st = "over"
          BY <5>1, <5>2 DEF Sessions!Busy, Sessions!NotLaunched
        <5>. QED
          BY <2>2, <5>1, <5>3
      <4>. QED
        BY <4>1, <4>2, <4>3
    <3>2. SessionType' /\ SessionOpened' /\ KeyKept' /\ PartsWhole' /\ ObjectWhole' /\ OneSaves' /\ Created'
      BY <1>2, <2>2 DEF Sessions!Wait
    <3>3. Reasons' /\ Alone' /\ Sessions!FailsForReason'
      BY <1>2, <2>2 DEF Sessions!Wait
    <3>. QED
      BY <3>1, <3>2, <3>3
  <2>. QED
    BY <1>2, <2>1, <2>2 DEF Sessions!Wait
<1>3. CASE Sessions!CompleteMultipart(k)
  <2>0. srv.fin[k] = "complete"
    BY <1>3 DEF Sessions!CompleteMultipart
  <2>1. CASE srv.upload = "open" /\ Sessions!Matches /\
            srv' = Sessions!FinAt(Sessions!Completed, k, "save") /\ UNCHANGED ui
    BY <2>0, <2>1 DEF Sessions!Matches, Sessions!Completed
  <2>2. CASE ~(srv.upload = "open" /\ Sessions!Matches) /\ Sessions!AbortThen(srv, k)
    BY <2>0, <2>2, ReasonToFail, AbortStep
  <2>3. CASE Sessions!AbortThen(Sessions!Fault(srv), k)
    BY <2>0, <2>3, AbortStep
  <2>4. CASE srv.upload = "open" /\ Sessions!Matches /\
            Sessions!AbortThen(Sessions!Fault(Sessions!Completed), k)
    <3>1. Sessions!Fault(Sessions!Completed).upload = "done" /\
              Sessions!Aborted(Sessions!Fault(Sessions!Completed)) = Sessions!Fault(Sessions!Completed)
      BY DEF Sessions!Fault, Sessions!Completed, Sessions!Aborted
    <3>2. Sessions!Answered(Sessions!Fault(Sessions!Completed), k, "failed")
      BY <2>4, <3>1 DEF Sessions!AbortThen
    <3>. QED
      BY <2>0, <2>4, <3>2 DEF Sessions!Answered, Sessions!Fault, Sessions!Completed, Sessions!Matches
  <2>. QED
    BY <1>3, <2>1, <2>2, <2>3, <2>4 DEF Sessions!CompleteMultipart, Sessions!Unfinished
<1>4. CASE Sessions!SaveRow(k)
  <2>0. srv.fin[k] = "save"
    BY <1>4 DEF Sessions!SaveRow
  <2>1. CASE srv' = [Sessions!FinAt(srv, k, "count") EXCEPT !.row = TRUE] /\ UNCHANGED ui
    BY <2>0, <2>1
  <2>2. CASE Sessions!Answered(Sessions!Removed(srv), k, "taken")
    BY <2>0, <2>2 DEF Sessions!Answered, Sessions!Removed
  <2>3. CASE Sessions!Answered(Sessions!Fault(Sessions!Removed(srv)), k, "failed")
    BY <2>0, <2>3 DEF Sessions!Answered, Sessions!Fault, Sessions!Removed
  <2>4. CASE Sessions!Answered([Sessions!Fault(Sessions!Removed(srv)) EXCEPT !.row = TRUE], k, "failed")
    BY <2>0, <2>4 DEF Sessions!Answered, Sessions!Fault, Sessions!Removed
  <2>. QED
    BY <1>4, <2>1, <2>2, <2>3, <2>4 DEF Sessions!SaveRow
<1>5. CASE Sessions!AddStorageUsed(k)
  <2>0. srv.fin[k] = "count"
    BY <1>5 DEF Sessions!AddStorageUsed
  <2>1. CASE Sessions!Answered([srv EXCEPT !.used = @ + 1, !.deleting = TRUE], k, "created")
    BY <2>0, <2>1 DEF Sessions!Answered
  <2>2. CASE Sessions!Answered(Sessions!Fault(srv), k, "failed")
    BY <2>0, <2>2 DEF Sessions!Answered, Sessions!Fault
  <2>. QED
    BY <1>5, <2>1, <2>2 DEF Sessions!AddStorageUsed
<1>. QED
  BY <1>1, <1>2, <1>3, <1>4, <1>5

(* The sweep, the deletion of the session and the end of the process.      *)
LEMMA SweepStep ==
  SessionInv /\ (Sessions!DeleteSession \/ Sessions!Sweep \/ Sessions!Restart \/
      UNCHANGED Sessions!vars) => SessionInv'
<1> SUFFICES ASSUME SessionInv, Sessions!DeleteSession \/ Sessions!Sweep \/ Sessions!Restart \/
    UNCHANGED Sessions!vars PROVE SessionInv'
  OBVIOUS
<1> USE DEF SessionInv, SessionBounds, SessionFields, SessionType, SessionOpened, KeyKept,
   Restarted, PartsWhole, FromChunk,
            ObjectWhole, OneSaves, Saving, Created, Reasons, UploadClosed, Waited, Past, Alone,
            Sessions!FailsForReason, Sessions!Twice, Sessions!NoParts
<1>1. CASE Sessions!DeleteSession
  BY <1>1 DEF Sessions!DeleteSession
<1>2. CASE Sessions!Age
  BY <1>2 DEF Sessions!Age
<1>3. CASE Sessions!SweepTake
  BY <1>3 DEF Sessions!SweepTake
<1>4. CASE Sessions!SweepAbort
  <2>1. CASE /\ srv.sweep = "abort" /\ srv.upload = "open" /\ UNCHANGED ui
             /\ srv' = [srv EXCEPT !.upload = "gone", !.part = Sessions!NoParts, !.sweep = "zero"]
    BY <2>1
  <2>2. CASE srv.sweep = "abort" /\ srv.upload # "open" /\ UNCHANGED ui /\ srv' = [srv EXCEPT !.sweep = "zero"]
    BY <2>2
  <2>3. CASE /\ srv.sweep = "abort" /\ UNCHANGED ui
             /\ srv' = [Sessions!Fault(srv) EXCEPT !.sweep = "zero", !.abortFailed = TRUE]
    BY <2>3 DEF Sessions!Fault
  <2>. QED
    BY <1>4, <2>1, <2>2, <2>3 DEF Sessions!SweepAbort, Sessions!Aborted
<1>5. CASE Sessions!SweepZero
  BY <1>5 DEF Sessions!SweepZero
<1>6. CASE Sessions!Restart
  BY <1>6, RestartStep
<1>7. CASE UNCHANGED Sessions!vars
  BY <1>7 DEF Sessions!vars
<1>. QED
  BY <1>1, <1>2, <1>3, <1>4, <1>5, <1>6, <1>7 DEF Sessions!Sweep

(* ... and every step keeps it.                                            *)
LEMMA SessionStep == SessionInv /\ [Sessions!Next]_Sessions!vars => SessionInv'
<1> SUFFICES ASSUME SessionInv, [Sessions!Next]_Sessions!vars PROVE SessionInv'
  OBVIOUS
<1>1. CASE Sessions!Chunk
  BY <1>1, ChunkStep DEF Sessions!Chunk
<1>2. CASE Sessions!Finalize
  BY <1>2, FinalizeStep DEF Sessions!Finalize
<1>. QED
  BY <1>1, <1>2, InitStep, SweepStep DEF Sessions!Next

(* The invariant is what the session promises, and more.                   *)
LEMMA SessionPromises ==
  SessionInv => Sessions!StoredIsWhole /\ Sessions!AcknowledgedIsStored /\ Sessions!FailsForReason
BY DEF SessionInv, SessionBounds, PartsWhole, FromChunk, ObjectWhole, Created,
   Sessions!StoredIsWhole, Sessions!AcknowledgedIsStored

----------------------------------------------------------------------------
(* Recognition groups.                                                     *)

(* The fields the argument speaks of are there; a merge keeps no absent name.*)
GroupsFields ==
  /\ {"rows", "label", "of", "merge", "other", "gone", "kept", "raced"} \subseteq DOMAIN srv
  /\ srv.rows \subseteq People!Groups /\ DOMAIN srv.label = People!Groups /\ DOMAIN srv.of = People!Groups
  /\ People!None \notin srv.kept

(* A merge is into a group it does not merge, and its target still has the  *)
(* name that the merge has read, if it is still there.                     *)
ReadIsCurrent ==
  /\ srv.merge.target \notin srv.merge.from
  /\ srv.merge # People!NoMerge /\ srv.merge.target \in srv.rows /\ ~srv.raced =>
       srv.label[srv.merge.target] = srv.merge.label

(* The inductive invariant.                                                *)
GroupsInv == GroupsFields /\ ReadIsCurrent /\ People!FacesStay /\ People!NamesKept

----------------------------------------------------------------------------
(* It holds at first; ...                                                  *)
LEMMA GroupsInitially == People!Init => GroupsInv
BY DEF People!Init, GroupsInv, GroupsFields, ReadIsCurrent, People!FacesStay, People!NamesKept,
   People!NoMerge, People!None

(* the first of a set of groups is its least, ...                          *)
LEMMA FirstLeast == ASSUME NEW S, S \subseteq Nat, S # {}
                    PROVE  People!First(S) \in S /\ \A h \in S : People!First(S) <= h
BY Least DEF People!First

(* A name that a merge may not drop is the one its target takes.           *)
LEMMA TakenName ==
  ASSUME GroupsInv, ~srv.raced, srv.merge # People!NoMerge,
         srv.merge.from \cup {srv.merge.target} \subseteq srv.rows,
         NEW h \in srv.merge.from, srv.label[h] # People!None, srv.label[srv.merge.target] = People!None,
         h = People!First({g \in srv.merge.from \cup {srv.merge.target} : srv.label[g] # People!None} \cup {4})
  PROVE  People!Adopted(srv, srv.merge.from) = srv.label[h]
<1> DEFINE named == {g \in srv.merge.from : srv.label[g] # People!None}
<1>1. srv.merge.from \subseteq People!Groups /\ named \subseteq Nat /\ h \in named /\ 4 \in Nat
  BY DEF GroupsInv, GroupsFields, People!Groups
<1>2. {g \in srv.merge.from \cup {srv.merge.target} : srv.label[g] # People!None} = named
  OBVIOUS
<1>3. \A g \in named \cup {4} : h <= g
  BY <1>1, <1>2, FirstLeast
<1>4. People!First(named) \in named /\ People!First(named) <= h
  BY <1>1, FirstLeast
<1>5. People!First(named) \in Nat /\ h \in Nat /\ h <= People!First(named)
  BY <1>1, <1>3, <1>4
<1>6. People!First(named) = h
  BY <1>4, <1>5
<1>. QED
  BY <1>1, <1>6 DEF People!Adopted

(* ... a name that is given keeps the invariant, ...                       *)
LEMMA LabelKeeps ==
  ASSUME GroupsInv, NEW g \in srv.rows, NEW l, NEW o, srv' = [People!Label(srv, g, l) EXCEPT !.other = o]
  PROVE  GroupsInv'
<1> USE DEF GroupsInv, GroupsFields, ReadIsCurrent, People!FacesStay, People!NamesKept
<1>1. /\ DOMAIN srv' = DOMAIN srv /\ srv'.rows = srv.rows /\ srv'.merge = srv.merge
      /\ srv'.label = [srv.label EXCEPT ![g] = l] /\ srv'.of = srv.of /\ srv'.gone = srv.gone
      /\ srv'.kept = (srv.kept \ People!Named(srv, g)) \cup (IF l = People!None THEN {} ELSE {l})
      /\ srv'.raced <=> srv.raced \/ srv.merge.target = g
  BY DEF People!Label
<1>2. GroupsFields' /\ People!FacesStay'
  BY <1>1
<1>3. ReadIsCurrent'
  BY <1>1
<1>4. ASSUME ~srv.raced, NEW k \in srv'.kept PROVE \E h \in srv.rows : srv'.label[h] = k
  <2>1. CASE k = l
    BY <1>1, <2>1
  <2>2. CASE k # l
    <3>1. PICK h \in srv.rows : srv.label[h] = k
      BY <1>1, <1>4, <2>2
    <3>2. h # g
      BY <1>1, <1>4, <2>2, <3>1 DEF People!Named
    <3>. QED
      BY <1>1, <3>1, <3>2
  <2>. QED
    BY <2>1, <2>2
<1>. QED
  BY <1>1, <1>2, <1>3, <1>4

(* ... a group that is deleted, ...                                        *)
LEMMA DropKeeps ==
  ASSUME GroupsInv, NEW g \in srv.rows, NEW o, srv' = [People!Drop(srv, g) EXCEPT !.other = o]
  PROVE  GroupsInv'
<1>. QED
  BY DEF GroupsInv, GroupsFields, ReadIsCurrent, People!FacesStay, People!NamesKept, People!Drop,
     People!Named

(* ... a merge, ...                                                        *)
LEMMA MergeKeeps == ASSUME GroupsInv, People!MergeGroups PROVE GroupsInv'
<1> USE DEF GroupsInv, GroupsFields, ReadIsCurrent, People!FacesStay, People!NamesKept
<1> DEFINE t == srv.merge.target  from == srv.merge.from
<1>1. CASE ~(from \cup {t} \subseteq srv.rows)
  <2>1. srv' = [srv EXCEPT !.merge = People!NoMerge]
    BY <1>1 DEF People!MergeGroups
  <2>. QED
    BY <2>1 DEF People!NoMerge
<1>2. CASE from \cup {t} \subseteq srv.rows
  <2>1. srv' = People!Merged(srv) /\ srv.merge # People!NoMerge
    BY <1>2 DEF People!MergeGroups
  <2>2. /\ DOMAIN srv' = DOMAIN srv /\ srv'.rows = srv.rows \ from /\ srv'.merge = People!NoMerge
        /\ srv'.of = People!Repointed(srv, t, from) /\ srv'.gone = srv.gone /\ srv'.raced = srv.raced
        /\ srv'.kept \subseteq srv.kept /\ DOMAIN srv'.label = People!Groups
    BY <2>1 DEF People!Merged
  <2>3. People!FacesStay'
    BY <1>2, <2>2 DEF People!Repointed
  <2>4. SUFFICES ASSUME ~srv.raced, NEW k \in srv'.kept
                 PROVE  \E g \in srv'.rows : srv'.label[g] = k
    BY <2>2, <2>3 DEF People!NoMerge, People!Repointed
  <2>5. PICK h \in srv.rows : srv.label[h] = k /\ k # People!None
    BY <2>2, <2>4
  <2>6. srv.label[t] = srv.merge.label /\ t \in People!Groups
    BY <1>2, <2>1, <2>4
  <2>7. \A g \in People!Groups : srv'.label[g] = IF g \in from THEN People!None
          ELSE IF g = t /\ srv.merge.label = People!None /\
              People!Adopted(srv, from) # People!None THEN People!Adopted(srv, from)
          ELSE srv.label[g]
    BY <2>1 DEF People!Merged
  <2>8. CASE h \notin from
    BY <2>2, <2>5, <2>6, <2>7, <2>8
  <2>9. CASE h \in from
    <3>1. srv.label[t] = People!None /\ h = People!First({g \in from \cup {t} :
              srv.label[g] # People!None} \cup {4})
      BY <2>1, <2>4, <2>5, <2>9 DEF People!Merged, People!Named
    <3>2. People!Adopted(srv, from) = k
      BY <1>2, <2>1, <2>4, <2>5, <2>9, <3>1, TakenName
    <3>. QED
      BY <1>2, <2>2, <2>5, <2>6, <2>7, <3>1, <3>2
  <2>. QED
    BY <2>8, <2>9
<1>. QED
  BY <1>1, <1>2

(* ... and so does every step; ...                                         *)
LEMMA GroupsStep == GroupsInv /\ [People!Next]_People!vars => GroupsInv'
<1> SUFFICES ASSUME GroupsInv, [People!Next]_People!vars PROVE GroupsInv'
  OBVIOUS
<1>1. ASSUME UNCHANGED srv PROVE GroupsInv'
  BY <1>1 DEF GroupsInv, GroupsFields, ReadIsCurrent, People!FacesStay, People!NamesKept
<1>2. CASE People!Elsewhere
  BY <1>2, LabelKeeps, DropKeeps DEF People!Elsewhere
<1>3. CASE People!Merge
  BY <1>1, <1>3 DEF People!Merge, People!ReadTarget, GroupsInv, GroupsFields, ReadIsCurrent,
     People!FacesStay, People!NamesKept
<1>4. CASE People!SubmitRename
  <2>1. CASE ui.rename \in srv.rows
    <3>1. PICK l : srv' = People!Label(srv, ui.rename, l)
      BY <1>4, <2>1 DEF People!SubmitRename
    <3>2. People!Label(srv, ui.rename, l) = [People!Label(srv, ui.rename, l) EXCEPT !.other = srv.other]
      BY DEF People!Label, GroupsInv, GroupsFields
    <3>. QED
      BY <2>1, <3>1, <3>2, LabelKeeps
  <2>. QED
    BY <1>1, <1>4, <2>1 DEF People!SubmitRename
<1>5. CASE People!ConfirmDelete
  <2>1. CASE ui.del \in srv.rows
    <3>1. People!Drop(srv, ui.del) = [People!Drop(srv, ui.del) EXCEPT !.other = srv.other]
      BY DEF People!Drop, GroupsInv, GroupsFields
    <3>. QED
      BY <1>5, <2>1, <3>1, DropKeeps DEF People!ConfirmDelete
  <2>. QED
    BY <1>1, <1>5, <2>1 DEF People!ConfirmDelete
<1>6. CASE People!MergeGroups
  BY <1>6, MergeKeeps
<1>7. CASE \/ People!Open \/ People!Close \/ People!SetTab \/ People!Load \/ People!ToggleSelect
           \/ People!ClearSelection \/ People!StartRename
           \/ People!CancelRename \/ People!AskDelete \/ People!CancelDelete
  BY <1>1, <1>7 DEF People!Open, People!Close, People!SetTab, People!Load, People!ToggleSelect,
     People!ClearSelection, People!StartRename,
                    People!CancelRename, People!AskDelete, People!CancelDelete
<1>. QED
  BY <1>1, <1>2, <1>3, <1>4, <1>5, <1>6, <1>7 DEF People!Next, People!vars

(* ... and it is what the page promises, and more.                         *)
LEMMA GroupsPromises == GroupsInv => People!FacesStay /\ People!NamesKept
BY DEF GroupsInv

----------------------------------------------------------------------------
(* Runs over a selection.                                                  *)

(* The fields the argument speaks of are there; what is selected, and what *)
(* a run works on, are files of the collection.                            *)
Operations == {"delete", "mark", "copy", "remove", "move"}
RunOf(r) == /\ {"op", "all", "left", "out", "failed", "to", "mine"} \subseteq DOMAIN r
            /\ r.op \in Operations /\ r.all \subseteq Media /\ r.out \subseteq Media /\ r.left \subseteq Media
GalleryFields ==
  /\ {"home", "copied", "other"} \subseteq DOMAIN srv /\ DOMAIN srv.home = Media
  /\ {"client", "cwd", "seen", "grid", "list", "ask", "run"} \subseteq DOMAIN ui
  /\ {"mode", "sel", "picked", "late", "dialog"} \subseteq DOMAIN ui.grid
  /\ ui.grid.sel \subseteq Media /\ ui.list \subseteq Media
  /\ ui.run = Gallery!NoRun \/ RunOf(ui.run)

(* A deletion none of whose files has failed has deleted each that is      *)
(* neither waiting nor on its way.                                         *)
DeletedSoFar ==
  ui.run # Gallery!NoRun /\ ui.run.op = "delete" /\ ~ui.run.failed =>
    \A f \in ui.run.all : f \in ui.run.left \/ f \in ui.run.out \/ srv.home[f] \notin Gallery!Places

(* The inductive invariant.                                                *)
GalleryInv == GalleryFields /\ DeletedSoFar

(* It holds at first; ...                                                  *)
LEMMA GalleryInitially == Gallery!Init => GalleryInv
BY DEF Gallery!Init, GalleryInv, GalleryFields, DeletedSoFar, Gallery!Grid

(* no operation brings back a file that is gone, ...                       *)
LEMMA GoneStays ==
  ASSUME GalleryFields, NEW op \in Operations, NEW f \in Media, op = "move" => Gallery!Exists(f)
  PROVE  /\ {"home", "copied", "other"} \subseteq DOMAIN Gallery!Do(op, f)
         /\ DOMAIN Gallery!Do(op, f).home = Media
         /\ \A g \in Media : srv.home[g] \notin Gallery!Places =>
                               Gallery!Do(op, f).home[g] \notin Gallery!Places
         /\ op = "delete" => Gallery!Do(op, f).home[f] \notin Gallery!Places
<1> USE DEF GalleryFields, Gallery!Do, Gallery!Places
<1>1. CASE op = "delete"
  BY <1>1
<1>2. CASE op = "move"
  BY <1>2 DEF Gallery!Exists
<1>3. CASE op \in {"mark", "copy", "remove"}
  BY <1>3
<1>. QED
  BY <1>1, <1>2, <1>3 DEF Operations

(* ... and what the user does to the view leaves the run going, ...        *)
Elsewhere ==
  /\ UNCHANGED srv
  /\ {"client", "cwd", "seen", "grid", "list", "ask", "run"} \subseteq DOMAIN ui'
  /\ {"mode", "sel", "picked", "late", "dialog"} \subseteq DOMAIN ui'.grid
  /\ ui'.grid.sel \subseteq Media /\ ui'.list \subseteq Media
LEMMA ViewKeeps ==
  ASSUME GalleryInv, Elsewhere, ui'.run \in {ui.run, Gallery!Orphan(ui.run)}
  PROVE  GalleryInv' /\ Gallery!ToldIsDone
<1>1. CASE ui'.run = ui.run
  BY <1>1 DEF GalleryInv, GalleryFields, DeletedSoFar, Elsewhere, RunOf, Gallery!ToldIsDone
<1>2. CASE ui'.run # ui.run /\ ui'.run = [ui.run EXCEPT !.mine = FALSE] /\ ui.run # Gallery!NoRun
  <2>1. /\ DOMAIN ui'.run = DOMAIN ui.run /\ ui'.run.op = ui.run.op /\ ui'.run.all = ui.run.all
        /\ ui'.run.left = ui.run.left /\ ui'.run.out = ui.run.out /\ ui'.run.failed = ui.run.failed
    BY <1>2 DEF GalleryInv, GalleryFields, RunOf
  <2>2. ui'.run # Gallery!NoRun
    BY <1>2, <2>1 DEF GalleryInv, GalleryFields, RunOf, Operations, Gallery!NoRun
  <2>. QED
    BY <1>2, <2>1, <2>2 DEF GalleryInv, GalleryFields, DeletedSoFar, Elsewhere, RunOf, Gallery!ToldIsDone
<1>. QED
  BY <1>1, <1>2 DEF Gallery!Orphan

(* ... a run that starts has all to do, ...                                *)
LEMMA StartKeeps ==
  ASSUME GalleryInv, UNCHANGED srv, NEW op \in Operations, NEW to,
         ui' = [ui EXCEPT !.run = Gallery!Start(op, ui.grid.sel, to)], ui.run = Gallery!NoRun
  PROVE  GalleryInv' /\ Gallery!ToldIsDone
<1>1. /\ ui'.grid = ui.grid /\ ui'.list = ui.list /\ DOMAIN ui' = DOMAIN ui
      /\ ui'.run = Gallery!Start(op, ui.grid.sel, to)
  BY DEF GalleryInv, GalleryFields
<1>2. RunOf(ui'.run) /\ ui'.run.left = ui'.run.all
  BY <1>1 DEF Gallery!Start, RunOf, GalleryInv, GalleryFields
<1>. QED
  BY <1>1, <1>2 DEF GalleryInv, GalleryFields, DeletedSoFar, Gallery!ToldIsDone

(* ... a change of the files that brings none back leaves it right, ...    *)
LEMMA ServerKeeps ==
  ASSUME GalleryInv, UNCHANGED ui,
         {"home", "copied", "other"} \subseteq DOMAIN srv' /\ DOMAIN srv'.home = Media,
         \A g \in Media : srv.home[g] \notin Gallery!Places => srv'.home[g] \notin Gallery!Places
  PROVE  GalleryInv' /\ Gallery!ToldIsDone
BY DEF GalleryInv, GalleryFields, DeletedSoFar, RunOf, Gallery!ToldIsDone

(* ... and so does the run itself, ...                                     *)
LEMMA RunKeeps ==
  ASSUME GalleryInv, Gallery!NextBatch \/ Gallery!Answered \/ Gallery!EndRun
  PROVE  GalleryInv' /\ Gallery!ToldIsDone
<1> USE DEF GalleryInv
<1>1. ui.run # Gallery!NoRun /\ RunOf(ui.run)
  BY DEF GalleryFields, Gallery!NextBatch, Gallery!Answered, Gallery!EndRun
<1>2. CASE Gallery!NextBatch
  <2>1. PICK b \in SUBSET ui.run.left : ui' = [ui EXCEPT !.run.out = b, !.run.left = ui.run.left \ b]
    BY <1>2 DEF Gallery!NextBatch, Gallery!Batches, Gallery!Rest
  <2>2. /\ DOMAIN ui' = DOMAIN ui /\ ui'.grid = ui.grid /\ ui'.list = ui.list
        /\ ui'.run = [ui.run EXCEPT !.out = b, !.left = ui.run.left \ b]
    BY <2>1 DEF GalleryFields
  <2>3. /\ DOMAIN ui'.run = DOMAIN ui.run /\ ui'.run.op = ui.run.op /\ ui'.run.all = ui.run.all
        /\ ui'.run.failed = ui.run.failed /\ ui'.run.out = b /\ ui'.run.left = ui.run.left \ b
    BY <1>1, <2>2 DEF RunOf
  <2>4. RunOf(ui'.run) /\ ui'.run # Gallery!NoRun /\ ui.run.out = {} /\ UNCHANGED srv
    BY <1>1, <1>2, <2>3 DEF RunOf, Operations, Gallery!NoRun, Gallery!NextBatch
  <2>. QED
    BY <1>1, <2>2, <2>3, <2>4 DEF GalleryFields, DeletedSoFar, Gallery!ToldIsDone
<1>3. CASE Gallery!Answered
  <2>1. PICK f \in ui.run.out :
          \/ ~Gallery!Refused(ui.run.op, f) /\ srv' = Gallery!Do(ui.run.op, f) /\ Gallery!Done(f)
          \/ Gallery!Failed(f) /\ (UNCHANGED srv \/ srv' = [srv EXCEPT !.other = @ + 1])
    BY <1>1, <1>3 DEF Gallery!Answered
  <2>2. f \in Media
    BY <1>1, <2>1 DEF RunOf
  <2>3. CASE ~Gallery!Refused(ui.run.op, f) /\ srv' = Gallery!Do(ui.run.op, f) /\ Gallery!Done(f)
    <3>1. /\ DOMAIN ui' = DOMAIN ui /\ ui'.grid = ui.grid /\ ui'.list \subseteq ui.list
          /\ ui'.run = [ui.run EXCEPT !.out = ui.run.out \ {f}]
      BY <2>3 DEF Gallery!Done, GalleryFields
    <3>2. /\ DOMAIN ui'.run = DOMAIN ui.run /\ ui'.run.op = ui.run.op /\ ui'.run.all = ui.run.all
          /\ ui'.run.failed = ui.run.failed /\ ui'.run.out = ui.run.out \ {f} /\ ui'.run.left = ui.run.left
      BY <1>1, <3>1 DEF RunOf
    <3>3. RunOf(ui'.run) /\ ui'.run # Gallery!NoRun
      BY <1>1, <3>2 DEF RunOf, Operations, Gallery!NoRun
    <3>4. /\ {"home", "copied", "other"} \subseteq DOMAIN srv' /\ DOMAIN srv'.home = Media
          /\ \A g \in Media : srv.home[g] \notin Gallery!Places => srv'.home[g] \notin Gallery!Places
          /\ ui.run.op = "delete" => srv'.home[f] \notin Gallery!Places
      BY <1>1, <2>2, <2>3, GoneStays DEF RunOf, Gallery!Refused
    <3>5. GalleryFields'
      BY <3>1, <3>3, <3>4 DEF GalleryFields
    <3>6. DeletedSoFar'
      BY <1>1, <2>2, <3>2, <3>4 DEF DeletedSoFar, RunOf
    <3>. QED
      BY <3>3, <3>5, <3>6 DEF Gallery!ToldIsDone
  <2>4. CASE Gallery!Failed(f) /\ (UNCHANGED srv \/ srv' = [srv EXCEPT !.other = @ + 1])
    <3>1. /\ DOMAIN ui' = DOMAIN ui /\ ui'.grid = ui.grid /\ ui'.list = ui.list
          /\ ui'.run = [ui.run EXCEPT !.out = ui.run.out \ {f}, !.failed = TRUE]
      BY <2>4 DEF Gallery!Failed, GalleryFields
    <3>2. /\ DOMAIN ui'.run = DOMAIN ui.run /\ ui'.run.op = ui.run.op /\ ui'.run.all = ui.run.all
          /\ ui'.run.failed /\ ui'.run.out = ui.run.out \ {f} /\ ui'.run.left = ui.run.left
      BY <1>1, <3>1 DEF RunOf
    <3>3. RunOf(ui'.run) /\ ui'.run # Gallery!NoRun
      BY <1>1, <3>2 DEF RunOf, Operations, Gallery!NoRun
    <3>4. DOMAIN srv' = DOMAIN srv /\ srv'.home = srv.home
      BY <2>4 DEF GalleryFields
    <3>. QED
      BY <3>1, <3>2, <3>3, <3>4 DEF GalleryFields, DeletedSoFar, Gallery!ToldIsDone
  <2>. QED
    BY <2>1, <2>3, <2>4
<1>4. CASE Gallery!EndRun
  <2>1. /\ UNCHANGED srv /\ DOMAIN ui' = DOMAIN ui /\ ui'.list = ui.list /\ ui'.run = Gallery!NoRun
        /\ DOMAIN ui'.grid = DOMAIN ui.grid /\ ui'.grid.sel \in {ui.grid.sel, {}}
    BY <1>4 DEF Gallery!EndRun, GalleryFields, Gallery!ClearSelection
  <2>2. GalleryFields' /\ DeletedSoFar'
    BY <2>1 DEF GalleryFields, DeletedSoFar
  <2>3. ui.run.op = "delete" /\ ~ui.run.failed => \A f \in ui.run.all : ~Gallery!Exists(f)
    BY <1>1, <1>4 DEF Gallery!EndRun, DeletedSoFar, Gallery!Exists
  <2>. QED
    BY <2>2, <2>3 DEF Gallery!ToldIsDone
<1>. QED
  BY <1>2, <1>3, <1>4

(* ... whatever is done, on the page, in the app and elsewhere; and a run  *)
(* that ends has deleted all that it tells of.                             *)
LEMMA GalleryStep ==
  GalleryInv /\ [Gallery!Next]_Gallery!vars => GalleryInv' /\ Gallery!ToldIsDone
<1> SUFFICES ASSUME GalleryInv, [Gallery!Next]_Gallery!vars PROVE GalleryInv' /\ Gallery!ToldIsDone
  OBVIOUS
<1>1. CASE UNCHANGED <<ui, srv>>
  BY <1>1 DEF GalleryInv, GalleryFields, DeletedSoFar, RunOf, Gallery!ToldIsDone
<1>8. /\ {"client", "cwd", "seen", "grid", "list", "ask", "run"} \subseteq DOMAIN ui
      /\ {"mode", "sel", "picked", "late", "dialog"} \subseteq DOMAIN ui.grid
      /\ ui.grid.sel \subseteq Media /\ ui.list \subseteq Media
      /\ \A d : Gallery!Scope(d) \subseteq Media
  BY DEF GalleryInv, GalleryFields, Gallery!Scope
<1>9. Gallery!Grid.sel = {} /\ {"mode", "sel", "picked", "late", "dialog"} \subseteq DOMAIN Gallery!Grid
  BY DEF Gallery!Grid
<1>2. CASE Gallery!OpenFolder
  <2>1. PICK d \in Gallery!Places \ {ui.cwd} :
          ui' = IF d \in ui.seen THEN [ui EXCEPT !.cwd = d, !.grid = Gallery!ClearSelection(@)]
                ELSE [ui EXCEPT !.cwd = d, !.seen = @ \cup {d}, !.grid = Gallery!Grid,
                                !.ask = Gallery!Orphan(@), !.run = Gallery!Orphan(@)]
    BY <1>2 DEF Gallery!OpenFolder
  <2>2. /\ DOMAIN ui' = DOMAIN ui /\ ui'.list = ui.list /\ ui'.run \in {ui.run, Gallery!Orphan(ui.run)}
        /\ ui'.grid \in {Gallery!ClearSelection(ui.grid), Gallery!Grid}
    BY <1>8, <2>1
  <2>3. /\ ui'.grid.sel = {} /\ {"mode", "sel", "picked", "late", "dialog"} \subseteq DOMAIN ui'.grid
    BY <1>8, <1>9, <2>2 DEF Gallery!ClearSelection
  <2>. QED
    BY <1>2, <1>8, <2>2, <2>3, ViewKeeps DEF Elsewhere, Gallery!OpenFolder
<1>10. CASE Gallery!EnterInApp
  <2>1. /\ DOMAIN ui' = DOMAIN ui /\ ui'.list \subseteq Media /\ ui'.run = Gallery!Orphan(ui.run)
        /\ ui'.grid = Gallery!Grid /\ UNCHANGED srv
    BY <1>8, <1>10 DEF Gallery!EnterInApp
  <2>. QED
    BY <1>8, <1>9, <2>1, ViewKeeps DEF Elsewhere
<1>3. CASE \/ Gallery!ToggleMode \/ Gallery!AskDelete \/ Gallery!CancelDelete \/ Gallery!ExitSelectMode
  <2>1. /\ DOMAIN ui' = DOMAIN ui /\ ui'.list = ui.list /\ ui'.run = ui.run /\ UNCHANGED srv
        /\ DOMAIN ui'.grid = DOMAIN ui.grid /\ ui'.grid.sel \in {ui.grid.sel, {}}
    <3>1. CASE Gallery!ToggleMode
      <4>1. PICK g \in {[Gallery!ClearSelection(ui.grid) EXCEPT !.mode = FALSE], [ui.grid EXCEPT !.mode = TRUE]} :
              ui' = [ui EXCEPT !.grid = g] /\ UNCHANGED srv
        BY <3>1 DEF Gallery!ToggleMode
      <4>2. DOMAIN g = DOMAIN ui.grid /\ g.sel \in {ui.grid.sel, {}}
        BY <1>8, <4>1 DEF Gallery!ClearSelection
      <4>. QED
        BY <1>8, <4>1, <4>2
    <3>2. CASE Gallery!AskDelete \/ Gallery!CancelDelete
      BY <1>8, <3>2 DEF Gallery!AskDelete, Gallery!CancelDelete
    <3>3. CASE Gallery!ExitSelectMode
      BY <1>8, <3>3 DEF Gallery!ExitSelectMode, Gallery!ClearSelection
    <3>. QED
      BY <1>3, <3>1, <3>2, <3>3
  <2>. QED
    BY <1>8, <2>1, ViewKeeps DEF Elsewhere
<1>11. CASE Gallery!ToggleSelect \/ Gallery!TapInApp
  <2>1. PICK f \in Media : ui' = [ui EXCEPT !.grid = Gallery!Tapped(@, f)] /\ UNCHANGED srv
    BY <1>8, <1>11 DEF Gallery!ToggleSelect, Gallery!TapInApp
  <2>2. /\ DOMAIN ui' = DOMAIN ui /\ ui'.list = ui.list /\ ui'.run = ui.run
        /\ ui'.grid = Gallery!Tapped(ui.grid, f)
    BY <1>8, <2>1
  <2>3. DOMAIN ui'.grid = DOMAIN ui.grid /\ ui'.grid.sel \subseteq ui.grid.sel \cup {f}
    BY <1>8, <2>2 DEF Gallery!Tapped
  <2>. QED
    BY <1>8, <2>1, <2>2, <2>3, ViewKeeps DEF Elsewhere
<1>12. CASE Gallery!SelectByFilter \/ Gallery!SelectAll
  <2>1. \E how, s : ui' = Gallery!Ask(how, s) /\ UNCHANGED srv
    BY <1>12 DEF Gallery!SelectByFilter, Gallery!SelectAll
  <2>2. DOMAIN ui' = DOMAIN ui /\ ui'.list = ui.list /\ ui'.run = ui.run /\ ui'.grid = ui.grid
    BY <1>8, <2>1 DEF Gallery!Ask
  <2>. QED
    BY <1>8, <2>1, <2>2, ViewKeeps DEF Elsewhere
<1>13. CASE Gallery!SelectAnswered
  <2> DEFINE got == Gallery!Scope(ui.ask.dir) \cap ui.ask.filter
  <2>1. got \subseteq Media
    BY <1>8
  <2>2. \/ ui' = [ui EXCEPT !.ask = Gallery!NoAsk]
        \/ \E sel \in {got, ui.grid.sel \cup got} : \E picked, late :
             ui' = [ui EXCEPT !.ask = Gallery!NoAsk, !.grid.sel = sel, !.grid.picked = picked, !.grid.late = late]
    BY <1>13 DEF Gallery!SelectAnswered
  <2> HIDE DEF got
  <2>3. /\ DOMAIN ui' = DOMAIN ui /\ ui'.list = ui.list /\ ui'.run = ui.run
        /\ DOMAIN ui'.grid = DOMAIN ui.grid /\ ui'.grid.sel \subseteq Media
    <3>1. CASE ui' = [ui EXCEPT !.ask = Gallery!NoAsk]
      BY <1>8, <3>1
    <3>2. CASE \E sel \in {got, ui.grid.sel \cup got} : \E picked, late :
                 ui' = [ui EXCEPT !.ask = Gallery!NoAsk, !.grid.sel = sel, !.grid.picked = picked, !.grid.late = late]
      <4> PICK sel \in {got, ui.grid.sel \cup got} : \E picked, late :
              ui' = [ui EXCEPT !.ask = Gallery!NoAsk, !.grid.sel = sel, !.grid.picked = picked, !.grid.late = late]
        BY <3>2, Zenon
      <4>1. PICK picked, late :
              ui' = [ui EXCEPT !.ask = Gallery!NoAsk, !.grid.sel = sel, !.grid.picked = picked, !.grid.late = late]
        OBVIOUS
      <4>2. DOMAIN ui' = DOMAIN ui /\ ui'.list = ui.list /\ ui'.run = ui.run
        BY <1>8, <4>1
      <4>3. ui'.grid = [ui.grid EXCEPT !.sel = sel, !.picked = picked, !.late = late]
        BY <1>8, <4>1
      <4>. QED
        BY <1>8, <2>1, <4>2, <4>3
    <3>. QED
      BY <2>2, <3>1, <3>2
  <2>. QED
    BY <1>8, <1>13, <2>3, ViewKeeps DEF Elsewhere, Gallery!SelectAnswered
<1>4. CASE \/ Gallery!RunOnSelection \/ Gallery!ConfirmDelete \/ Gallery!DeleteInApp \/ Gallery!MoveInApp
  <2>1. \E op \in Operations : \E to : /\ UNCHANGED srv /\ ui.run = Gallery!NoRun
                                        /\ ui' = [ui EXCEPT !.run = Gallery!Start(op, ui.grid.sel, to)]
    BY <1>4 DEF Gallery!RunOnSelection, Gallery!ConfirmDelete, Gallery!DeleteInApp, Gallery!MoveInApp,
       Gallery!Ops, Gallery!G, Operations
  <2>. QED
    BY <2>1, StartKeeps
<1>5. CASE Gallery!OnTile
  <2>1. PICK f \in Media, op \in Gallery!Ops : srv' = Gallery!Do(op, f) /\ UNCHANGED ui
    BY <1>5 DEF Gallery!OnTile, Gallery!Scope
  <2>2. op \in Operations /\ op # "move"
    BY <2>1 DEF Gallery!Ops, Operations
  <2>. QED
    BY <2>1, <2>2, GoneStays, ServerKeeps DEF GalleryInv
<1>6. CASE Gallery!Other
  <2>1. PICK f \in Media : srv' = [Gallery!Do("delete", f) EXCEPT !.other = @ + 1] /\ UNCHANGED ui
    BY <1>6 DEF Gallery!Other
  <2>2. /\ {"home", "copied", "other"} \subseteq DOMAIN srv' /\ DOMAIN srv'.home = Media
        /\ \A g \in Media : srv.home[g] \notin Gallery!Places => srv'.home[g] \notin Gallery!Places
    BY <2>1 DEF Gallery!Do, Gallery!Places, GalleryInv, GalleryFields
  <2>. QED
    BY <2>1, <2>2, ServerKeeps
<1>7. CASE Gallery!NextBatch \/ Gallery!Answered \/ Gallery!EndRun
  BY <1>7, RunKeeps
<1>. QED
  BY <1>1, <1>2, <1>3, <1>4, <1>5, <1>6, <1>7, <1>10, <1>11, <1>12, <1>13
  DEF Gallery!Next, Gallery!Browse, Gallery!Act, Gallery!InApp, Gallery!vars

----------------------------------------------------------------------------
(* Retrieval of what can be backed up.                                     *)

(* The fields the argument speaks of are there.                            *)
RetrievalFields ==
  /\ {"dev", "win", "load", "gload", "picker", "gpicker", "cancelRef", "stop", "raced"} \subseteq DOMAIN ui
  /\ {"open", "of", "items", "fetching"} \subseteq DOMAIN ui.picker
  /\ "run" \in DOMAIN srv /\ DOMAIN srv.run = Backup!Runs
  /\ \A r \in Backup!Runs :
       {"at", "want", "found", "popup", "cancelled", "asked", "late"} \subseteq DOMAIN srv.run[r]

(* Only a listing that fetches pages is asked to stop; the flag says so as *)
(* long as no other retrieval has begun, and then it fetches none.         *)
AskedIsHeard ==
  \A r \in MailRuns :
    /\ srv.run[r].asked \/ srv.run[r].late => srv.run[r].at = "page"
    /\ srv.run[r].asked => ui.stop \/ ui.raced
    /\ srv.run[r].late => ui.raced

(* The inductive invariant, which says as well that a stop is kept.        *)
RetrievalInv == RetrievalFields /\ AskedIsHeard

(* It holds at first; ...                                                  *)
LEMMA RetrievalInitially == Backup!Init => RetrievalInv
<1> SUFFICES ASSUME Backup!Init PROVE RetrievalInv
  OBVIOUS
<1>3. /\ {"dev", "win", "load", "gload", "picker", "gpicker", "cancelRef", "stop", "raced"} \subseteq DOMAIN ui
      /\ ui.picker = Backup!NoPicker
  BY DEF Backup!Init
<1>4. "run" \in DOMAIN srv /\ DOMAIN srv.run = Backup!Runs /\ \A r \in Backup!Runs : srv.run[r] = Backup!NoRun
  BY DEF Backup!Init
<1>5. RetrievalFields
  BY <1>3, <1>4 DEF RetrievalFields, Backup!NoRun, Backup!NoPicker
<1>6. AskedIsHeard
  BY <1>4 DEF AskedIsHeard, Backup!NoRun, Backup!Runs
<1>. QED
  BY <1>5, <1>6 DEF RetrievalInv

(* the Google retrieval asks no mailbox to stop, ...                   *)
LEMMA GoogleKeeps ==
  ASSUME RetrievalInv, Backup!Run("google").at \in {"none", "token", "drive", "session", "poll"},
         srv' = [srv EXCEPT !.run["google"] = srv'.run["google"]],
         {"at", "want", "found", "popup", "cancelled", "asked", "late"} \subseteq DOMAIN srv'.run["google"],
         "google" \in MailRuns => ~srv'.run["google"].asked /\ ~srv'.run["google"].late,
         DOMAIN ui' = DOMAIN ui, ui'.picker = ui.picker, ui'.stop = ui.stop, ui'.raced = ui.raced
  PROVE  RetrievalInv'
<1>. QED
  BY DEF RetrievalInv, RetrievalFields, AskedIsHeard, Backup!Run, Backup!Runs

(* ... nor does a listing that begins or ends, or is cancelled, ...        *)
LEMMA EndedKeeps ==
  ASSUME RetrievalInv, NEW r \in MailRuns, Backup!Run(r).at # "none", NEW p, Backup!Ended(r, p),
         {"open", "of", "items", "fetching"} \subseteq DOMAIN p
  PROVE  RetrievalInv'
<1> USE DEF RetrievalInv
<1>1. /\ DOMAIN ui' = DOMAIN ui /\ ui'.picker = p /\ ui'.stop = ui.stop
  BY DEF Backup!Ended, RetrievalFields
<1>3. ui'.raced <=> ui.raced /\ (p.open \/ Backup!Listing \ {r} # {})
  BY DEF Backup!Ended, RetrievalFields
<1>2. /\ DOMAIN srv' = DOMAIN srv /\ DOMAIN srv'.run = DOMAIN srv.run
      /\ r \in DOMAIN srv.run /\ srv'.run[r] = Backup!NoRun
      /\ \A q \in Backup!Runs : q # r => srv'.run[q] = srv.run[q]
  BY DEF Backup!Ended, RetrievalFields, Backup!Runs
<1>5. RetrievalFields'
  BY <1>1, <1>2 DEF RetrievalFields, Backup!NoRun
<1>6. \A q \in MailRuns : q # r /\ srv.run[q].at = "page" => q \in Backup!Listing \ {r}
  BY DEF Backup!Listing, Backup!Run
<1>7. ASSUME NEW q \in MailRuns, q # r
      PROVE  /\ srv.run[q].late => ui'.raced
             /\ srv.run[q].asked => ui.stop \/ ui'.raced
  BY <1>3, <1>6, <1>7 DEF AskedIsHeard
<1>8. AskedIsHeard'
  BY <1>1, <1>2, <1>7 DEF AskedIsHeard, Backup!NoRun, Backup!Runs
<1>. QED
  BY <1>5, <1>8

(* ... a flag that is set tells those that fetch, ...                      *)
LEMMA AskedKeeps ==
  ASSUME RetrievalInv, srv' = [srv EXCEPT !.run = Backup!Asked], DOMAIN ui' = DOMAIN ui,
         {"open", "of", "items", "fetching"} \subseteq DOMAIN ui'.picker, ui'.stop,
         ui.raced => ui'.raced \/ Backup!Listing = {}
  PROVE  RetrievalInv'
<1>1. /\ DOMAIN srv' = DOMAIN srv /\ DOMAIN srv'.run = Backup!Runs
      /\ \A q \in Backup!Runs :
           /\ DOMAIN srv'.run[q] = DOMAIN srv.run[q] /\ srv'.run[q].at = srv.run[q].at
           /\ srv'.run[q].late = srv.run[q].late
           /\ srv'.run[q].asked <=> srv.run[q].asked \/ (q \in MailRuns /\ srv.run[q].at = "page")
  BY DEF Backup!Asked, Backup!Run, RetrievalInv, RetrievalFields
<1>4. RetrievalFields'
  BY <1>1 DEF RetrievalInv, RetrievalFields
<1>5. \A q \in MailRuns : srv.run[q].late => ui'.raced
  BY DEF RetrievalInv, AskedIsHeard, Backup!Listing, Backup!Run
<1>6. \A q \in MailRuns : srv'.run[q].asked => srv.run[q].at = "page"
  BY <1>1 DEF RetrievalInv, AskedIsHeard, Backup!Runs
<1>7. AskedIsHeard'
  BY <1>1, <1>5, <1>6 DEF RetrievalInv, AskedIsHeard, Backup!Runs
<1>. QED
  BY <1>4, <1>7 DEF RetrievalInv

(* ... a listing that goes on, whatever it does to its own record, ...      *)
LEMMA ListingKeeps ==
  ASSUME RetrievalInv, NEW r \in MailRuns, NEW run, srv' = [srv EXCEPT !.run[r] = run],
         {"at", "want", "found", "popup", "cancelled", "asked", "late"} \subseteq DOMAIN run,
         run.asked \/ run.late => run.at = "page", run.asked => ui'.stop \/ ui'.raced, run.late => ui'.raced,
         DOMAIN ui' = DOMAIN ui, {"open", "of", "items", "fetching"} \subseteq DOMAIN ui'.picker,
         \A q \in Backup!Listing : (ui.raced => ui'.raced) /\ (ui.stop => ui'.stop \/ ui'.raced)
  PROVE  RetrievalInv'
<1>1. /\ DOMAIN srv' = DOMAIN srv /\ DOMAIN srv'.run = DOMAIN srv.run
      /\ r \in DOMAIN srv.run /\ srv'.run[r] = run
      /\ \A q \in Backup!Runs : q # r => srv'.run[q] = srv.run[q]
  BY DEF RetrievalInv, RetrievalFields, Backup!Runs
<1>2. RetrievalFields'
  BY <1>1 DEF RetrievalInv, RetrievalFields
<1>3. ASSUME NEW q \in MailRuns, q # r
      PROVE  /\ srv.run[q].asked \/ srv.run[q].late => srv.run[q].at = "page"
             /\ srv.run[q].late => ui'.raced
             /\ srv.run[q].asked => ui'.stop \/ ui'.raced
  BY DEF RetrievalInv, AskedIsHeard, Backup!Listing, Backup!Run
<1>4. AskedIsHeard'
  BY <1>1, <1>3 DEF AskedIsHeard, Backup!Runs
<1>. QED
  BY <1>2, <1>4 DEF RetrievalInv

(* ... a retrieval from Google that ends, ...                              *)
LEMMA GoogleEndKeeps ==
  ASSUME RetrievalInv, Backup!Run("google").at \in {"none", "token", "drive", "session", "poll"},
         NEW run, Backup!GoogleEnd(run)
  PROVE  RetrievalInv'
<1>1. /\ srv' = [srv EXCEPT !.run["google"] = Backup!NoRun] /\ srv'.run["google"] = Backup!NoRun
      /\ DOMAIN ui' = DOMAIN ui /\ ui'.picker = ui.picker /\ ui'.stop = ui.stop /\ ui'.raced = ui.raced
  BY DEF Backup!GoogleEnd, RetrievalInv, RetrievalFields, Backup!Runs
<1>2. /\ srv' = [srv EXCEPT !.run["google"] = srv'.run["google"]]
      /\ {"at", "want", "found", "popup", "cancelled", "asked", "late"} \subseteq DOMAIN srv'.run["google"]
      /\ ~srv'.run["google"].asked /\ ~srv'.run["google"].late
  <2>1. srv' = [srv EXCEPT !.run["google"] = srv'.run["google"]]
    BY <1>1
  <2>2. srv'.run["google"] = Backup!NoRun
    BY <1>1
  <2>. QED
    BY <2>1, <2>2 DEF Backup!NoRun
<1>. QED
  BY <1>1, <1>2, GoogleKeeps

(* ... or goes on, ...                                                     *)
LEMMA GoogleGoOnKeeps ==
  ASSUME RetrievalInv, Backup!Run("google").at \in {"none", "token", "drive", "session", "poll"},
         NEW run, NEW next, Backup!GoogleGoOn(run, next),
         {"at", "want", "found", "popup", "cancelled", "asked", "late"} \subseteq DOMAIN run,
         run.asked = Backup!Run("google").asked, run.late = Backup!Run("google").late
  PROVE  RetrievalInv'
<1>1. CASE \E end : Backup!GoogleEnd(end)
  BY <1>1, GoogleEndKeeps
<1>2. CASE srv' = [srv EXCEPT !.run["google"] = [run EXCEPT !.at = next]] /\ UNCHANGED ui
  <2>1. srv'.run["google"] = [run EXCEPT !.at = next]
    BY <1>2 DEF RetrievalInv, RetrievalFields, Backup!Runs
  <2>2. "google" \in MailRuns => ~run.asked /\ ~run.late
    BY DEF RetrievalInv, AskedIsHeard, Backup!Run
  <2>. QED
    BY <1>2, <2>1, <2>2, GoogleKeeps
<1>. QED
  BY <1>1, <1>2 DEF Backup!GoogleGoOn

(* ... a mailbox that is opened, ...                                       *)
LEMMA MailOpensKeeps == ASSUME RetrievalInv, Backup!SignIn \/ Backup!Address PROVE RetrievalInv'
<1>1. PICK r \in MailRuns :
        /\ Backup!Run(r).at \in {"signin", "address"}
        /\ \/ \E p \in {ui.picker, Backup!NoPicker} : Backup!Ended(r, p)
           \/ srv' = [srv EXCEPT !.run[r].at = "address"] /\ UNCHANGED ui
           \/ /\ srv' = [srv EXCEPT !.run[r].at = "page"]
              /\ ui' = [ui EXCEPT !.load = FALSE,
                   !.picker = [open |-> TRUE, of |-> r, items |-> {}, fetching |-> TRUE]]
  BY DEF Backup!SignIn, Backup!Address
<1>2. {"open", "of", "items", "fetching"} \subseteq DOMAIN ui.picker
  BY DEF RetrievalInv, RetrievalFields
<1>3. CASE \E p \in {ui.picker, Backup!NoPicker} : Backup!Ended(r, p)
  BY <1>1, <1>2, <1>3, EndedKeeps DEF Backup!NoPicker
<1>4. ASSUME NEW at, srv' = [srv EXCEPT !.run[r].at = at], DOMAIN ui' = DOMAIN ui, ui'.stop = ui.stop,
             {"open", "of", "items", "fetching"} \subseteq DOMAIN ui'.picker, ui'.raced = ui.raced
      PROVE  RetrievalInv'
  <2>1. /\ srv' = [srv EXCEPT !.run[r] = [Backup!Run(r) EXCEPT !.at = at]]
        /\ {"at", "want", "found", "popup", "cancelled", "asked", "late"} \subseteq DOMAIN Backup!Run(r)
        /\ ~Backup!Run(r).asked /\ ~Backup!Run(r).late
    BY <1>1, <1>4 DEF RetrievalInv, RetrievalFields, AskedIsHeard, Backup!Run, Backup!Runs
  <2>. QED
    BY <1>4, <2>1, ListingKeeps
<1>5. CASE srv' = [srv EXCEPT !.run[r].at = "address"] /\ UNCHANGED ui
  BY <1>2, <1>4, <1>5
<1>6. CASE /\ srv' = [srv EXCEPT !.run[r].at = "page"]
           /\ ui' = [ui EXCEPT !.load = FALSE,
                        !.picker = [open |-> TRUE, of |-> r, items |-> {}, fetching |-> TRUE]]
  <2>1. /\ DOMAIN ui' = DOMAIN ui /\ ui'.stop = ui.stop /\ ui'.raced = ui.raced
        /\ ui'.picker = [open |-> TRUE, of |-> r, items |-> {}, fetching |-> TRUE]
    BY <1>6 DEF RetrievalInv, RetrievalFields
  <2>. QED
    BY <1>4, <1>6, <2>1
<1>. QED
  BY <1>1, <1>3, <1>5, <1>6

(* ... a page that arrives, the last or not, or a failure, ...             *)
LEMMA MailPageKeeps ==
  ASSUME RetrievalInv, Backup!LastPage \/ Backup!Page \/ Backup!MailFails PROVE RetrievalInv'
<1>1. \A r, found : {"open", "of", "items", "fetching"} \subseteq DOMAIN Backup!Complete(r, found)
  BY DEF Backup!Complete, Backup!NoPicker, RetrievalInv, RetrievalFields
<1>2. CASE Backup!LastPage \/ Backup!MailFails
  <2>1. \E r \in MailRuns : \E p : /\ Backup!Run(r).at # "none" /\ Backup!Ended(r, p)
                                    /\ {"open", "of", "items", "fetching"} \subseteq DOMAIN p
    BY <1>1, <1>2 DEF Backup!LastPage, Backup!MailFails, Backup!NoPicker
  <2>. QED
    BY <2>1, EndedKeeps
<1>3. CASE Backup!Page
  <2>1. PICK r \in MailRuns :
          /\ Backup!Run(r).at = "page"
          /\ IF Backup!ShouldStop(r) THEN Backup!Ended(r, Backup!Complete(r, TRUE))
             ELSE /\ srv' = [srv EXCEPT !.run[r].found = TRUE,
                                       !.run[r].late = @ \/ Backup!Run(r).asked]
                  /\ ui' = [ui EXCEPT !.picker.items =
                              IF ui.picker.open /\ ~Backup!Run(r).cancelled THEN {r} ELSE @]
    BY <1>3 DEF Backup!Page
  <2>2. CASE Backup!ShouldStop(r)
    BY <1>1, <2>1, <2>2, EndedKeeps
  <2>3. CASE ~Backup!ShouldStop(r)
    <3> DEFINE run == [Backup!Run(r) EXCEPT !.found = TRUE, !.late = @ \/ Backup!Run(r).asked]
    <3>1. srv' = [srv EXCEPT !.run[r].found = TRUE, !.run[r].late = @ \/ Backup!Run(r).asked]
      BY <2>1, <2>3
    <3>2. srv' = [srv EXCEPT !.run[r] = run]
      BY <3>1 DEF Backup!Run, RetrievalInv, RetrievalFields, Backup!Runs
    <3>3. {"at", "want", "found", "popup", "cancelled", "asked", "late"} \subseteq DOMAIN Backup!Run(r)
      BY DEF RetrievalInv, RetrievalFields, Backup!Run, Backup!Runs
    <3>4. /\ DOMAIN ui' = DOMAIN ui /\ ui'.stop = ui.stop /\ ui'.raced = ui.raced
          /\ {"open", "of", "items", "fetching"} \subseteq DOMAIN ui'.picker
      BY <2>1, <2>3 DEF RetrievalInv, RetrievalFields
    <3>5. /\ {"at", "want", "found", "popup", "cancelled", "asked", "late"} \subseteq DOMAIN run
          /\ run.at = "page" /\ run.asked = Backup!Run(r).asked
          /\ run.late <=> Backup!Run(r).late \/ Backup!Run(r).asked
      BY <2>1, <3>3
    <3>6. /\ run.asked => ui'.stop \/ ui'.raced
          /\ run.late => ui'.raced
      BY <2>3, <3>4, <3>5 DEF RetrievalInv, AskedIsHeard, Backup!ShouldStop, Backup!Run
    <3> HIDE DEF run
    <3>. QED
      BY <3>2, <3>4, <3>5, <3>6, ListingKeeps
  <2>. QED
    BY <2>2, <2>3
<1>. QED
  BY <1>2, <1>3

(* ... and so does every step; ...                                         *)
LEMMA RetrievalStep == RetrievalInv /\ [Backup!Next]_Backup!vars => RetrievalInv'
<1> SUFFICES ASSUME RetrievalInv, [Backup!Next]_Backup!vars PROVE RetrievalInv'
  OBVIOUS
<1> DEFINE noMail == Backup!Run("google").at \in {"none", "token", "drive", "session", "poll"}
<1>1. ASSUME UNCHANGED srv, DOMAIN ui' = DOMAIN ui, ui'.stop = ui.stop,
             {"open", "of", "items", "fetching"} \subseteq DOMAIN ui'.picker,
             Backup!Listing # {} => (ui'.raced <=> ui.raced)
      PROVE  RetrievalInv'
  BY <1>1 DEF RetrievalInv, RetrievalFields, AskedIsHeard, Backup!Listing, Backup!Run
<1>2. CASE UNCHANGED <<ui, srv>>
  BY <1>2 DEF RetrievalInv, RetrievalFields, AskedIsHeard
<1>3. CASE \/ Backup!OpenService \/ Backup!OpenProvider \/ Backup!ChooseProvider
           \/ Backup!CancelQuestion \/ Backup!CloseGooglePicker
  <2>1. /\ UNCHANGED srv /\ DOMAIN ui' = DOMAIN ui /\ ui'.stop = ui.stop
        /\ ui'.picker = ui.picker /\ ui'.raced = ui.raced
    BY <1>3 DEF Backup!OpenService, Backup!OpenProvider, Backup!ChooseProvider,
       Backup!CancelQuestion, Backup!CloseGooglePicker, RetrievalInv, RetrievalFields
  <2>. QED
    BY <1>1, <2>1 DEF RetrievalInv, RetrievalFields
<1>4. CASE Backup!ChooseServices
  <2>1. PICK want \in SUBSET Backup!Kinds \ {{}}, popup \in BOOLEAN :
          srv' = [srv EXCEPT !.run["google"] = [Backup!NoRun EXCEPT !.at = "token", !.want = want, !.popup = popup]]
    BY <1>4 DEF Backup!ChooseServices
  <2>2. /\ DOMAIN ui' = DOMAIN ui /\ ui'.picker = ui.picker /\ ui'.stop = ui.stop /\ ui'.raced = ui.raced
        /\ srv'.run["google"] = [Backup!NoRun EXCEPT !.at = "token", !.want = want, !.popup = popup]
    BY <1>4, <2>1 DEF Backup!ChooseServices, RetrievalInv, RetrievalFields, Backup!Runs
  <2>. QED
    BY <1>4, <2>1, <2>2, GoogleKeeps DEF Backup!ChooseServices, Backup!NoRun
<1>5. CASE Backup!Token
  <2>1. {"at", "want", "found", "popup", "cancelled", "asked", "late"} \subseteq DOMAIN Backup!Run("google")
    BY DEF RetrievalInv, RetrievalFields, Backup!Run, Backup!Runs
  <2>. QED
    BY <1>5, <2>1, GoogleGoOnKeeps DEF Backup!Token
<1>6. CASE Backup!ListDrive
  <2>1. PICK some \in BOOLEAN :
          Backup!GoogleGoOn([Backup!Run("google") EXCEPT !.found = some],
                            Backup!AfterDrive([Backup!Run("google") EXCEPT !.found = some]))
    BY <1>6 DEF Backup!ListDrive
  <2>2. {"at", "want", "found", "popup", "cancelled", "asked", "late"} \subseteq DOMAIN Backup!Run("google")
    BY DEF RetrievalInv, RetrievalFields, Backup!Run, Backup!Runs
  <2>. QED
    BY <1>6, <2>1, <2>2, GoogleGoOnKeeps DEF Backup!ListDrive
<1>7. CASE Backup!OpenSession
  <2>1. CASE Backup!GoogleEnd(Backup!Run("google"))
    BY <1>7, <2>1, GoogleEndKeeps DEF Backup!OpenSession
  <2>2. CASE srv' = [srv EXCEPT !.run["google"].at = "poll"] /\ UNCHANGED ui
    <3>1. srv'.run["google"] = [Backup!Run("google") EXCEPT !.at = "poll"]
          /\ srv' = [srv EXCEPT !.run["google"] = srv'.run["google"]]
          /\ {"at", "want", "found", "popup", "cancelled", "asked", "late"} \subseteq DOMAIN Backup!Run("google")
      BY <2>2 DEF RetrievalInv, RetrievalFields, Backup!Run, Backup!Runs
    <3>2. "google" \in MailRuns => ~Backup!Run("google").asked /\ ~Backup!Run("google").late
      BY <1>7 DEF RetrievalInv, AskedIsHeard, Backup!Run, Backup!OpenSession
    <3>. QED
      BY <1>7, <2>2, <3>1, <3>2, GoogleKeeps DEF Backup!OpenSession
  <2>. QED
    BY <1>7, <2>1, <2>2 DEF Backup!OpenSession
<1>8. CASE Backup!Poll \/ Backup!ClosePhotos \/ Backup!GoogleFails
  <2>1. \E end : Backup!GoogleEnd(end)
    BY <1>8 DEF Backup!Poll, Backup!ClosePhotos, Backup!GoogleFails
  <2>. QED
    BY <1>8, <2>1, GoogleEndKeeps DEF Backup!Poll, Backup!ClosePhotos, Backup!GoogleFails
<1>9. CASE Backup!CancelGoogle
  <2>1. /\ UNCHANGED ui /\ DOMAIN srv' = DOMAIN srv /\ DOMAIN srv'.run = DOMAIN srv.run
        /\ \A r \in Backup!Runs :
              /\ DOMAIN srv'.run[r] = DOMAIN srv.run[r] /\ srv'.run[r].at = srv.run[r].at
              /\ srv'.run[r].asked = srv.run[r].asked /\ srv'.run[r].late = srv.run[r].late
    BY <1>9 DEF Backup!CancelGoogle, RetrievalInv, RetrievalFields, Backup!Runs
  <2>. QED
    BY <2>1 DEF RetrievalInv, RetrievalFields, AskedIsHeard, Backup!Runs
<1>10. CASE Backup!ChooseCriteria
  <2>1. PICK r \in MailRuns :
          /\ srv' = [srv EXCEPT !.run[r] = [Backup!NoRun EXCEPT !.at = "signin"]]
          /\ ui' = [ui EXCEPT !.win = "none", !.load = TRUE, !.stop = FALSE, !.cancelRef = r,
                               !.raced = Backup!Listing # {}]
    BY <1>10 DEF Backup!ChooseCriteria
  <2>2. /\ DOMAIN ui' = DOMAIN ui /\ ui'.picker = ui.picker /\ (Backup!Listing # {} => ui'.raced)
    BY <2>1 DEF RetrievalInv, RetrievalFields
  <2>. QED
    BY <2>1, <2>2, ListingKeeps DEF Backup!NoRun, RetrievalInv, RetrievalFields
<1>11. CASE Backup!CancelMail
  <2>1. /\ DOMAIN ui' = DOMAIN ui /\ ui'.picker = ui.picker /\ ui'.stop /\ ui'.raced = ui.raced
        /\ DOMAIN srv' = DOMAIN srv /\ DOMAIN srv'.run = DOMAIN srv.run
        /\ \A r \in Backup!Runs :
              /\ DOMAIN srv'.run[r] = DOMAIN srv.run[r] /\ srv'.run[r].at = srv.run[r].at
              /\ srv'.run[r].asked = srv.run[r].asked /\ srv'.run[r].late = srv.run[r].late
    BY <1>11 DEF Backup!CancelMail, RetrievalInv, RetrievalFields, Backup!Runs
  <2>. QED
    BY <2>1 DEF RetrievalInv, RetrievalFields, AskedIsHeard, Backup!Runs
<1>12. CASE Backup!SignIn \/ Backup!Address
  BY <1>12, MailOpensKeeps
<1>13. CASE Backup!LastPage \/ Backup!Page \/ Backup!MailFails
  BY <1>13, MailPageKeeps
<1>14. CASE Backup!StopFetching \/ Backup!CloseMailPicker
  <2>1. /\ srv' = [srv EXCEPT !.run = Backup!Asked] /\ DOMAIN ui' = DOMAIN ui /\ ui'.stop
        /\ {"open", "of", "items", "fetching"} \subseteq DOMAIN ui'.picker
    BY <1>14 DEF Backup!StopFetching, Backup!CloseMailPicker, Backup!NoPicker, RetrievalInv, RetrievalFields
  <2>2. ui.raced => ui'.raced \/ Backup!Listing = {}
    BY <1>14 DEF Backup!StopFetching, Backup!CloseMailPicker, RetrievalInv, RetrievalFields
  <2>. QED
    BY <2>1, <2>2, AskedKeeps
<1>15. CASE Backup!StartBackground
  <2>1. /\ UNCHANGED srv /\ DOMAIN ui' = DOMAIN ui /\ ui'.stop = ui.stop /\ ui'.picker = Backup!NoPicker
        /\ Backup!Listing # {} => (ui'.raced <=> ui.raced)
    BY <1>15 DEF Backup!StartBackground, RetrievalInv, RetrievalFields
  <2>. QED
    BY <1>1, <2>1 DEF Backup!NoPicker
<1>. QED
  BY <1>2, <1>3, <1>4, <1>5, <1>6, <1>7, <1>8, <1>9, <1>10, <1>11, <1>12, <1>13, <1>14, <1>15
  DEF Backup!Next, Backup!vars

(* ... no step opens a picker for what was cancelled.                      *)
LEMMA CancelledStays == RetrievalInv /\ [Backup!Next]_Backup!vars => Backup!StaysCancelled
<1> SUFFICES ASSUME RetrievalInv, [Backup!Next]_Backup!vars PROVE Backup!StaysCancelled
  OBVIOUS
<1> DEFINE run == Backup!Run("google")
<1>1. /\ {"dev", "win", "load", "gload", "picker", "gpicker", "cancelRef", "stop", "raced"} \subseteq DOMAIN ui
      /\ {"open", "of", "items", "fetching"} \subseteq DOMAIN ui.picker
      /\ {"at", "want", "found", "popup", "cancelled", "asked", "late"} \subseteq DOMAIN run
  BY DEF RetrievalInv, RetrievalFields, Backup!Run, Backup!Runs
<1>2. ASSUME NEW end, end.cancelled = run.cancelled, Backup!GoogleEnd(end) PROVE Backup!StaysCancelled
  BY <1>1, <1>2 DEF Backup!GoogleEnd, Backup!Shown, Backup!StaysCancelled
<1>3. ASSUME UNCHANGED ui PROVE Backup!StaysCancelled
  BY <1>3 DEF Backup!StaysCancelled
<1>4. ASSUME NEW end, end.cancelled = run.cancelled, "found" \in DOMAIN end, "cancelled" \in DOMAIN end,
             NEW next, Backup!GoogleGoOn(end, next)
      PROVE  Backup!StaysCancelled
  <2>1. end.cancelled = [end EXCEPT !.found = FALSE].cancelled
    BY <1>4
  <2>. QED
    BY <1>2, <1>3, <1>4, <2>1 DEF Backup!GoogleGoOn
<1>5. ASSUME ui'.gpicker => ui.gpicker, ui'.picker.open => ui.picker.open PROVE Backup!StaysCancelled
  BY <1>5 DEF Backup!StaysCancelled
<1>6. CASE UNCHANGED <<ui, srv>> \/ Backup!CancelGoogle
  BY <1>3, <1>6 DEF Backup!CancelGoogle
<1>7. CASE \/ Backup!OpenService \/ Backup!OpenProvider \/ Backup!ChooseProvider \/ Backup!CancelQuestion
           \/ Backup!ChooseServices \/ Backup!CloseGooglePicker \/ Backup!ChooseCriteria \/ Backup!CancelMail
           \/ Backup!StopFetching \/ Backup!CloseMailPicker \/ Backup!StartBackground
  BY <1>1, <1>5, <1>7 DEF Backup!OpenService, Backup!OpenProvider, Backup!ChooseProvider,
     Backup!CancelQuestion, Backup!ChooseServices, Backup!CloseGooglePicker, Backup!ChooseCriteria,
     Backup!CancelMail, Backup!StopFetching, Backup!CloseMailPicker, Backup!StartBackground, Backup!NoPicker
<1>8. CASE Backup!Token
  BY <1>1, <1>4, <1>8 DEF Backup!Token
<1>9. CASE Backup!ListDrive
  BY <1>1, <1>4, <1>9 DEF Backup!ListDrive
<1>10. CASE Backup!OpenSession \/ Backup!ClosePhotos
  BY <1>2, <1>3, <1>10 DEF Backup!OpenSession, Backup!ClosePhotos
<1>11. CASE Backup!Poll \/ Backup!GoogleFails
  BY <1>1, <1>2, <1>11 DEF Backup!Poll, Backup!GoogleFails
<1>12. ASSUME NEW r, NEW p, Backup!Ended(r, p), p.open => ui.picker.open PROVE Backup!StaysCancelled
  <2>1. ui'.gpicker = ui.gpicker /\ ui'.picker = p
    BY <1>1, <1>12 DEF Backup!Ended
  <2>. QED
    BY <1>5, <1>12, <2>1
<1>13. \A r, found : Backup!Complete(r, found).open => ui.picker.open
  BY <1>1 DEF Backup!Complete, Backup!NoPicker
<1>14. ~Backup!NoPicker.open
  BY DEF Backup!NoPicker
<1>15. CASE Backup!SignIn
  BY <1>3, <1>12, <1>15 DEF Backup!SignIn
<1>16. CASE Backup!Address
  <2>1. CASE \E r : Backup!Ended(r, ui.picker) \/ Backup!Ended(r, Backup!NoPicker)
    BY <1>12, <1>14, <2>1
  <2>2. CASE \E r \in MailRuns :
               /\ ~Backup!Run(r).cancelled
               /\ ui' = [ui EXCEPT !.load = FALSE,
                    !.picker = [open |-> TRUE, of |-> r, items |-> {}, fetching |-> TRUE]]
    BY <1>1, <2>2 DEF Backup!StaysCancelled
  <2>. QED
    BY <1>16, <2>1, <2>2 DEF Backup!Address
<1>17. CASE Backup!LastPage \/ Backup!MailFails
  BY <1>12, <1>13, <1>14, <1>17 DEF Backup!LastPage, Backup!MailFails
<1>18. CASE Backup!Page
  <2>1. CASE \E r : Backup!Ended(r, Backup!Complete(r, TRUE))
    BY <1>12, <1>13, <2>1
  <2>2. CASE \E items : ui' = [ui EXCEPT !.picker.items = items]
    BY <1>1, <1>5, <2>2
  <2>. QED
    BY <1>18, <2>1, <2>2 DEF Backup!Page
<1>. QED
  BY <1>6, <1>7, <1>8, <1>9, <1>10, <1>11, <1>15, <1>16, <1>17, <1>18 DEF Backup!Next, Backup!vars

----------------------------------------------------------------------------
(* Recognition of a file.                                                  *)

(* The instance counts as the module does.                                 *)
LEMMA SameCount == \A S : Recognition!Cardinality(S) = Cardinality(S)
BY DEF Recognition!Cardinality, Cardinality

(* The fields the argument speaks of are there.                            *)
Work == Recognition!Colls
JobFields ==
  /\ {"on", "has", "job", "pc", "own", "mine", "dets", "in", "objs", "counted", "op", "trouble", "raced",
      "lost"} \subseteq DOMAIN srv
  /\ DOMAIN srv.job = Work /\ DOMAIN srv.pc = Work /\ DOMAIN srv.mine = Work
  /\ DOMAIN srv.in = 1..MaxDets /\ srv.dets \subseteq 1..MaxDets /\ IsFiniteSet(srv.dets)
  /\ srv.counted \in Int

(* A crop that waits for its row is of no detection and of no other job.   *)
FreshCrops ==
  \A c \in Work : srv.pc[c] = "stored" =>
    /\ \E i \in 1..MaxDets : srv.mine[c] = {i} /\ i \notin srv.dets
    /\ \A d \in Work \ {c} : srv.pc[d] = "stored" => srv.mine[c] \cap srv.mine[d] = {}

(* What is on the drive has a row or waits for it; what has a row is       *)
(* counted, or its job has yet to count it.                                *)
Uncounted(c) == IF srv.pc[c] = "kept" THEN 1 ELSE 0
CropsAccount ==
  ~srv.lost =>
    /\ \A i : i \in srv.objs <=> i \in srv.dets \/ \E c \in Work : srv.pc[c] = "stored" /\ i \in srv.mine[c]
    /\ srv.counted = Cardinality(srv.dets) - Uncounted("a") - Uncounted("b")

(* Unless two analyses met, one begins only where nothing is found.        *)
Analysing(c) == srv.pc[c] \in {"analysing", "stored"}
OneAtATime ==
  ~srv.raced => /\ \A i, j \in srv.dets : i = j
                /\ \A c \in Work : Analysing(c) => srv.dets = {} /\ \A d \in Work \ {c} : ~Analysing(d)

(* A job that is done, or about to be, has its faces in the groups.        *)
Grouped ==
  /\ \A c \in Work : srv.job[c] = "done" \/ (srv.pc[c] = "kept" /\ c \in srv.own) =>
       \E i \in srv.dets : c \in srv.in[i]
  /\ \A c \in Work : srv.pc[c] = "found" => srv.mine[c] # {}

(* The inductive invariant.                                                *)
JobInv == JobFields /\ FreshCrops /\ CropsAccount /\ OneAtATime /\ Grouped

(* It holds at first; ...                                                  *)
LEMMA JobsInitially == Recognition!Init => JobInv
<1> SUFFICES ASSUME Recognition!Init PROVE JobInv
  OBVIOUS
<1>1. /\ JobFields /\ srv.dets = {} /\ srv.objs = {} /\ srv.counted = 0
      /\ \A c \in Work : srv.pc[c] = "idle" /\ srv.job[c] = "none"
  BY FS_EmptySet DEF Recognition!Init, JobFields, Work
<1>2. Cardinality(srv.dets) = 0
  BY <1>1, FS_EmptySet
<1>. QED
  BY <1>1, <1>2 DEF JobInv, FreshCrops, CropsAccount, OneAtATime, Grouped, Analysing, Uncounted, Work,
     Recognition!Colls

(* jobs that are queued, claimed, put off or given up, a switch, a crash:  *)
(* whatever leaves the crops and the detections alone keeps it, ...        *)
LEMMA WorkKeeps ==
  ASSUME JobInv, DOMAIN srv' = DOMAIN srv,
         srv'.dets = srv.dets, srv'.in = srv.in, srv'.objs = srv.objs, srv'.counted = srv.counted,
         srv'.raced = srv.raced, srv.lost => srv'.lost,
         DOMAIN srv'.job = Work /\ DOMAIN srv'.pc = Work /\ DOMAIN srv'.mine = Work,
         \A c \in Work :
           /\ srv'.job[c] = "done" => srv.job[c] = "done"
           /\ \/ /\ srv'.pc[c] = srv.pc[c] /\ srv'.mine[c] = srv.mine[c]
                 /\ c \in srv'.own => c \in srv.own \/ srv.pc[c] # "kept"
              \/ /\ srv'.pc[c] \in {"idle", "claimed"}
                 /\ srv.pc[c] \in {"stored", "kept"} => srv'.lost
  PROVE  JobInv'
<1>1. JobFields'
  BY DEF JobInv, JobFields
<1>2. \A c \in Work : srv'.pc[c] \in {"stored", "kept", "analysing", "found"} =>
        /\ srv'.pc[c] = srv.pc[c] /\ srv'.mine[c] = srv.mine[c]
        /\ c \in srv'.own => c \in srv.own \/ srv.pc[c] # "kept"
  OBVIOUS
<1>3. FreshCrops'
  BY <1>2 DEF JobInv, FreshCrops
<1>4. CropsAccount'
  <2> SUFFICES ASSUME ~srv'.lost PROVE CropsAccount'
    BY DEF CropsAccount
  <2>1. \A c \in Work : srv.pc[c] \in {"stored", "kept"} \/ srv'.pc[c] \in {"stored", "kept"} =>
          srv'.pc[c] = srv.pc[c] /\ srv'.mine[c] = srv.mine[c]
    BY <1>2
  <2>2. "a" \in Work /\ "b" \in Work
    BY DEF Work, Recognition!Colls
  <2>3. Uncounted("a")' = Uncounted("a") /\ Uncounted("b")' = Uncounted("b")
    BY <2>1, <2>2 DEF Uncounted
  <2>4. \A i : (\E c \in Work : srv'.pc[c] = "stored" /\ i \in srv'.mine[c]) <=>
               (\E c \in Work : srv.pc[c] = "stored" /\ i \in srv.mine[c])
    BY <2>1
  <2>. QED
    BY <2>3, <2>4 DEF JobInv, CropsAccount
<1>5. OneAtATime'
  BY <1>2 DEF JobInv, OneAtATime, Analysing
<1>6. Grouped'
  BY <1>2 DEF JobInv, Grouped
<1>. QED
  BY <1>1, <1>3, <1>4, <1>5, <1>6 DEF JobInv

(* a job that ends otherwise than done before anything is stored, ...      *)
LEMMA GivenUpKeeps ==
  ASSUME JobInv, NEW c \in Work, srv.pc[c] \notin {"stored", "kept"}, NEW st, st # "done",
         \/ srv' = Recognition!Ended(srv, c, st)
         \/ srv' = Recognition!Trouble(Recognition!Ended(srv, c, st))
         \/ srv' = Recognition!Ended(Recognition!Trouble(srv), c, st)
  PROVE  JobInv'
<1>1. /\ DOMAIN srv' = DOMAIN srv /\ srv'.dets = srv.dets /\ srv'.in = srv.in /\ srv'.objs = srv.objs
      /\ srv'.counted = srv.counted /\ srv'.raced = srv.raced /\ srv'.lost = srv.lost
  BY DEF Recognition!Ended, Recognition!Trouble, JobInv, JobFields
<1>2. /\ srv'.job = [srv.job EXCEPT ![c] = IF c \in srv.own THEN st ELSE @]
      /\ srv'.own = srv.own \ {c}
      /\ srv'.pc = [srv.pc EXCEPT ![c] = "idle"] /\ srv'.mine = [srv.mine EXCEPT ![c] = {}]
  BY DEF Recognition!Ended, Recognition!Trouble, JobInv, JobFields
<1>3. /\ DOMAIN srv'.job = Work /\ DOMAIN srv'.pc = Work /\ DOMAIN srv'.mine = Work
      /\ \A d \in Work : srv'.job[d] = "done" => srv.job[d] = "done"
      /\ \A d \in Work : \/ d # c /\ srv'.pc[d] = srv.pc[d] /\ srv'.mine[d] = srv.mine[d]
                         \/ d = c /\ srv'.pc[d] = "idle"
  BY <1>2 DEF JobInv, JobFields
<1>. QED
  BY <1>1, <1>2, <1>3, WorkKeeps

(* the look for what an earlier job found, ...                             *)
LEMMA LookKeeps == ASSUME JobInv, Recognition!Look PROVE JobInv'
<1>1. PICK c \in Work :
        /\ srv.pc[c] = "claimed"
        /\ IF srv.has = {} \/ ~srv.on[c] THEN Recognition!Finish(srv, c, "skipped")
           ELSE srv' = [srv EXCEPT
             !.pc[c] = IF srv.dets = {} THEN "analysing" ELSE "found", !.mine[c] = srv.dets,
             !.raced = @ \/ (srv.dets = {} /\ \E d \in Work \ {c} : srv.pc[d] \in {"analysing", "stored"})]
  BY DEF Recognition!Look, Recognition!Existing, Work
<1>2. CASE Recognition!Finish(srv, c, "skipped")
  <2>1. \/ srv' = Recognition!Ended(srv, c, "skipped")
        \/ srv' = Recognition!Trouble(Recognition!Ended(srv, c, "processing"))
    BY <1>2 DEF Recognition!Finish
  <2>. QED
    BY <1>1, <2>1, GivenUpKeeps
<1>3. CASE srv' = [srv EXCEPT
             !.pc[c] = IF srv.dets = {} THEN "analysing" ELSE "found", !.mine[c] = srv.dets,
             !.raced = @ \/ (srv.dets = {} /\ \E d \in Work \ {c} : srv.pc[d] \in {"analysing", "stored"})]
  <2> DEFINE met == srv.dets = {} /\ \E d \in Work \ {c} : srv.pc[d] \in {"analysing", "stored"}
             next == IF srv.dets = {} THEN "analysing" ELSE "found"
  <2>1. srv' = [srv EXCEPT !.pc[c] = next, !.mine[c] = srv.dets, !.raced = @ \/ met]
    BY <1>3
  <2>2. /\ srv.dets = {} => next = "analysing"
        /\ srv.dets # {} => next = "found"
    OBVIOUS
  <2>3. ~met => srv.dets # {} \/ \A d \in Work \ {c} : ~Analysing(d)
    BY DEF Analysing
  <2> HIDE DEF met, next
  <2>4. /\ DOMAIN srv' = DOMAIN srv /\ srv'.job = srv.job /\ srv'.own = srv.own /\ srv'.dets = srv.dets
        /\ srv'.in = srv.in /\ srv'.objs = srv.objs /\ srv'.counted = srv.counted /\ srv'.lost = srv.lost
        /\ srv'.pc = [srv.pc EXCEPT ![c] = next] /\ srv'.mine = [srv.mine EXCEPT ![c] = srv.dets]
    BY <2>1 DEF JobInv, JobFields
  <2>5. srv'.raced <=> srv.raced \/ met
    BY <2>1 DEF JobInv, JobFields
  <2>6. /\ DOMAIN srv'.pc = Work /\ DOMAIN srv'.mine = Work /\ srv'.pc[c] = next /\ srv'.mine[c] = srv.dets
        /\ \A d \in Work \ {c} : srv'.pc[d] = srv.pc[d] /\ srv'.mine[d] = srv.mine[d]
    BY <2>4 DEF JobInv, JobFields
  <2>7. JobFields'
    BY <2>4, <2>6 DEF JobInv, JobFields
  <2>8. FreshCrops'
    BY <2>2, <2>4, <2>6 DEF JobInv, FreshCrops
  <2>9. CropsAccount'
    <3>1. \A d \in Work : /\ srv'.pc[d] = "kept" <=> srv.pc[d] = "kept"
                          /\ srv'.pc[d] = "stored" <=> srv.pc[d] = "stored"
                          /\ srv.pc[d] = "stored" => srv'.mine[d] = srv.mine[d]
      BY <1>1, <2>2, <2>6
    <3>2. Uncounted("a")' = Uncounted("a") /\ Uncounted("b")' = Uncounted("b")
      BY <3>1 DEF Uncounted, Work, Recognition!Colls
    <3>. QED
      BY <2>4, <3>1, <3>2 DEF JobInv, CropsAccount
  <2>10. OneAtATime'
    BY <2>2, <2>3, <2>4, <2>5, <2>6 DEF JobInv, OneAtATime, Analysing
  <2>11. Grouped'
    BY <2>2, <2>4, <2>6 DEF JobInv, Grouped
  <2>. QED
    BY <2>7, <2>8, <2>9, <2>10, <2>11 DEF JobInv
<1>. QED
  BY <1>1, <1>2, <1>3

(* an assignment of what was found, ...                                    *)
LEMMA AssignKeeps == ASSUME JobInv, Recognition!AssignToGroups PROVE JobInv'
<1>1. PICK c \in Work :
        /\ srv.pc[c] = "found"
        /\ IF srv.mine[c] \subseteq srv.dets
           THEN Recognition!Finish([srv EXCEPT !.in = [i \in DOMAIN srv.in |->
                   IF i \in srv.mine[c] THEN srv.in[i] \cup {c} ELSE srv.in[i]]], c, "done")
           ELSE Recognition!Failed(srv, c)
  BY DEF Recognition!AssignToGroups, Work
<1>2. CASE Recognition!Failed(srv, c)
  BY <1>1, <1>2, GivenUpKeeps DEF Recognition!Failed
<1>3. CASE srv.mine[c] \subseteq srv.dets
  <2> DEFINE in == [i \in DOMAIN srv.in |-> IF i \in srv.mine[c] THEN srv.in[i] \cup {c} ELSE srv.in[i]]
  <2>1. PICK st \in {"done", "processing"} :
          \/ srv' = Recognition!Ended([srv EXCEPT !.in = in], c, st)
          \/ srv' = Recognition!Trouble(Recognition!Ended([srv EXCEPT !.in = in], c, st))
    BY <1>1, <1>3 DEF Recognition!Finish
  <2>2. DOMAIN in = DOMAIN srv.in /\ \A i \in 1..MaxDets : srv.in[i] \subseteq in[i]
    BY DEF JobInv, JobFields
  <2>3. \E i \in srv.dets : c \in in[i]
    BY <1>1, <1>3 DEF JobInv, JobFields, Grouped
  <2> HIDE DEF in
  <2>4. /\ DOMAIN srv' = DOMAIN srv /\ srv'.dets = srv.dets /\ srv'.in = in /\ srv'.objs = srv.objs
        /\ srv'.counted = srv.counted /\ srv'.raced = srv.raced /\ srv'.lost = srv.lost
    BY <2>1, ZenonT(60) DEF Recognition!Ended, Recognition!Trouble, JobInv, JobFields
  <2>5. /\ srv'.job = [srv.job EXCEPT ![c] = IF c \in srv.own THEN st ELSE @]
        /\ srv'.own = srv.own \ {c}
        /\ srv'.pc = [srv.pc EXCEPT ![c] = "idle"] /\ srv'.mine = [srv.mine EXCEPT ![c] = {}]
    BY <2>1, ZenonT(60) DEF Recognition!Ended, Recognition!Trouble, JobInv, JobFields
  <2>6. /\ DOMAIN srv'.job = Work /\ DOMAIN srv'.pc = Work /\ DOMAIN srv'.mine = Work /\ srv'.pc[c] = "idle"
        /\ \A d \in Work \ {c} : /\ srv'.pc[d] = srv.pc[d] /\ srv'.mine[d] = srv.mine[d]
                                 /\ srv'.job[d] = srv.job[d]
    BY <2>5 DEF JobInv, JobFields
  <2>7. JobFields'
    BY <2>2, <2>4, <2>6 DEF JobInv, JobFields
  <2>8. FreshCrops'
    BY <2>4, <2>6 DEF JobInv, FreshCrops
  <2>9. CropsAccount'
    <3>1. \A d \in Work : /\ srv'.pc[d] = "kept" <=> srv.pc[d] = "kept"
                          /\ srv'.pc[d] = "stored" <=> srv.pc[d] = "stored"
                          /\ srv.pc[d] = "stored" => srv'.mine[d] = srv.mine[d]
      BY <1>1, <2>6
    <3>2. Uncounted("a")' = Uncounted("a") /\ Uncounted("b")' = Uncounted("b")
      BY <3>1 DEF Uncounted, Work, Recognition!Colls
    <3>. QED
      BY <2>4, <3>1, <3>2 DEF JobInv, CropsAccount
  <2>10. OneAtATime'
    BY <2>4, <2>6 DEF JobInv, OneAtATime, Analysing
  <2>11. Grouped'
    BY <2>2, <2>3, <2>4, <2>5, <2>6 DEF JobInv, JobFields, Grouped
  <2>. QED
    BY <2>7, <2>8, <2>9, <2>10, <2>11 DEF JobInv
<1>. QED
  BY <1>1, <1>2, <1>3

(* crops that are stored, ...                                              *)
LEMMA StoreKeeps == ASSUME JobInv, Recognition!StoreCrops PROVE JobInv'
<1>1. PICK c \in Work :
        /\ srv.pc[c] = "analysing"
        /\ \/ Recognition!Failed(Recognition!Trouble(srv), c)
           \/ \E i \in 1..MaxDets \ Recognition!Taken :
                srv' = [srv EXCEPT !.pc[c] = "stored", !.mine[c] = {i}, !.objs = @ \cup {i}]
  BY DEF Recognition!StoreCrops, Work
<1>2. CASE Recognition!Failed(Recognition!Trouble(srv), c)
  BY <1>1, <1>2, GivenUpKeeps DEF Recognition!Failed
<1>3. CASE \E i \in 1..MaxDets \ Recognition!Taken :
             srv' = [srv EXCEPT !.pc[c] = "stored", !.mine[c] = {i}, !.objs = @ \cup {i}]
  <2>1. PICK i \in 1..MaxDets :
          /\ i \notin srv.dets /\ \A d \in Work : i \notin srv.mine[d]
          /\ srv' = [srv EXCEPT !.pc[c] = "stored", !.mine[c] = {i}, !.objs = @ \cup {i}]
    BY <1>3 DEF Recognition!Taken, Work
  <2>2. /\ DOMAIN srv' = DOMAIN srv /\ srv'.job = srv.job /\ srv'.own = srv.own /\ srv'.dets = srv.dets
        /\ srv'.in = srv.in /\ srv'.counted = srv.counted /\ srv'.lost = srv.lost /\ srv'.raced = srv.raced
        /\ srv'.pc = [srv.pc EXCEPT ![c] = "stored"] /\ srv'.mine = [srv.mine EXCEPT ![c] = {i}]
        /\ srv'.objs = srv.objs \cup {i}
    BY <2>1 DEF JobInv, JobFields
  <2>3. /\ DOMAIN srv'.pc = Work /\ DOMAIN srv'.mine = Work /\ srv'.pc[c] = "stored" /\ srv'.mine[c] = {i}
        /\ \A d \in Work \ {c} : srv'.pc[d] = srv.pc[d] /\ srv'.mine[d] = srv.mine[d]
    BY <2>2 DEF JobInv, JobFields
  <2>4. JobFields'
    BY <2>2, <2>3 DEF JobInv, JobFields
  <2>5. FreshCrops'
    BY <2>1, <2>2, <2>3 DEF JobInv, FreshCrops
  <2>6. CropsAccount'
    <3>1. Uncounted("a")' = Uncounted("a") /\ Uncounted("b")' = Uncounted("b")
      BY <1>1, <2>3 DEF Uncounted, Work, Recognition!Colls
    <3>2. \A j : (\E d \in Work : srv'.pc[d] = "stored" /\ j \in srv'.mine[d]) <=>
                 j = i \/ \E d \in Work : srv.pc[d] = "stored" /\ j \in srv.mine[d]
      BY <1>1, <2>3
    <3>. QED
      BY <2>2, <3>1, <3>2 DEF JobInv, CropsAccount
  <2>7. OneAtATime'
    BY <1>1, <2>2, <2>3, ZenonT(60) DEF JobInv, OneAtATime, Analysing
  <2>8. Grouped'
    BY <2>2, <2>3 DEF JobInv, Grouped
  <2>. QED
    BY <2>4, <2>5, <2>6, <2>7, <2>8 DEF JobInv
<1>. QED
  BY <1>1, <1>2, <1>3

(* their rows, or their removal when these are not written, ...            *)
LEMMA RemoveKeeps ==
  ASSUME JobInv, NEW c \in Work, srv.pc[c] = "stored", NEW st, st # "done", NEW trouble,
         srv' = Recognition!Ended([Recognition!RemoveCrops(srv, c) EXCEPT !.trouble = trouble], c, st)
  PROVE  JobInv'
<1>1. /\ DOMAIN srv' = DOMAIN srv /\ srv'.dets = srv.dets /\ srv'.in = srv.in
      /\ srv'.objs = srv.objs \ srv.mine[c] /\ srv'.counted = srv.counted /\ srv'.raced = srv.raced
      /\ srv'.lost = srv.lost
  BY DEF Recognition!Ended, Recognition!RemoveCrops, JobInv, JobFields
<1>2. /\ srv'.job = [srv.job EXCEPT ![c] = IF c \in srv.own THEN st ELSE @]
      /\ srv'.own = srv.own \ {c}
      /\ srv'.pc = [srv.pc EXCEPT ![c] = "idle"] /\ srv'.mine = [srv.mine EXCEPT ![c] = {}]
  BY DEF Recognition!Ended, Recognition!RemoveCrops, JobInv, JobFields
<1>3. /\ DOMAIN srv'.job = Work /\ DOMAIN srv'.pc = Work /\ DOMAIN srv'.mine = Work
      /\ srv'.pc[c] = "idle" /\ \A d \in Work : srv'.job[d] = "done" => srv.job[d] = "done"
      /\ \A d \in Work \ {c} : srv'.pc[d] = srv.pc[d] /\ srv'.mine[d] = srv.mine[d]
  BY <1>2 DEF JobInv, JobFields
<1>4. JobFields'
  BY <1>1, <1>3 DEF JobInv, JobFields
<1>5. FreshCrops'
  BY <1>1, <1>3 DEF JobInv, FreshCrops
<1>6. CropsAccount'
  <2>1. Uncounted("a")' = Uncounted("a") /\ Uncounted("b")' = Uncounted("b")
    BY <1>3 DEF Uncounted, Work, Recognition!Colls
  <2>2. srv.mine[c] \cap srv.dets = {} /\ \A d \in Work \ {c} : srv.pc[d] = "stored" =>
                                                          srv.mine[c] \cap srv.mine[d] = {}
    BY DEF JobInv, FreshCrops
  <2>3. \A j : (\E d \in Work : srv'.pc[d] = "stored" /\ j \in srv'.mine[d]) <=>
               j \notin srv.mine[c] /\ \E d \in Work : srv.pc[d] = "stored" /\ j \in srv.mine[d]
    BY <1>3, <2>2
  <2>4. ASSUME ~srv.lost, NEW j
        PROVE  j \in srv'.objs <=> j \in srv'.dets \/ \E d \in Work : srv'.pc[d] = "stored" /\ j \in srv'.mine[d]
    BY <1>1, <2>2, <2>3, <2>4 DEF JobInv, CropsAccount
  <2>. QED
    BY <1>1, <2>1, <2>4 DEF JobInv, CropsAccount
<1>7. OneAtATime'
  BY <1>1, <1>3 DEF JobInv, OneAtATime, Analysing
<1>8. Grouped'
  BY <1>1, <1>2, <1>3 DEF JobInv, Grouped
<1>. QED
  BY <1>4, <1>5, <1>6, <1>7, <1>8 DEF JobInv

(* its row makes it a detection, of its job's group if the job has one, ... *)
LEMMA PersistKeeps == ASSUME JobInv, Recognition!PersistAndAssign PROVE JobInv'
<1>1. PICK c \in Work :
        /\ srv.pc[c] = "stored"
        /\ \/ srv' = [srv EXCEPT !.pc[c] = "kept", !.dets = srv.dets \cup srv.mine[c],
                        !.in = [i \in DOMAIN srv.in |-> IF i \in srv.mine[c] THEN {c} ELSE srv.in[i]]]
           \/ Recognition!Failed(Recognition!RemoveCrops(srv, c), c)
           \/ Recognition!Failed(Recognition!Trouble(Recognition!RemoveCrops(srv, c)), c)
  BY DEF Recognition!PersistAndAssign, Work
<1>2. CASE \/ Recognition!Failed(Recognition!RemoveCrops(srv, c), c)
           \/ Recognition!Failed(Recognition!Trouble(Recognition!RemoveCrops(srv, c)), c)
  <2>1. Recognition!RemoveCrops(srv, c) = [Recognition!RemoveCrops(srv, c) EXCEPT !.trouble = srv.trouble]
    BY DEF Recognition!RemoveCrops, JobInv, JobFields
  <2>2. \E trouble, st : /\ st # "done"
          /\ srv' = Recognition!Ended([Recognition!RemoveCrops(srv, c) EXCEPT !.trouble = trouble], c, st)
    BY <1>2, <2>1 DEF Recognition!Failed, Recognition!Trouble
  <2>. QED
    BY <1>1, <2>2, RemoveKeeps
<1>3. CASE srv' = [srv EXCEPT !.pc[c] = "kept", !.dets = srv.dets \cup srv.mine[c],
                        !.in = [i \in DOMAIN srv.in |-> IF i \in srv.mine[c] THEN {c} ELSE srv.in[i]]]
  <2> DEFINE in == [i \in DOMAIN srv.in |-> IF i \in srv.mine[c] THEN {c} ELSE srv.in[i]]
  <2>1. PICK i \in 1..MaxDets : srv.mine[c] = {i} /\ i \notin srv.dets
    BY <1>1 DEF JobInv, FreshCrops
  <2>2. DOMAIN in = 1..MaxDets /\ in[i] = {c} /\ \A j \in 1..MaxDets \ {i} : in[j] = srv.in[j]
    BY <2>1 DEF JobInv, JobFields
  <2>3. srv' = [srv EXCEPT !.pc[c] = "kept", !.dets = srv.dets \cup {i}, !.in = in]
    BY <1>3, <2>1
  <2> HIDE DEF in
  <2>4. /\ DOMAIN srv' = DOMAIN srv /\ srv'.job = srv.job /\ srv'.own = srv.own /\ srv'.mine = srv.mine
        /\ srv'.objs = srv.objs /\ srv'.counted = srv.counted /\ srv'.lost = srv.lost /\ srv'.raced = srv.raced
        /\ srv'.pc = [srv.pc EXCEPT ![c] = "kept"] /\ srv'.in = in /\ srv'.dets = srv.dets \cup {i}
    BY <2>3 DEF JobInv, JobFields
  <2>5. /\ DOMAIN srv'.pc = Work /\ srv'.pc[c] = "kept" /\ \A d \in Work \ {c} : srv'.pc[d] = srv.pc[d]
    BY <2>4 DEF JobInv, JobFields
  <2>6. IsFiniteSet(srv'.dets) /\ Cardinality(srv'.dets) = Cardinality(srv.dets) + 1
        /\ Cardinality(srv.dets) \in Nat
    BY <2>1, <2>4, FS_AddElement, FS_CardinalityType DEF JobInv, JobFields
  <2>7. JobFields'
    BY <2>1, <2>2, <2>4, <2>5, <2>6 DEF JobInv, JobFields
  <2>8. FreshCrops'
    BY <1>1, <2>1, <2>4, <2>5 DEF JobInv, FreshCrops
  <2>9. CropsAccount'
    <3>1. Uncounted("a")' + Uncounted("b")' = Uncounted("a") + Uncounted("b") + 1
      BY <1>1, <2>5 DEF Uncounted, Work, Recognition!Colls
    <3>2. \A j : (\E d \in Work : srv.pc[d] = "stored" /\ j \in srv.mine[d]) <=>
                 j = i \/ \E d \in Work : srv'.pc[d] = "stored" /\ j \in srv'.mine[d]
      BY <1>1, <2>1, <2>4, <2>5
    <3>3. Uncounted("a") \in Int /\ Uncounted("b") \in Int /\ Uncounted("a")' \in Int /\ Uncounted("b")' \in Int
      BY DEF Uncounted
    <3>4. ~srv.lost => srv'.counted = Cardinality(srv'.dets) - Uncounted("a")' - Uncounted("b")'
      BY <2>4, <2>6, <3>1, <3>3 DEF JobInv, JobFields, CropsAccount
    <3>5. ASSUME ~srv.lost, NEW j
          PROVE  j \in srv'.objs <=> j \in srv'.dets \/ \E d \in Work : srv'.pc[d] = "stored" /\ j \in srv'.mine[d]
      BY <2>4, <3>2, <3>5 DEF JobInv, CropsAccount
    <3>. QED
      BY <2>4, <3>4, <3>5 DEF CropsAccount
  <2>10. OneAtATime'
    BY <1>1, <2>4, <2>5 DEF JobInv, OneAtATime, Analysing
  <2>11. Grouped'
    BY <2>1, <2>2, <2>4, <2>5 DEF JobInv, JobFields, Grouped
  <2>. QED
    BY <2>7, <2>8, <2>9, <2>10, <2>11 DEF JobInv
<1>. QED
  BY <1>1, <1>2, <1>3

(* their count, ...                                                        *)
LEMMA CountKeeps == ASSUME JobInv, Recognition!CountCrops PROVE JobInv'
<1>1. PICK c \in Work, st \in {"done", "processing"} :
        /\ srv.pc[c] = "kept"
        /\ \/ srv' = Recognition!Ended([srv EXCEPT !.counted = @ + 1], c, st)
           \/ srv' = Recognition!Trouble(Recognition!Ended([srv EXCEPT !.counted = @ + 1], c, st))
           \/ srv' = [Recognition!Trouble(Recognition!Ended(srv, c, "done")) EXCEPT !.lost = TRUE]
  BY DEF Recognition!CountCrops, Recognition!Finish, Work
<1>2. /\ DOMAIN srv' = DOMAIN srv /\ srv'.dets = srv.dets /\ srv'.in = srv.in /\ srv'.objs = srv.objs
      /\ srv'.raced = srv.raced /\ srv'.counted \in {srv.counted, srv.counted + 1}
      /\ ~srv'.lost => ~srv.lost /\ srv'.counted = srv.counted + 1
  BY <1>1, ZenonT(60) DEF Recognition!Ended, Recognition!Trouble, JobInv, JobFields
<1>3. /\ \/ srv'.job = [srv.job EXCEPT ![c] = IF c \in srv.own THEN st ELSE @]
         \/ srv'.job = [srv.job EXCEPT ![c] = IF c \in srv.own THEN "done" ELSE @]
      /\ srv'.own = srv.own \ {c}
      /\ srv'.pc = [srv.pc EXCEPT ![c] = "idle"] /\ srv'.mine = [srv.mine EXCEPT ![c] = {}]
  BY <1>1, ZenonT(60) DEF Recognition!Ended, Recognition!Trouble, JobInv, JobFields
<1>4. /\ DOMAIN srv'.job = Work /\ DOMAIN srv'.pc = Work /\ DOMAIN srv'.mine = Work /\ srv'.pc[c] = "idle"
      /\ srv'.job[c] = srv.job[c] \/ c \in srv.own
      /\ \A d \in Work \ {c} : /\ srv'.pc[d] = srv.pc[d] /\ srv'.mine[d] = srv.mine[d]
                               /\ srv'.job[d] = srv.job[d]
  BY <1>3 DEF JobInv, JobFields
<1>5. JobFields'
  BY <1>2, <1>4 DEF JobInv, JobFields
<1>6. FreshCrops'
  BY <1>2, <1>4 DEF JobInv, FreshCrops
<1>7. CropsAccount'
  <2>1. Uncounted("a")' + Uncounted("b")' = Uncounted("a") + Uncounted("b") - 1
    BY <1>1, <1>4 DEF Uncounted, Work, Recognition!Colls
  <2>2. Uncounted("a") \in Int /\ Uncounted("b") \in Int /\ Uncounted("a")' \in Int /\ Uncounted("b")' \in Int
    BY DEF Uncounted
  <2>3. Cardinality(srv.dets) \in Nat
    BY FS_CardinalityType DEF JobInv, JobFields
  <2>4. ~srv'.lost => srv'.counted = Cardinality(srv'.dets) - Uncounted("a")' - Uncounted("b")'
    BY <1>2, <2>1, <2>2, <2>3 DEF JobInv, JobFields, CropsAccount
  <2>5. ASSUME ~srv.lost, NEW j
        PROVE  j \in srv'.objs <=> j \in srv'.dets \/ \E d \in Work : srv'.pc[d] = "stored" /\ j \in srv'.mine[d]
    <3>1. (\E d \in Work : srv'.pc[d] = "stored" /\ j \in srv'.mine[d]) <=>
          (\E d \in Work : srv.pc[d] = "stored" /\ j \in srv.mine[d])
      BY <1>1, <1>4
    <3>. QED
      BY <1>2, <2>5, <3>1 DEF JobInv, CropsAccount
  <2>. QED
    BY <1>2, <2>4, <2>5 DEF CropsAccount
<1>8. OneAtATime'
  BY <1>2, <1>4 DEF JobInv, OneAtATime, Analysing
<1>9. Grouped'
  BY <1>1, <1>2, <1>3, <1>4 DEF JobInv, Grouped
<1>. QED
  BY <1>5, <1>6, <1>7, <1>8, <1>9 DEF JobInv

(* a purge, which leaves what other groups show, ...                       *)
LEMMA PurgeKeeps == ASSUME JobInv, Recognition!PurgeRecognitionData PROVE JobInv'
<1> DEFINE C == Recognition!C  gone == Recognition!Orphans(C)
<1>1. /\ gone \subseteq srv.dets /\ \A i \in gone : srv.in[i] \subseteq {C}
  BY DEF Recognition!Orphans
<1>2. srv' = [srv EXCEPT !.dets = srv.dets \ gone, !.in = [i \in DOMAIN srv.in |-> srv.in[i] \ {C}],
                         !.job[C] = "none", !.own = srv.own \ {C}, !.op = Recognition!NoOp,
                         !.objs = srv.objs \ gone, !.counted = srv.counted - Cardinality(gone)]
  BY SameCount DEF Recognition!PurgeRecognitionData
<1> HIDE DEF gone, C
<1>3. /\ DOMAIN srv' = DOMAIN srv /\ srv'.dets = srv.dets \ gone /\ srv'.objs = srv.objs \ gone
      /\ srv'.counted = srv.counted - Cardinality(gone) /\ srv'.own = srv.own \ {C}
      /\ srv'.pc = srv.pc /\ srv'.mine = srv.mine /\ srv'.raced = srv.raced /\ srv'.lost = srv.lost
      /\ srv'.in = [i \in DOMAIN srv.in |-> srv.in[i] \ {C}] /\ srv'.job = [srv.job EXCEPT ![C] = "none"]
  BY <1>2 DEF JobInv, JobFields
<1>4. /\ DOMAIN srv'.in = 1..MaxDets /\ \A i \in 1..MaxDets : srv'.in[i] = srv.in[i] \ {C}
      /\ DOMAIN srv'.job = Work /\ \A c \in Work : srv'.job[c] = IF c = C THEN "none" ELSE srv.job[c]
  BY <1>3 DEF JobInv, JobFields
<1>5. /\ IsFiniteSet(srv'.dets) /\ Cardinality(srv'.dets) = Cardinality(srv.dets) - Cardinality(gone)
      /\ Cardinality(srv.dets) \in Nat /\ Cardinality(gone) \in Nat
  <2>1. IsFiniteSet(gone) /\ srv.dets \cap gone = gone
    BY <1>1, FS_Subset DEF JobInv, JobFields
  <2>2. IsFiniteSet(srv.dets)
    BY DEF JobInv, JobFields
  <2>3. IsFiniteSet(srv.dets \ gone) /\ Cardinality(srv.dets \ gone) = Cardinality(srv.dets) - Cardinality(gone)
    BY <2>1, <2>2, FS_Difference
  <2>4. Cardinality(srv.dets) \in Nat /\ Cardinality(gone) \in Nat
    BY <2>1, <2>2, FS_CardinalityType
  <2>. QED
    BY <1>3, <2>3, <2>4
<1>6. JobFields'
  BY <1>3, <1>4, <1>5 DEF JobInv, JobFields
<1>7. FreshCrops'
  BY <1>3 DEF JobInv, FreshCrops
<1>8. CropsAccount'
  <2>1. Uncounted("a")' = Uncounted("a") /\ Uncounted("b")' = Uncounted("b")
        /\ Uncounted("a") \in Int /\ Uncounted("b") \in Int
    BY <1>3 DEF Uncounted
  <2>2. ~srv.lost => srv'.counted = Cardinality(srv'.dets) - Uncounted("a")' - Uncounted("b")'
    BY <1>3, <1>5, <2>1 DEF JobInv, JobFields, CropsAccount
  <2>3. ASSUME ~srv.lost, NEW j
        PROVE  j \in srv'.objs <=> j \in srv'.dets \/ \E d \in Work : srv'.pc[d] = "stored" /\ j \in srv'.mine[d]
    BY <1>1, <1>3, <2>3 DEF JobInv, CropsAccount, FreshCrops
  <2>. QED
    BY <1>3, <2>2, <2>3 DEF CropsAccount
<1>9. OneAtATime'
  BY <1>3 DEF JobInv, OneAtATime, Analysing
<1>10. Grouped'
  <2>1. ASSUME NEW c \in Work, srv'.job[c] = "done" \/ (srv'.pc[c] = "kept" /\ c \in srv'.own)
        PROVE  \E i \in srv'.dets : c \in srv'.in[i]
    <3>1. c # C
      BY <1>3, <1>4, <2>1
    <3>2. PICK i \in srv.dets : c \in srv.in[i]
      BY <1>3, <1>4, <2>1, <3>1 DEF JobInv, Grouped
    <3>3. i \notin gone /\ i \in 1..MaxDets
      BY <1>1, <3>1, <3>2 DEF JobInv, JobFields
    <3>. QED
      BY <1>3, <1>4, <3>1, <3>2, <3>3
  <2>. QED
    BY <1>3, <2>1 DEF JobInv, Grouped
<1>. QED
  BY <1>6, <1>7, <1>8, <1>9, <1>10 DEF JobInv

(* and a deletion, which gives back what the rows take; ...                *)
LEMMA DeleteKeeps == ASSUME JobInv, Recognition!DeleteFile PROVE JobInv'
<1>1. srv' = [srv EXCEPT !.has = {}, !.dets = {}, !.in = [i \in DOMAIN srv.in |-> {}],
                !.job = [c \in Work |-> "none"], !.own = {},
                !.objs = srv.objs \ srv.dets, !.counted = srv.counted - Cardinality(srv.dets)]
  BY SameCount DEF Recognition!DeleteFile, Recognition!Refund, Work
<1>2. /\ DOMAIN srv' = DOMAIN srv /\ srv'.dets = {} /\ srv'.objs = srv.objs \ srv.dets
      /\ srv'.counted = srv.counted - Cardinality(srv.dets) /\ srv'.own = {}
      /\ srv'.pc = srv.pc /\ srv'.mine = srv.mine /\ srv'.raced = srv.raced /\ srv'.lost = srv.lost
      /\ srv'.in = [i \in DOMAIN srv.in |-> {}] /\ srv'.job = [c \in Work |-> "none"]
  BY <1>1 DEF JobInv, JobFields
<1>3. /\ IsFiniteSet(srv'.dets) /\ Cardinality(srv'.dets) = 0 /\ Cardinality(srv.dets) \in Nat
  BY <1>2, FS_EmptySet, FS_CardinalityType DEF JobInv, JobFields
<1>4. JobFields' /\ FreshCrops' /\ OneAtATime' /\ Grouped'
  BY <1>2, <1>3 DEF JobInv, JobFields, FreshCrops, OneAtATime, Grouped, Analysing
<1>5. CropsAccount'
  <2>1. Uncounted("a")' = Uncounted("a") /\ Uncounted("b")' = Uncounted("b")
        /\ Uncounted("a") \in Int /\ Uncounted("b") \in Int
    BY <1>2 DEF Uncounted
  <2>2. ~srv.lost => srv'.counted = Cardinality(srv'.dets) - Uncounted("a")' - Uncounted("b")'
    BY <1>2, <1>3, <2>1 DEF JobInv, JobFields, CropsAccount
  <2>3. ASSUME ~srv.lost, NEW j
        PROVE  j \in srv'.objs <=> j \in srv'.dets \/ \E d \in Work : srv'.pc[d] = "stored" /\ j \in srv'.mine[d]
    BY <1>2, <2>3 DEF JobInv, CropsAccount, FreshCrops
  <2>. QED
    BY <1>2, <2>2, <2>3 DEF CropsAccount
<1>. QED
  BY <1>4, <1>5 DEF JobInv

(* ... and so does every step; ...                                         *)
LEMMA JobStep == JobInv /\ [Recognition!Next]_Recognition!vars => JobInv'
<1> SUFFICES ASSUME JobInv, [Recognition!Next]_Recognition!vars PROVE JobInv'
  OBVIOUS
<1>1. CASE UNCHANGED srv
  BY <1>1 DEF JobInv, JobFields, FreshCrops, CropsAccount, OneAtATime, Grouped, Analysing, Uncounted
<1>2. CASE Recognition!ConfirmToggle
  <2>1. /\ DOMAIN srv' = DOMAIN srv /\ srv'.dets = srv.dets /\ srv'.in = srv.in /\ srv'.objs = srv.objs
        /\ srv'.counted = srv.counted /\ srv'.raced = srv.raced /\ srv'.lost = srv.lost
        /\ srv'.job = srv.job /\ srv'.pc = srv.pc /\ srv'.mine = srv.mine /\ srv'.own = srv.own
    BY <1>2 DEF Recognition!ConfirmToggle, Recognition!SetEnabled, JobInv, JobFields
  <2>. QED
    BY <2>1, WorkKeeps DEF JobInv, JobFields
<1>3. CASE Recognition!EnqueueCollection \/ Recognition!DeletePending \/ Recognition!Copied
  <2>1. /\ DOMAIN srv' = DOMAIN srv /\ srv'.dets = srv.dets /\ srv'.in = srv.in /\ srv'.objs = srv.objs
        /\ srv'.counted = srv.counted /\ srv'.raced = srv.raced /\ srv'.lost = srv.lost
        /\ srv'.pc = srv.pc /\ srv'.mine = srv.mine /\ srv'.own = srv.own
        /\ \/ srv'.job = srv.job
           \/ \E d, has : srv'.job = [srv.job EXCEPT ![d] = IF d \in has /\ @ = "none" THEN "pending" ELSE @]
           \/ \E d : srv'.job = [srv.job EXCEPT ![d] = IF @ = "pending" THEN "none" ELSE @]
    <3>1. CASE Recognition!EnqueueCollection
      BY <3>1 DEF Recognition!EnqueueCollection, Recognition!Queued, JobInv, JobFields
    <3>2. CASE Recognition!DeletePending
      BY <3>2 DEF Recognition!DeletePending, JobInv, JobFields
    <3>3. CASE Recognition!Copied
      BY <3>3 DEF Recognition!Copied, Recognition!Queued, JobInv, JobFields
    <3>. QED
      BY <1>3, <3>1, <3>2, <3>3
  <2>2. DOMAIN srv'.job = Work /\ \A c \in Work : srv'.job[c] = "done" => srv.job[c] = "done"
    BY <2>1 DEF JobInv, JobFields
  <2>. QED
    BY <2>1, <2>2, WorkKeeps DEF JobInv, JobFields
<1>4. CASE Recognition!Claim
  <2>1. /\ DOMAIN srv' = DOMAIN srv /\ srv'.dets = srv.dets /\ srv'.in = srv.in /\ srv'.objs = srv.objs
        /\ srv'.counted = srv.counted /\ srv'.raced = srv.raced /\ srv'.lost = srv.lost
        /\ srv'.mine = srv.mine /\ DOMAIN srv'.job = Work /\ DOMAIN srv'.pc = Work
        /\ \A c \in Work : srv.pc[c] = "idle" /\ srv'.pc[c] \in {"idle", "claimed"}
        /\ \A c \in Work : srv'.job[c] = "done" => srv.job[c] = "done"
    BY <1>4 DEF Recognition!Claim, Recognition!Idle, JobInv, JobFields, Work
  <2>. QED
    BY <2>1, WorkKeeps DEF JobInv, JobFields
<1>5. CASE Recognition!Restart
  <2>1. /\ DOMAIN srv' = DOMAIN srv /\ srv'.dets = srv.dets /\ srv'.in = srv.in /\ srv'.objs = srv.objs
        /\ srv'.counted = srv.counted /\ srv'.raced = srv.raced
        /\ DOMAIN srv'.job = Work /\ DOMAIN srv'.pc = Work /\ DOMAIN srv'.mine = Work
        /\ \A c \in Work : srv'.pc[c] = "idle"
        /\ \A c \in Work : srv'.job[c] = "done" => srv.job[c] = "done"
    BY <1>5 DEF Recognition!Restart, Recognition!Trouble, JobInv, JobFields, Work
  <2>2. (srv.lost \/ \E c \in Work : srv.pc[c] \in {"stored", "kept"}) => srv'.lost
    BY <1>5 DEF Recognition!Restart, Recognition!Trouble, JobInv, JobFields, Work
  <2>. QED
    BY <2>1, <2>2, WorkKeeps
<1>. QED
  BY <1>1, <1>2, <1>3, <1>4, <1>5, LookKeeps, AssignKeeps, StoreKeeps, PersistKeeps, CountKeeps,
     PurgeKeeps, DeleteKeeps
  DEF Recognition!Next, Recognition!vars, Recognition!AskToggle, Recognition!CancelToggle

(* ... and it is what the worker and the switch promise, and more.         *)
LEMMA JobPromises ==
  JobInv => Recognition!CropsAccounted /\ Recognition!OneAnalysis /\ Recognition!IndexedWhenDone
<1> SUFFICES ASSUME JobInv
             PROVE  Recognition!CropsAccounted /\ Recognition!OneAnalysis /\ Recognition!IndexedWhenDone
  OBVIOUS
<1>1. Recognition!IndexedWhenDone
  BY DEF JobInv, Grouped, Recognition!IndexedWhenDone, Work
<1>2. Recognition!OneAnalysis
  <2> SUFFICES ASSUME ~srv.raced PROVE Cardinality(srv.dets) <= 1
    BY SameCount DEF Recognition!OneAnalysis
  <2>1. CASE srv.dets = {}
    BY <2>1, FS_EmptySet
  <2>2. CASE srv.dets # {}
    <3>1. PICK i : srv.dets = {i}
      BY <2>2 DEF JobInv, OneAtATime
    <3>2. Cardinality({i}) = 1
      BY FS_Singleton
    <3>. QED
      BY <3>1, <3>2
  <2>. QED
    BY <2>1, <2>2
<1>3. Recognition!CropsAccounted
  <2> SUFFICES ASSUME Recognition!Idle, ~srv.lost
               PROVE  srv.objs = srv.dets /\ srv.counted = Cardinality(srv.dets)
    BY SameCount DEF Recognition!CropsAccounted, Recognition!AtRest
  <2>1. \A c \in Work : srv.pc[c] = "idle"
    BY DEF Recognition!Idle, Work
  <2>2. Uncounted("a") = 0 /\ Uncounted("b") = 0 /\ Cardinality(srv.dets) \in Nat
    BY <2>1, FS_CardinalityType DEF Uncounted, Work, Recognition!Colls, JobInv, JobFields
  <2>3. \A i : i \in srv.objs <=> i \in srv.dets
    BY <2>1 DEF JobInv, CropsAccount
  <2>4. srv.counted = Cardinality(srv.dets)
    BY <2>2 DEF JobInv, CropsAccount
  <2>. QED
    BY <2>3, <2>4
<1>. QED
  BY <1>1, <1>2, <1>3

----------------------------------------------------------------------------
(* Uploading from the page.                                                *)

(* The fields the argument speaks of are there.                            *)
RunFields == {"kind", "ok", "bad", "task", "open", "shown", "at"}
Sending == {"presign", "put", "chunk", "complete"}
Ended == {"done", "failed"}
UploadFields ==
  /\ {"pick", "live", "away"} \subseteq DOMAIN ui
  /\ {"files", "open", "all", "room"} \subseteq DOMAIN ui.pick
  /\ {"status", "batch", "item", "ok", "bad"} \subseteq DOMAIN ui.live
  /\ DOMAIN ui.live.item = 1..2 /\ ui.live.bad \in Int
  /\ {"run", "room", "redirect", "faults", "overlapped"} \subseteq DOMAIN srv
  /\ srv.redirect \in {"off", "beside", "elsewhere"} /\ DOMAIN srv.run = Uploads!Batches
  /\ \A b \in Uploads!Batches :
       /\ RunFields \subseteq DOMAIN srv.run[b] /\ srv.run[b].kind \in {"none", "first", "retry", "over"}
       /\ srv.run[b].bad \in Int /\ DOMAIN srv.run[b].task = 1..2
       /\ \A i \in 1..2 : {"st", "try", "sent"} \subseteq DOMAIN srv.run[b].task[i]

(* A run has something to do from its start to its end.                    *)
St(b, i) == srv.run[b].task[i].st
RunsOfTasks ==
  \A b \in Uploads!Batches : \A i \in Uploads!Items(b) :
    /\ srv.run[b].kind = "none" => St(b, i) = "none"
    /\ srv.run[b].kind = "over" => St(b, i) \in Ended

(* What the modal showed is what the run was given, and what it stores.    *)
LocksGiven ==
  \A b \in Uploads!Batches : srv.run[b].kind # "none" =>
    /\ srv.redirect = "beside" => srv.run[b].open = srv.run[b].shown
    /\ srv.redirect = "off" => Uploads!Items(b) \subseteq srv.run[b].shown
Kept(b, i) == \E p \in {"here", "redirect"} : <<i, p>> \in srv.run[b].at
DoneIsKept == \A b \in Uploads!Batches : \A i \in Uploads!Items(b) : St(b, i) = "done" => Kept(b, i)

(* What the toast is about.                                                *)
LiveBatch ==
  /\ \A b \in ui.away : b \in Uploads!Batches => srv.run[b].kind # "none"
  /\ ui.pick.files # 0 => ui.pick.files \in Uploads!Batches /\ srv.run[ui.pick.files].kind = "none"
  /\ ui.live.batch # 0 => /\ ui.live.batch \in Uploads!Batches \ ui.away
                          /\ srv.run[ui.live.batch].kind # "none"

(* Unless a batch was started over another, the run that is shown is the   *)
(* only one that reports; and the toast counts what has failed, in a retry *)
(* also what is tried again.                                               *)
FailedOne(b, i) == IF i \in Uploads!Items(b) /\ ui.live.item[i] = "failed" THEN 1 ELSE 0
NotDone(b, i) == IF i \in Uploads!Items(b) /\ ui.live.item[i] # "done" THEN 1 ELSE 0
ToastInStep ==
  ~srv.overlapped =>
    /\ ui.live.batch = 0 => ui.live.status = "idle"
    /\ \A b \in Uploads!Batches \ ui.away : srv.run[b].kind \in {"first", "retry"} =>
                                              b = ui.live.batch /\ ui.live.status = "uploading"
    /\ \A b \in Uploads!Batches : b = ui.live.batch /\ b # 0 =>
         /\ ui.live.status # "uploading" => srv.run[b].kind = "over"
         /\ \A i \in Uploads!Items(b) : /\ ui.live.item[i] = "done" <=> St(b, i) = "done"
                                        /\ ui.live.item[i] = "failed" <=> St(b, i) = "failed"
         /\ srv.run[b].kind = "first" => /\ ui.live.bad = FailedOne(b, 1) + FailedOne(b, 2)
                                         /\ ui.live.bad = srv.run[b].bad
         /\ srv.run[b].kind \in {"retry", "over"} => ui.live.bad = NotDone(b, 1) + NotDone(b, 2)
         /\ ui.live.status = "complete" => ui.live.bad = 0

(* The inductive invariant.                                                *)
UploadInv == /\ UploadFields /\ RunsOfTasks /\ LocksGiven /\ DoneIsKept /\ LiveBatch /\ ToastInStep
             /\ Uploads!StoredWhereShown

(* It holds at first; ...                                                  *)
LEMMA UploadInitially == Uploads!Init => UploadInv
<1> SUFFICES ASSUME Uploads!Init PROVE UploadInv
  OBVIOUS
<1>1. /\ ui = [pick |-> Uploads!NoPick, live |-> Uploads!Idle, away |-> {}]
      /\ {"run", "room", "redirect", "faults", "overlapped"} \subseteq DOMAIN srv
      /\ srv.redirect \in {"off", "beside", "elsewhere"}
      /\ srv.run = [b \in Uploads!Batches |-> Uploads!NoRun]
  BY DEF Uploads!Init
<1>2. /\ DOMAIN srv.run = Uploads!Batches /\ \A b \in Uploads!Batches : srv.run[b] = Uploads!NoRun
  BY <1>1
<1>3. \A b \in Uploads!Batches : \A i \in Uploads!Items(b) : i \in 1..2
  BY DEF Uploads!Items
<1>4. UploadFields
  BY <1>1, <1>2 DEF UploadFields, RunFields, Uploads!NoRun, Uploads!Asleep, Uploads!NoPick, Uploads!Idle
<1>5. RunsOfTasks /\ LocksGiven /\ DoneIsKept
  BY <1>2, <1>3 DEF RunsOfTasks, LocksGiven, DoneIsKept, St, Uploads!NoRun, Uploads!Asleep
<1>6. LiveBatch /\ ToastInStep
  BY <1>1, <1>2 DEF LiveBatch, ToastInStep, Uploads!NoPick, Uploads!Idle, Uploads!NoRun
<1>7. Uploads!StoredWhereShown
  BY <1>2 DEF Uploads!StoredWhereShown, Uploads!AsShown, Uploads!NoRun
<1>. QED
  BY <1>4, <1>5, <1>6, <1>7 DEF UploadInv

(* A step of one file of a run, which stores it or does not.               *)
Works(b, i) ==
  /\ DOMAIN srv' = DOMAIN srv /\ srv'.redirect = srv.redirect /\ srv'.overlapped = srv.overlapped
  /\ DOMAIN srv'.run = DOMAIN srv.run /\ \A c \in Uploads!Batches \ {b} : srv'.run[c] = srv.run[c]
  /\ DOMAIN srv'.run[b] = DOMAIN srv.run[b] /\ srv'.run[b].kind = srv.run[b].kind
  /\ srv'.run[b].open = srv.run[b].open /\ srv'.run[b].shown = srv.run[b].shown
  /\ srv'.run[b].at \in {srv.run[b].at, srv.run[b].at \cup {<<i, Uploads!Place(b, i)>>}}
  /\ DOMAIN srv'.run[b].task = 1..2 /\ {"st", "try", "sent"} \subseteq DOMAIN srv'.run[b].task[i]
  /\ \A j \in 1..2 \ {i} : srv'.run[b].task[j] = srv.run[b].task[j]
  /\ srv'.run[b].bad \in Int

(* Whatever it does, the runs and what they have stored stay right, ...    *)
LEMMA WorksKeeps ==
  ASSUME UploadInv, NEW b \in Uploads!Batches, NEW i \in Uploads!Items(b), St(b, i) \in Sending, Works(b, i),
         St(b, i)' \in Sending \cup Ended,
         St(b, i)' = "done" => srv'.run[b].at = srv.run[b].at \cup {<<i, Uploads!Place(b, i)>>},
         DOMAIN ui' = DOMAIN ui, ui'.pick = ui.pick, ui'.away = ui.away,
         DOMAIN ui'.live = DOMAIN ui.live, ui'.live.batch = ui.live.batch, ui'.live.status = ui.live.status,
         DOMAIN ui'.live.item = 1..2, ui'.live.bad \in Int
  PROVE  /\ UploadFields' /\ RunsOfTasks' /\ LocksGiven' /\ DoneIsKept' /\ LiveBatch'
         /\ Uploads!StoredWhereShown'
         /\ srv.run[b].kind \in {"first", "retry"}
<1>1. srv.run[b].kind \in {"first", "retry"} /\ i \in 1..2
  BY DEF UploadInv, UploadFields, RunsOfTasks, Sending, Ended, Uploads!Items
<1>2. UploadFields'
  BY DEF UploadInv, UploadFields, Works
<1>3. RunsOfTasks'
  BY <1>1 DEF UploadInv, RunsOfTasks, Works, St, Uploads!Items
<1>4. LocksGiven'
  BY DEF UploadInv, LocksGiven, Works
<1>5. DoneIsKept'
  <2> SUFFICES ASSUME NEW c \in Uploads!Batches, NEW j \in Uploads!Items(c), St(c, j)' = "done"
               PROVE  Kept(c, j)'
    BY DEF DoneIsKept
  <2>1. CASE c = b /\ j = i
    <3>1. Uploads!Place(b, i) \in {"here", "redirect"}
      BY DEF Uploads!Place
    <3>. QED
      BY <2>1, <3>1 DEF Kept
  <2>2. CASE ~(c = b /\ j = i)
    <3>1. St(c, j) = "done" /\ srv.run[c].at \subseteq srv'.run[c].at
      BY <2>2 DEF Works, St, Uploads!Items
    <3>. QED
      BY <3>1 DEF UploadInv, DoneIsKept, Kept
  <2>. QED
    BY <2>1, <2>2
<1>6. LiveBatch'
  BY <1>1 DEF UploadInv, LiveBatch, Works
<1>7. Uploads!StoredWhereShown'
  <2> SUFFICES ASSUME srv.redirect # "elsewhere", NEW c \in Uploads!Batches, NEW x \in srv'.run[c].at
               PROVE  x[2] = (IF x[1] \in srv'.run[c].shown THEN "here" ELSE "redirect")
    BY DEF Uploads!StoredWhereShown, Uploads!AsShown, Works
  <2>1. srv'.run[c].shown = srv.run[c].shown
    BY DEF Works
  <2>2. CASE x \in srv.run[c].at
    BY <2>1, <2>2 DEF UploadInv, Uploads!StoredWhereShown, Uploads!AsShown
  <2>3. CASE x \notin srv.run[c].at
    <3>1. c = b /\ x = <<i, Uploads!Place(b, i)>>
      BY <2>3 DEF Works
    <3>2. Uploads!Place(b, i) = IF i \in srv.run[b].shown THEN "here" ELSE "redirect"
      BY <1>1 DEF UploadInv, UploadFields, LocksGiven, Uploads!Place
    <3>. QED
      BY <2>1, <3>1, <3>2
  <2>. QED
    BY <2>2, <2>3
<1>. QED
  BY <1>1, <1>2, <1>3, <1>4, <1>5, <1>6, <1>7

(* a file that goes on or is tried again leaves the toast as it is, ...    *)
LEMMA GoesOnKeeps ==
  ASSUME UploadInv, NEW b \in Uploads!Batches, NEW i \in Uploads!Items(b), St(b, i) \in Sending, Works(b, i),
         St(b, i)' \in Sending, srv'.run[b].bad = srv.run[b].bad, UNCHANGED ui
  PROVE  UploadInv'
<1>1. /\ UploadFields' /\ RunsOfTasks' /\ LocksGiven' /\ DoneIsKept' /\ LiveBatch'
      /\ Uploads!StoredWhereShown' /\ srv.run[b].kind \in {"first", "retry"}
  <2>1. St(b, i)' # "done" /\ ui.live.bad \in Int /\ DOMAIN ui.live.item = 1..2
    BY DEF Sending, UploadInv, UploadFields
  <2>. QED
    BY <2>1, WorksKeeps
<1>2. ToastInStep'
  <2>1. \A c \in Uploads!Batches : srv'.run[c].kind = srv.run[c].kind /\ srv'.run[c].bad = srv.run[c].bad
    BY DEF Works
  <2>2. \A c \in Uploads!Batches : \A j \in Uploads!Items(c) :
          /\ St(c, j)' = "done" <=> St(c, j) = "done"
          /\ St(c, j)' = "failed" <=> St(c, j) = "failed"
    BY DEF Works, St, Sending, Uploads!Items
  <2>3. \A c, j : FailedOne(c, j)' = FailedOne(c, j) /\ NotDone(c, j)' = NotDone(c, j)
    BY DEF FailedOne, NotDone
  <2>4. UNCHANGED <<ui, srv.overlapped>>
    BY DEF Works
  <2>. QED
    BY <2>1, <2>2, <2>3, <2>4 DEF UploadInv, ToastInStep
<1>. QED
  BY <1>1, <1>2 DEF UploadInv

(* one that ends is reported to it, ...                                    *)
LEMMA EndsKeeps ==
  ASSUME UploadInv, NEW b \in Uploads!Batches, NEW i \in Uploads!Items(b), St(b, i) \in Sending, Works(b, i),
         NEW st \in Ended, St(b, i)' = st,
         st = "done" => srv'.run[b].at = srv.run[b].at \cup {<<i, Uploads!Place(b, i)>>},
         srv'.run[b].bad = srv.run[b].bad + (IF srv.run[b].kind # "retry" /\ st = "failed" THEN 1 ELSE 0),
         ui' = Uploads!Counted(Uploads!Patch(b, i, st), b, st = "done")
  PROVE  UploadInv'
<1> DEFINE shows == b \notin ui.away
           worse == srv.run[b].kind # "retry" /\ st = "failed"
           better == srv.run[b].kind = "retry" /\ st = "done"
<1>0. i \in 1..2 /\ st \in {"done", "failed"}
  BY DEF Uploads!Items, Ended
<1>1. ~shows => ui' = ui
  BY DEF Uploads!Counted, Uploads!Patch
<1>2. shows => /\ DOMAIN ui' = DOMAIN ui /\ ui'.pick = ui.pick /\ ui'.away = ui.away
               /\ DOMAIN ui'.live = DOMAIN ui.live /\ ui'.live.batch = ui.live.batch
               /\ ui'.live.status = ui.live.status
               /\ ui'.live.item = [ui.live.item EXCEPT ![i] = st]
               /\ ui'.live.bad = IF worse THEN srv.run[b].bad + 1
                                 ELSE IF better THEN ui.live.bad - 1 ELSE ui.live.bad
  <2> SUFFICES ASSUME shows
               PROVE  /\ DOMAIN ui' = DOMAIN ui /\ ui'.pick = ui.pick /\ ui'.away = ui.away
                      /\ DOMAIN ui'.live = DOMAIN ui.live /\ ui'.live.batch = ui.live.batch
                      /\ ui'.live.status = ui.live.status
                      /\ ui'.live.item = [ui.live.item EXCEPT ![i] = st]
                      /\ ui'.live.bad = IF worse THEN srv.run[b].bad + 1
                                        ELSE IF better THEN ui.live.bad - 1 ELSE ui.live.bad
    OBVIOUS
  <2> DEFINE u == [ui EXCEPT !.live.item[i] = st]
  <2>1. u = Uploads!Patch(b, i, st)
    BY DEF Uploads!Patch
  <2>2. /\ DOMAIN u = DOMAIN ui /\ u.pick = ui.pick /\ u.away = ui.away
        /\ DOMAIN u.live = DOMAIN ui.live /\ u.live.batch = ui.live.batch /\ u.live.status = ui.live.status
        /\ u.live.item = [ui.live.item EXCEPT ![i] = st] /\ u.live.bad = ui.live.bad
    BY DEF UploadInv, UploadFields
  <2> HIDE DEF u
  <2>3. CASE srv.run[b].kind = "retry"
    BY <1>0, <2>1, <2>2, <2>3 DEF Uploads!Counted, UploadInv, UploadFields
  <2>4. CASE srv.run[b].kind # "retry"
    BY <1>0, <2>1, <2>2, <2>4 DEF Uploads!Counted, UploadInv, UploadFields
  <2>. QED
    BY <2>3, <2>4
<1>3. /\ UploadFields' /\ RunsOfTasks' /\ LocksGiven' /\ DoneIsKept' /\ LiveBatch'
      /\ Uploads!StoredWhereShown' /\ srv.run[b].kind \in {"first", "retry"}
  <2>1. /\ DOMAIN ui' = DOMAIN ui /\ ui'.pick = ui.pick /\ ui'.away = ui.away
        /\ DOMAIN ui'.live = DOMAIN ui.live /\ ui'.live.batch = ui.live.batch
        /\ ui'.live.status = ui.live.status /\ DOMAIN ui'.live.item = 1..2 /\ ui'.live.bad \in Int
    BY <1>1, <1>2 DEF UploadInv, UploadFields
  <2>. QED
    BY <2>1, WorksKeeps
<1>4. ToastInStep'
  <2> SUFFICES ASSUME ~srv.overlapped PROVE ToastInStep'
    BY DEF ToastInStep, Works
  <2>1. \A c \in Uploads!Batches : srv'.run[c].kind = srv.run[c].kind
    BY DEF Works
  <2>2. \A c \in Uploads!Batches : \A j \in Uploads!Items(c) : c # b \/ j # i => St(c, j)' = St(c, j)
    BY DEF Works, St, Uploads!Items
  <2>3. CASE ~shows
    <3>1. b # ui.live.batch \/ b = 0
      BY <2>3 DEF UploadInv, LiveBatch
    <3>2. \A c \in Uploads!Batches : c = ui.live.batch /\ c # 0 =>
            srv'.run[c].bad = srv.run[c].bad /\ \A j \in Uploads!Items(c) : St(c, j)' = St(c, j)
      BY <2>2, <3>1 DEF Works
    <3>3. \A c, j : FailedOne(c, j)' = FailedOne(c, j) /\ NotDone(c, j)' = NotDone(c, j)
      BY <1>1, <2>3 DEF FailedOne, NotDone
    <3>. QED
      BY <1>1, <2>1, <2>3, <3>2, <3>3 DEF UploadInv, ToastInStep, Works
  <2>4. CASE shows
    <3>1. b = ui.live.batch /\ ui.live.status = "uploading"
      BY <1>3, <2>4 DEF UploadInv, ToastInStep
    <3>2. CASE b = 0
      BY <1>2, <2>1, <2>4, <3>1, <3>2 DEF UploadInv, ToastInStep, Works, LiveBatch
    <3>3. CASE b # 0
      <4>1. /\ \A j \in Uploads!Items(b) : /\ ui.live.item[j] = "done" <=> St(b, j) = "done"
                                           /\ ui.live.item[j] = "failed" <=> St(b, j) = "failed"
            /\ srv.run[b].kind = "first" => /\ ui.live.bad = FailedOne(b, 1) + FailedOne(b, 2)
                                            /\ ui.live.bad = srv.run[b].bad
            /\ srv.run[b].kind = "retry" => ui.live.bad = NotDone(b, 1) + NotDone(b, 2)
        BY <3>1, <3>3 DEF UploadInv, ToastInStep
      <4>2. DOMAIN ui.live.item = 1..2 /\ ui.live.bad \in Int /\ srv.run[b].bad \in Int
        BY DEF UploadInv, UploadFields
      <4>3. /\ ui'.live.item[i] = st /\ \A j \in 1..2 \ {i} : ui'.live.item[j] = ui.live.item[j]
        BY <1>0, <1>2, <2>4, <4>2
      <4>4. ui.live.item[i] \notin Ended
        BY <4>1 DEF Sending, Ended
      <4>5. \A j \in Uploads!Items(b) : /\ ui'.live.item[j] = "done" <=> St(b, j)' = "done"
                                        /\ ui'.live.item[j] = "failed" <=> St(b, j)' = "failed"
        BY <1>0, <2>2, <4>1, <4>3 DEF Uploads!Items
      <4>6. FailedOne(b, 1)' + FailedOne(b, 2)' =
              FailedOne(b, 1) + FailedOne(b, 2) + (IF st = "failed" THEN 1 ELSE 0)
        BY <1>0, <4>3, <4>4 DEF FailedOne, Ended
      <4>7. NotDone(b, 1)' + NotDone(b, 2)' = NotDone(b, 1) + NotDone(b, 2) - (IF st = "done" THEN 1 ELSE 0)
        BY <1>0, <4>3, <4>4 DEF NotDone, Ended
      <4>8. /\ NotDone(b, 1) \in Int /\ NotDone(b, 2) \in Int
            /\ FailedOne(b, 1) \in Int /\ FailedOne(b, 2) \in Int
        BY DEF NotDone, FailedOne
      <4>9. srv.run[b].kind = "first" => /\ ui'.live.bad = FailedOne(b, 1)' + FailedOne(b, 2)'
                                         /\ ui'.live.bad = srv'.run[b].bad
        BY <1>0, <1>2, <2>4, <4>1, <4>2, <4>6, <4>8
      <4>10. srv.run[b].kind = "retry" => ui'.live.bad = NotDone(b, 1)' + NotDone(b, 2)'
        BY <1>0, <1>2, <2>4, <4>1, <4>2, <4>7, <4>8
      <4>11. ui'.live.batch = b /\ ui'.live.status = "uploading" /\ ui'.away = ui.away
        BY <1>2, <2>4, <3>1
      <4>12. \A c \in Uploads!Batches \ ui.away : srv'.run[c].kind \in {"first", "retry"} =>
               c = ui'.live.batch /\ ui'.live.status = "uploading"
        BY <2>1, <3>1, <4>11 DEF UploadInv, ToastInStep
      <4>. QED
        BY <1>3, <2>1, <3>3, <4>5, <4>9, <4>10, <4>11, <4>12 DEF ToastInStep
    <3>. QED
      BY <3>2, <3>3
  <2>. QED
    BY <2>3, <2>4
<1>. QED
  BY <1>3, <1>4 DEF UploadInv

(* and so does a file that fails, on any attempt.                          *)
LEMMA FailsKeeps ==
  ASSUME UploadInv, NEW b \in Uploads!Batches, NEW i \in Uploads!Items(b), St(b, i) \in Sending,
         NEW s, Uploads!Failed(b, i, s), DOMAIN s = DOMAIN srv, s.redirect = srv.redirect,
         s.overlapped = srv.overlapped, DOMAIN s.run = DOMAIN srv.run,
         \A c \in Uploads!Batches \ {b} : s.run[c] = srv.run[c],
         DOMAIN s.run[b] = DOMAIN srv.run[b], s.run[b].kind = srv.run[b].kind, s.run[b].bad = srv.run[b].bad,
         s.run[b].task = srv.run[b].task, s.run[b].open = srv.run[b].open, s.run[b].shown = srv.run[b].shown,
         s.run[b].at \in {srv.run[b].at, srv.run[b].at \cup {<<i, Uploads!Place(b, i)>>}}
  PROVE  UploadInv'
<1>1. /\ DOMAIN srv.run[b].task = 1..2 /\ i \in 1..2 /\ RunFields \subseteq DOMAIN srv.run[b]
      /\ b \in DOMAIN srv.run /\ "run" \in DOMAIN srv /\ srv.run[b].bad \in Int
      /\ srv.run[b].kind \in {"none", "first", "retry", "over"}
      /\ {"st", "try", "sent"} \subseteq DOMAIN srv.run[b].task[i]
  BY DEF UploadInv, UploadFields, Uploads!Items
<1>2. CASE Uploads!Task(b, i).try < MaxTries
  <2>1. srv' = [s EXCEPT !.run[b].task[i] = [st |-> "presign", try |-> srv.run[b].task[i].try + 1, sent |-> 0]]
    BY <1>1, <1>2 DEF Uploads!Failed, RunFields
  <2>2. UNCHANGED ui
    BY <1>2 DEF Uploads!Failed
  <2>3. Works(b, i) /\ srv'.run[b].bad = srv.run[b].bad /\ St(b, i)' = "presign"
    BY <1>1, <2>1 DEF Works, St, RunFields
  <2>. QED
    BY <2>2, <2>3, GoesOnKeeps DEF Sending
<1>3. CASE ~(Uploads!Task(b, i).try < MaxTries)
  <2>1. srv' = Uploads!Count([s EXCEPT !.run[b].task[i].st = "failed"], b, FALSE)
    BY <1>3 DEF Uploads!Failed
  <2> DEFINE t == [s EXCEPT !.run[b].task[i].st = "failed"]
  <2>2. /\ DOMAIN t = DOMAIN srv /\ t.redirect = srv.redirect /\ t.overlapped = srv.overlapped
        /\ DOMAIN t.run = DOMAIN srv.run /\ \A c \in Uploads!Batches \ {b} : t.run[c] = srv.run[c]
        /\ DOMAIN t.run[b] = DOMAIN srv.run[b] /\ t.run[b].kind = srv.run[b].kind
        /\ t.run[b].bad = srv.run[b].bad /\ t.run[b].open = srv.run[b].open
        /\ t.run[b].shown = srv.run[b].shown /\ t.run[b].at = s.run[b].at
        /\ DOMAIN t.run[b].task = 1..2 /\ DOMAIN t.run[b].task[i] = DOMAIN srv.run[b].task[i]
        /\ t.run[b].task[i].st = "failed"
        /\ \A j \in 1..2 \ {i} : t.run[b].task[j] = srv.run[b].task[j]
    BY <1>1 DEF RunFields
  <2> HIDE DEF t
  <2>3. srv' = IF srv.run[b].kind = "retry" THEN t ELSE [t EXCEPT !.run[b].bad = t.run[b].bad + 1]
    BY <1>1, <2>1, <2>2 DEF Uploads!Count, t, RunFields
  <2>4. /\ Works(b, i) /\ St(b, i)' = "failed"
        /\ srv'.run[b].bad = srv.run[b].bad + (IF srv.run[b].kind # "retry" THEN 1 ELSE 0)
    <3>1. CASE srv.run[b].kind = "retry"
      BY <1>1, <2>2, <2>3, <3>1 DEF Works, St, RunFields
    <3>2. CASE srv.run[b].kind # "retry"
      BY <1>1, <2>2, <2>3, <3>2 DEF Works, St, RunFields
    <3>. QED
      BY <3>1, <3>2
  <2>5. ui' = Uploads!Counted(Uploads!Patch(b, i, "failed"), b, FALSE)
    BY <1>3 DEF Uploads!Failed
  <2>6. ("failed" = "done") = FALSE /\ "failed" \in Ended
    BY DEF Ended
  <2>7. ui' = Uploads!Counted(Uploads!Patch(b, i, "failed"), b, "failed" = "done")
    BY <2>5, <2>6
  <2>. QED
    BY <2>4, <2>6, <2>7, EndsKeeps
<1>. QED
  BY <1>2, <1>3

(* The requests of one file, and their ends.                               *)
LEMMA FileStep ==
  ASSUME UploadInv, NEW b \in Uploads!Batches, NEW i \in Uploads!Items(b),
         \/ Uploads!Presign(b, i) \/ Uploads!UploadChunk(b, i) \/ Uploads!FileDone(b, i)
         \/ Uploads!Refused(b, i) \/ Uploads!Lost(b, i) \/ Uploads!AnswerLost(b, i)
  PROVE  UploadInv'
<1>1. /\ DOMAIN srv.run[b].task = 1..2 /\ i \in 1..2 /\ RunFields \subseteq DOMAIN srv.run[b]
      /\ b \in DOMAIN srv.run /\ {"run", "room", "faults", "redirect", "overlapped"} \subseteq DOMAIN srv
      /\ srv.run[b].bad \in Int /\ srv.run[b].kind \in {"none", "first", "retry", "over"}
      /\ {"st", "try", "sent"} \subseteq DOMAIN srv.run[b].task[i]
  BY DEF UploadInv, UploadFields, Uploads!Items
<1>2. CASE Uploads!Presign(b, i)
  <2>1. /\ St(b, i) \in Sending /\ UNCHANGED ui
        /\ srv' = [srv EXCEPT !.run[b].task[i].st = IF i = 1 THEN "put" ELSE "chunk"]
    BY <1>2 DEF Uploads!Presign, Uploads!Task, Uploads!Goto, St, Sending
  <2>2. Works(b, i) /\ St(b, i)' \in Sending /\ srv'.run[b].bad = srv.run[b].bad
    BY <1>1, <2>1 DEF Works, St, Sending, RunFields
  <2>. QED
    BY <2>1, <2>2, GoesOnKeeps
<1>3. CASE Uploads!UploadChunk(b, i)
  <2>1. /\ St(b, i) \in Sending /\ UNCHANGED ui
    BY <1>3 DEF Uploads!UploadChunk, Uploads!Task, St, Sending
  <2>2. \E st \in {"chunk", "complete"} :
          srv' = [srv EXCEPT !.run[b].task[i].sent = srv.run[b].task[i].sent + 1, !.run[b].task[i].st = st]
    <3> DEFINE full == srv.run[b].task[i].sent + 1 = Uploads!ChunkCount
    <3>1. CASE full
      BY <1>1, <1>3, <3>1 DEF Uploads!UploadChunk, Uploads!Task, RunFields
    <3>2. CASE ~full
      BY <1>1, <1>3, <3>2 DEF Uploads!UploadChunk, Uploads!Task, RunFields
    <3>. QED
      BY <3>1, <3>2
  <2>3. Works(b, i) /\ St(b, i)' \in Sending /\ srv'.run[b].bad = srv.run[b].bad
    <3>1. PICK st \in {"chunk", "complete"} :
            srv' = [srv EXCEPT !.run[b].task[i].sent = srv.run[b].task[i].sent + 1, !.run[b].task[i].st = st]
      BY <2>2
    <3>2. /\ srv'.redirect = srv.redirect /\ srv'.overlapped = srv.overlapped
          /\ DOMAIN srv' = DOMAIN srv /\ DOMAIN srv'.run = DOMAIN srv.run
          /\ \A c \in Uploads!Batches \ {b} : srv'.run[c] = srv.run[c]
          /\ DOMAIN srv'.run[b] = DOMAIN srv.run[b]
          /\ \A f \in RunFields \ {"task"} : srv'.run[b][f] = srv.run[b][f]
          /\ DOMAIN srv'.run[b].task = 1..2 /\ srv'.run[b].task[i].st = st
          /\ DOMAIN srv'.run[b].task[i] = DOMAIN srv.run[b].task[i]
          /\ \A j \in 1..2 \ {i} : srv'.run[b].task[j] = srv.run[b].task[j]
      <4> DEFINE t == [srv EXCEPT !.run[b].task[i].sent = srv.run[b].task[i].sent + 1]
      <4>1. /\ t.redirect = srv.redirect /\ t.overlapped = srv.overlapped
            /\ DOMAIN t = DOMAIN srv /\ DOMAIN t.run = DOMAIN srv.run
            /\ \A c \in Uploads!Batches \ {b} : t.run[c] = srv.run[c]
            /\ DOMAIN t.run[b] = DOMAIN srv.run[b]
            /\ \A f \in RunFields \ {"task"} : t.run[b][f] = srv.run[b][f]
            /\ DOMAIN t.run[b].task = 1..2
            /\ DOMAIN t.run[b].task[i] = DOMAIN srv.run[b].task[i]
            /\ \A j \in 1..2 \ {i} : t.run[b].task[j] = srv.run[b].task[j]
        BY <1>1 DEF RunFields
      <4>2. srv' = [t EXCEPT !.run[b].task[i].st = st]
        BY <3>1
      <4> HIDE DEF t
      <4>. QED
        BY <1>1, <4>1, <4>2 DEF RunFields
    <3>. QED
      BY <1>1, <3>2 DEF Works, St, Sending, RunFields
  <2>. QED
    BY <2>1, <2>3, GoesOnKeeps
<1>4. CASE Uploads!FileDone(b, i)
  <2>1. St(b, i) \in Sending
    BY <1>4 DEF Uploads!FileDone, Uploads!Delivered, Uploads!Task, St, Sending
  <2> DEFINE g == [srv EXCEPT !.run[b].task[i].st = "done"]
             t == Uploads!Store(g, b, i)
  <2>2. /\ DOMAIN t = DOMAIN srv /\ t.redirect = srv.redirect /\ t.overlapped = srv.overlapped
        /\ DOMAIN t.run = DOMAIN srv.run /\ \A c \in Uploads!Batches \ {b} : t.run[c] = srv.run[c]
        /\ DOMAIN t.run[b] = DOMAIN srv.run[b] /\ t.run[b].kind = srv.run[b].kind
        /\ t.run[b].bad = srv.run[b].bad /\ t.run[b].open = srv.run[b].open
        /\ t.run[b].shown = srv.run[b].shown
        /\ t.run[b].at = srv.run[b].at \cup {<<i, Uploads!Place(b, i)>>}
        /\ DOMAIN t.run[b].task = 1..2 /\ DOMAIN t.run[b].task[i] = DOMAIN srv.run[b].task[i]
        /\ t.run[b].task[i].st = "done"
        /\ \A j \in 1..2 \ {i} : t.run[b].task[j] = srv.run[b].task[j]
    <3>1. /\ DOMAIN g = DOMAIN srv /\ g.redirect = srv.redirect /\ g.overlapped = srv.overlapped
          /\ DOMAIN g.run = DOMAIN srv.run /\ \A c \in Uploads!Batches \ {b} : g.run[c] = srv.run[c]
          /\ DOMAIN g.run[b] = DOMAIN srv.run[b] /\ g.run[b].kind = srv.run[b].kind
          /\ g.run[b].bad = srv.run[b].bad /\ g.run[b].open = srv.run[b].open
          /\ g.run[b].shown = srv.run[b].shown /\ g.run[b].at = srv.run[b].at
          /\ DOMAIN g.run[b].task = 1..2 /\ DOMAIN g.run[b].task[i] = DOMAIN srv.run[b].task[i]
          /\ g.run[b].task[i].st = "done"
          /\ \A j \in 1..2 \ {i} : g.run[b].task[j] = srv.run[b].task[j]
      BY <1>1 DEF RunFields
    <3> HIDE DEF g
    <3>. QED
      BY <1>1, <3>1 DEF Uploads!Store, RunFields
  <2>3. srv' = Uploads!Count(t, b, TRUE)
    BY <1>4 DEF Uploads!FileDone, Uploads!Goto
  <2> HIDE DEF g, t
  <2>4. \/ srv' = t
        \/ srv' = [t EXCEPT !.run[b].ok = t.run[b].ok + 1]
    <3>1. CASE srv.run[b].kind = "retry"
      BY <2>3, <3>1 DEF Uploads!Count
    <3>2. CASE srv.run[b].kind # "retry"
      BY <2>3, <3>2 DEF Uploads!Count
    <3>. QED
      BY <3>1, <3>2
  <2>5. /\ Works(b, i) /\ St(b, i)' = "done" /\ srv'.run[b].bad = srv.run[b].bad
        /\ srv'.run[b].at = srv.run[b].at \cup {<<i, Uploads!Place(b, i)>>}
    <3>1. CASE srv' = t
      BY <1>1, <2>2, <3>1 DEF Works, St, RunFields
    <3>2. CASE srv' = [t EXCEPT !.run[b].ok = t.run[b].ok + 1]
      BY <1>1, <2>2, <3>2 DEF Works, St, RunFields
    <3>. QED
      BY <2>4, <3>1, <3>2
  <2>6. ui' = Uploads!Counted(Uploads!Patch(b, i, "done"), b, "done" = "done") /\ "done" \in Ended
    BY <1>4 DEF Uploads!FileDone, Ended
  <2>7. srv'.run[b].bad = srv.run[b].bad + (IF srv.run[b].kind # "retry" /\ "done" = "failed" THEN 1 ELSE 0)
    BY <1>1, <2>5
  <2>. QED
    BY <2>1, <2>5, <2>6, <2>7, EndsKeeps
<1>5. CASE Uploads!Refused(b, i)
  <2>1. St(b, i) \in Sending /\ Uploads!Failed(b, i, srv)
    BY <1>5 DEF Uploads!Refused, Uploads!Task, St, Sending
  <2>. QED
    BY <2>1, FailsKeeps
<1>6. CASE Uploads!Lost(b, i)
  <2> DEFINE s == [srv EXCEPT !.faults = @ + 1]
  <2>1. St(b, i) \in Sending /\ Uploads!Failed(b, i, s)
    BY <1>6 DEF Uploads!Lost, Uploads!Task, St, Sending
  <2>2. /\ DOMAIN s = DOMAIN srv /\ s.redirect = srv.redirect /\ s.overlapped = srv.overlapped
        /\ s.run = srv.run
    BY <1>1
  <2> HIDE DEF s
  <2>. QED
    BY <2>1, <2>2, FailsKeeps
<1>7. CASE Uploads!AnswerLost(b, i)
  <2> DEFINE s == [Uploads!Store(srv, b, i) EXCEPT !.faults = @ + 1]
  <2>1. St(b, i) \in Sending /\ Uploads!Failed(b, i, s)
    BY <1>7 DEF Uploads!AnswerLost, Uploads!Delivered, Uploads!Task, St, Sending
  <2>2. /\ DOMAIN s = DOMAIN srv /\ s.redirect = srv.redirect /\ s.overlapped = srv.overlapped
        /\ DOMAIN s.run = DOMAIN srv.run /\ \A c \in Uploads!Batches \ {b} : s.run[c] = srv.run[c]
        /\ DOMAIN s.run[b] = DOMAIN srv.run[b] /\ s.run[b].kind = srv.run[b].kind
        /\ s.run[b].bad = srv.run[b].bad /\ s.run[b].task = srv.run[b].task
        /\ s.run[b].open = srv.run[b].open /\ s.run[b].shown = srv.run[b].shown
        /\ s.run[b].at = srv.run[b].at \cup {<<i, Uploads!Place(b, i)>>}
    BY <1>1 DEF Uploads!Store, RunFields
  <2> HIDE DEF s
  <2>. QED
    BY <2>1, <2>2, FailsKeeps
<1>. QED
  BY <1>2, <1>3, <1>4, <1>5, <1>6, <1>7

(* A run that ends says in the toast how many of its files have failed: of *)
(* a first run those it counted, of a retry those that are still not done. *)
LEMMA EndRunKeeps ==
  ASSUME UploadInv, NEW b \in Uploads!Batches, Uploads!EndRun(b)
  PROVE  UploadInv'
<1>1. /\ RunFields \subseteq DOMAIN srv.run[b] /\ b \in DOMAIN srv.run
      /\ {"run", "redirect", "overlapped"} \subseteq DOMAIN srv
      /\ "live" \in DOMAIN ui /\ "status" \in DOMAIN ui.live /\ ui.live.bad \in Int
  BY DEF UploadInv, UploadFields
<1>2. /\ srv.run[b].kind \in {"first", "retry"} /\ \A i \in Uploads!Items(b) : St(b, i) \in Ended
      /\ srv' = [srv EXCEPT !.run[b].kind = "over"]
  BY DEF Uploads!EndRun, Uploads!Running, Uploads!Over, Uploads!Task, St, Ended
<1>3. /\ DOMAIN srv' = DOMAIN srv /\ srv'.redirect = srv.redirect /\ srv'.overlapped = srv.overlapped
      /\ DOMAIN srv'.run = DOMAIN srv.run /\ \A c \in Uploads!Batches \ {b} : srv'.run[c] = srv.run[c]
      /\ DOMAIN srv'.run[b] = DOMAIN srv.run[b] /\ srv'.run[b].kind = "over"
      /\ srv'.run[b].bad = srv.run[b].bad /\ srv'.run[b].task = srv.run[b].task
      /\ srv'.run[b].open = srv.run[b].open /\ srv'.run[b].shown = srv.run[b].shown
      /\ srv'.run[b].at = srv.run[b].at
  BY <1>1, <1>2 DEF RunFields
<1>4. /\ DOMAIN ui' = DOMAIN ui /\ ui'.pick = ui.pick /\ ui'.away = ui.away
      /\ DOMAIN ui'.live = DOMAIN ui.live /\ ui'.live.batch = ui.live.batch
      /\ ui'.live.item = ui.live.item /\ ui'.live.bad = ui.live.bad
      /\ b \in ui.away => ui' = ui
      /\ b \notin ui.away => /\ ui'.live.status # "uploading"
                             /\ ui'.live.status = "complete" =>
                                  IF srv.run[b].kind = "first" THEN srv.run[b].bad = 0 ELSE ui.live.bad = 0
  <2>1. CASE b \in ui.away
    BY <2>1 DEF Uploads!EndRun
  <2>2. CASE b \notin ui.away
    <3>1. CASE srv.run[b].kind = "first"
      <4> DEFINE st == Uploads!FinalStatus(srv.run[b].ok, srv.run[b].bad)
      <4>1. ui' = [ui EXCEPT !.live.status = st]
        BY <2>2, <3>1 DEF Uploads!EndRun
      <4>2. st # "uploading" /\ (st = "complete" => srv.run[b].bad = 0)
        BY DEF Uploads!FinalStatus
      <4> HIDE DEF st
      <4>. QED
        BY <1>1, <2>2, <3>1, <4>1, <4>2 DEF UploadInv, UploadFields
    <3>2. CASE srv.run[b].kind # "first"
      <4> DEFINE st == Uploads!FinalStatus(ui.live.ok, ui.live.bad)
      <4>1. ui' = [ui EXCEPT !.live.status = st]
        BY <2>2, <3>2 DEF Uploads!EndRun
      <4>2. st # "uploading" /\ (st = "complete" => ui.live.bad = 0)
        BY DEF Uploads!FinalStatus
      <4> HIDE DEF st
      <4>. QED
        BY <1>1, <2>2, <3>2, <4>1, <4>2 DEF UploadInv, UploadFields
    <3>. QED
      BY <3>1, <3>2
  <2>. QED
    BY <2>1, <2>2
<1>5. \A c, i : c \in Uploads!Batches /\ i \in Uploads!Items(c) => St(c, i)' = St(c, i)
  BY <1>3 DEF St
<1>6. UploadFields'
  BY <1>3, <1>4 DEF UploadInv, UploadFields, RunFields
<1>7. RunsOfTasks' /\ LocksGiven' /\ DoneIsKept' /\ LiveBatch'
  <2>1. RunsOfTasks'
    BY <1>2, <1>3, <1>5 DEF UploadInv, RunsOfTasks
  <2>2. LocksGiven'
    BY <1>2, <1>3 DEF UploadInv, LocksGiven
  <2>3. \A c \in Uploads!Batches : srv'.run[c].at = srv.run[c].at
    BY <1>3
  <2>4. DoneIsKept'
    BY <1>5, <2>3 DEF UploadInv, DoneIsKept, Kept
  <2>5. LiveBatch'
    BY <1>2, <1>3, <1>4 DEF UploadInv, LiveBatch
  <2>. QED
    BY <2>1, <2>2, <2>4, <2>5
<1>8. Uploads!StoredWhereShown'
  BY <1>3 DEF UploadInv, Uploads!StoredWhereShown, Uploads!AsShown
<1>9. ToastInStep'
  <2> SUFFICES ASSUME ~srv.overlapped PROVE ToastInStep'
    BY <1>3 DEF ToastInStep
  <2>1. \A c, i : FailedOne(c, i)' = FailedOne(c, i) /\ NotDone(c, i)' = NotDone(c, i)
    BY <1>4 DEF FailedOne, NotDone
  <2>2. CASE b \in ui.away
    BY <1>2, <1>3, <1>4, <1>5, <2>1, <2>2 DEF UploadInv, ToastInStep, LiveBatch
  <2>3. CASE b \notin ui.away
    <3>1. b = ui.live.batch /\ ui.live.status = "uploading" /\ b # 0
      BY <1>2, <2>3 DEF UploadInv, ToastInStep
    <3>2. \A i \in {1, 2} : FailedOne(b, i) = NotDone(b, i)
      BY <1>2, <3>1 DEF UploadInv, ToastInStep, FailedOne, NotDone, Ended
    <3>3. ui.live.bad = NotDone(b, 1) + NotDone(b, 2) /\ (srv.run[b].kind = "first" => ui.live.bad = srv.run[b].bad)
      BY <1>2, <3>1, <3>2 DEF UploadInv, ToastInStep
    <3>4. ui'.live.status = "complete" => ui'.live.bad = 0
      BY <1>4, <2>3, <3>3
    <3>5. \A i \in Uploads!Items(b) : /\ ui'.live.item[i] = "done" <=> St(b, i)' = "done"
                                      /\ ui'.live.item[i] = "failed" <=> St(b, i)' = "failed"
      BY <1>4, <1>5, <3>1 DEF UploadInv, ToastInStep
    <3>6. \A c \in Uploads!Batches \ ui'.away : srv'.run[c].kind \notin {"first", "retry"}
      BY <1>3, <1>4, <3>1 DEF UploadInv, ToastInStep
    <3>. QED
      BY <1>3, <1>4, <2>1, <3>1, <3>3, <3>4, <3>5, <3>6 DEF ToastInStep
  <2>. QED
    BY <2>2, <2>3
<1>. QED
  BY <1>6, <1>7, <1>8, <1>9 DEF UploadInv

(* Choosing files touches the modal only.                                  *)
LEMMA PicksKeep ==
  ASSUME UploadInv, Uploads!PickFiles \/ Uploads!CancelPick \/ Uploads!ToggleLock \/ Uploads!IgnoreAll
  PROVE  UploadInv'
<1>1. /\ UNCHANGED srv /\ DOMAIN ui' = DOMAIN ui /\ ui'.live = ui.live /\ ui'.away = ui.away
      /\ {"files", "open", "all", "room"} \subseteq DOMAIN ui'.pick
      /\ ui'.pick.files \in {0, ui.pick.files} \cup (Uploads!Batches \ Uploads!Started)
  <2>1. {"pick", "live", "away"} \subseteq DOMAIN ui /\ {"files", "open", "all", "room"} \subseteq DOMAIN ui.pick
    BY DEF UploadInv, UploadFields
  <2>2. CASE Uploads!PickFiles
    <3>1. PICK b \in Uploads!Batches \ Uploads!Started :
            ui' = [ui EXCEPT !.pick = [Uploads!NoPick EXCEPT !.files = b, !.room = srv.room]] /\ UNCHANGED srv
      BY <2>2 DEF Uploads!PickFiles
    <3> DEFINE p == [Uploads!NoPick EXCEPT !.files = b, !.room = srv.room]
    <3>2. {"files", "open", "all", "room"} \subseteq DOMAIN p /\ p.files = b
      BY DEF Uploads!NoPick
    <3>3. ui' = [ui EXCEPT !.pick = p]
      BY <3>1
    <3> HIDE DEF p
    <3>. QED
      BY <2>1, <3>1, <3>2, <3>3
  <2>3. CASE Uploads!CancelPick
    BY <2>1, <2>3 DEF Uploads!CancelPick, Uploads!NoPick
  <2>4. CASE Uploads!ToggleLock
    <3>1. PICK i \in Uploads!Lockable :
            ui' = [ui EXCEPT !.pick.open = IF i \in ui.pick.open THEN ui.pick.open \ {i} ELSE ui.pick.open \cup {i}]
      BY <2>1, <2>4 DEF Uploads!ToggleLock
    <3>2. UNCHANGED srv
      BY <2>4 DEF Uploads!ToggleLock
    <3>. QED
      BY <2>1, <3>1, <3>2
  <2>5. CASE Uploads!IgnoreAll
    BY <2>1, <2>5 DEF Uploads!IgnoreAll
  <2>. QED
    BY <2>2, <2>3, <2>4, <2>5
<1>2. UploadFields'
  BY <1>1 DEF UploadInv, UploadFields
<1>3. RunsOfTasks' /\ LocksGiven' /\ DoneIsKept' /\ Uploads!StoredWhereShown'
  BY <1>1 DEF UploadInv, RunsOfTasks, LocksGiven, DoneIsKept, St, Kept, Uploads!StoredWhereShown, Uploads!AsShown
<1>4. LiveBatch'
  BY <1>1 DEF UploadInv, LiveBatch, Uploads!Started
<1>5. ToastInStep'
  BY <1>1 DEF UploadInv, ToastInStep, FailedOne, NotDone, St
<1>. QED
  BY <1>2, <1>3, <1>4, <1>5 DEF UploadInv

(* Who dismisses the toast, or leaves the page, is shown nothing more.     *)
LEMMA LeavesKeep ==
  ASSUME UploadInv, Uploads!Dismiss \/ Uploads!LeavePage
  PROVE  UploadInv'
<1>1. /\ UNCHANGED srv /\ DOMAIN ui' = DOMAIN ui /\ ui'.live = Uploads!Idle
      /\ {"files", "open", "all", "room"} \subseteq DOMAIN ui'.pick
      /\ ui'.pick.files \in {0, ui.pick.files} /\ ui'.away \in {ui.away, Uploads!Started}
      /\ ui'.away = ui.away => Uploads!Dismiss \/ ui.away = Uploads!Started
  <2>1. {"pick", "live", "away"} \subseteq DOMAIN ui /\ {"files", "open", "all", "room"} \subseteq DOMAIN ui.pick
    BY DEF UploadInv, UploadFields
  <2>2. CASE Uploads!Dismiss
    BY <2>1, <2>2 DEF Uploads!Dismiss
  <2>3. CASE Uploads!LeavePage
    BY <2>1, <2>3 DEF Uploads!LeavePage, Uploads!NoPick
  <2>. QED
    BY <2>2, <2>3
<1>2. /\ {"status", "batch", "item", "ok", "bad"} \subseteq DOMAIN ui'.live /\ DOMAIN ui'.live.item = 1..2
      /\ ui'.live.bad = 0 /\ ui'.live.batch = 0 /\ ui'.live.status = "idle"
  BY <1>1 DEF Uploads!Idle
<1>3. UploadFields'
  BY <1>1, <1>2 DEF UploadInv, UploadFields
<1>4. RunsOfTasks' /\ LocksGiven' /\ DoneIsKept' /\ Uploads!StoredWhereShown'
  BY <1>1 DEF UploadInv, RunsOfTasks, LocksGiven, DoneIsKept, St, Kept, Uploads!StoredWhereShown, Uploads!AsShown
<1>5. LiveBatch'
  BY <1>1, <1>2 DEF UploadInv, LiveBatch, Uploads!Started
<1>6. ToastInStep'
  <2>1. ~srv.overlapped => \A b \in Uploads!Batches \ ui'.away : srv.run[b].kind \notin {"first", "retry"}
    BY <1>1 DEF UploadInv, ToastInStep, Uploads!Started, Uploads!Dismiss
  <2>. QED
    BY <1>1, <1>2, <2>1 DEF ToastInStep
<1>. QED
  BY <1>3, <1>4, <1>5, <1>6 DEF UploadInv

(* A batch that begins takes the toast over; it is given the locks that    *)
(* the modal showed.                                                       *)
LEMMA BatchKeeps ==
  ASSUME UploadInv, Uploads!StartUpload
  PROVE  UploadInv'
<1>0. PICK b : b = ui.pick.files
  OBVIOUS
<1> DEFINE open == {i \in Uploads!Lockable : ~Uploads!Locked(i)}
           shown == {i \in Uploads!Items(b) : ~Uploads!Locked(i)}
           run == [Uploads!NoRun EXCEPT !.kind = "first", !.task = Uploads!Begin(b, Uploads!Items(b)),
                                        !.open = open, !.shown = shown]
           live == [status |-> "uploading", batch |-> b, ok |-> 0, bad |-> 0,
                    item |-> [i \in 1..2 |-> IF i \in Uploads!Items(b) THEN "uploading" ELSE "none"]]
           over == srv.overlapped \/ Uploads!Running \ ui.away # {}
<1>1. /\ {"pick", "live", "away"} \subseteq DOMAIN ui
      /\ {"run", "redirect", "overlapped"} \subseteq DOMAIN srv
      /\ DOMAIN srv.run = Uploads!Batches
      /\ b \in Uploads!Batches \ ui.away /\ srv.run[b].kind = "none" /\ b # 0
      /\ Uploads!Items(b) \subseteq 1..2
  BY <1>0 DEF UploadInv, UploadFields, LiveBatch, Uploads!StartUpload, Uploads!Pending, Uploads!Items
<1>2. /\ ui' = [ui EXCEPT !.pick = Uploads!NoPick, !.live = live]
      /\ srv' = [srv EXCEPT !.overlapped = over, !.run[b] = run]
  BY <1>0, <1>1 DEF Uploads!StartUpload, Uploads!Pending
<1>3. /\ RunFields \subseteq DOMAIN run /\ run.kind = "first" /\ run.bad = 0 /\ run.at = {}
      /\ run.open = open /\ run.shown = shown /\ DOMAIN run.task = 1..2
      /\ \A i \in 1..2 : run.task[i] = IF i \in Uploads!Items(b) THEN [st |-> "presign", try |-> 1, sent |-> 0]
                                       ELSE srv.run[b].task[i]
  BY DEF Uploads!NoRun, Uploads!Begin, RunFields
<1>4. /\ {"status", "batch", "item", "ok", "bad"} \subseteq DOMAIN live /\ DOMAIN live.item = 1..2
      /\ live.bad = 0 /\ live.batch = b /\ live.status = "uploading"
      /\ \A i \in Uploads!Items(b) : live.item[i] = "uploading"
  BY <1>1
<1>5. /\ srv.redirect = "beside" => open = shown
      /\ srv.redirect = "off" => Uploads!Items(b) \subseteq shown
  BY <1>0 DEF Uploads!Lockable, Uploads!ShownRedirect, Uploads!Locked, Uploads!Pending
<1>6. ~over => ~srv.overlapped /\ \A c \in Uploads!Batches \ ui.away : srv.run[c].kind \notin {"first", "retry"}
  BY DEF Uploads!Running
<1> HIDE DEF open, shown, run, live, over
<1>7. /\ DOMAIN ui' = DOMAIN ui /\ ui'.pick = Uploads!NoPick /\ ui'.live = live /\ ui'.away = ui.away
      /\ DOMAIN srv' = DOMAIN srv /\ srv'.redirect = srv.redirect /\ (srv'.overlapped <=> over)
      /\ DOMAIN srv'.run = Uploads!Batches /\ srv'.run[b] = run
      /\ \A c \in Uploads!Batches \ {b} : srv'.run[c] = srv.run[c]
  BY <1>1, <1>2
<1>8. \A i \in Uploads!Items(b) : St(b, i)' = "presign"
  BY <1>1, <1>3, <1>7 DEF St
<1>9. \A c \in Uploads!Batches \ {b} : \A i \in Uploads!Items(c) : St(c, i)' = St(c, i)
  BY <1>7 DEF St
<1>10. UploadFields'
  <2>1. {"files", "open", "all", "room"} \subseteq DOMAIN ui'.pick
    BY <1>7 DEF Uploads!NoPick
  <2>2. \A i \in 1..2 : {"st", "try", "sent"} \subseteq DOMAIN run.task[i]
    BY <1>1, <1>3 DEF UploadInv, UploadFields
  <2>3. \A c \in Uploads!Batches :
          /\ RunFields \subseteq DOMAIN srv'.run[c] /\ srv'.run[c].kind \in {"none", "first", "retry", "over"}
          /\ srv'.run[c].bad \in Int /\ DOMAIN srv'.run[c].task = 1..2
          /\ \A i \in 1..2 : {"st", "try", "sent"} \subseteq DOMAIN srv'.run[c].task[i]
    <3> SUFFICES ASSUME NEW c \in Uploads!Batches
                 PROVE  /\ RunFields \subseteq DOMAIN srv'.run[c]
                        /\ srv'.run[c].kind \in {"none", "first", "retry", "over"}
                        /\ srv'.run[c].bad \in Int /\ DOMAIN srv'.run[c].task = 1..2
                        /\ \A i \in 1..2 : {"st", "try", "sent"} \subseteq DOMAIN srv'.run[c].task[i]
      OBVIOUS
    <3>1. CASE c = b
      BY <1>3, <1>7, <2>2, <3>1
    <3>2. CASE c # b
      BY <1>7, <3>2 DEF UploadInv, UploadFields
    <3>. QED
      BY <3>1, <3>2
  <2>. QED
    BY <1>4, <1>7, <2>1, <2>3 DEF UploadInv, UploadFields
<1>11. RunsOfTasks'
  BY <1>3, <1>7, <1>8, <1>9 DEF UploadInv, RunsOfTasks
<1>12. LocksGiven'
  <2> SUFFICES ASSUME NEW c \in Uploads!Batches, srv'.run[c].kind # "none"
               PROVE  /\ srv.redirect = "beside" => srv'.run[c].open = srv'.run[c].shown
                      /\ srv.redirect = "off" => Uploads!Items(c) \subseteq srv'.run[c].shown
    BY <1>7 DEF LocksGiven
  <2>1. CASE c = b
    BY <1>3, <1>5, <1>7, <2>1
  <2>2. CASE c # b
    BY <1>7, <2>2 DEF UploadInv, LocksGiven
  <2>. QED
    BY <2>1, <2>2
<1>13. DoneIsKept'
  BY <1>7, <1>8, <1>9 DEF UploadInv, DoneIsKept, Kept
<1>14. LiveBatch'
  <2>1. ui'.pick.files = 0
    BY <1>7 DEF Uploads!NoPick
  <2>. QED
    BY <1>1, <1>3, <1>4, <1>7, <2>1 DEF UploadInv, LiveBatch
<1>15. ToastInStep'
  <2> SUFFICES ASSUME ~over PROVE ToastInStep'
    BY <1>7 DEF ToastInStep
  <2>1. \A i \in {1, 2} : FailedOne(b, i)' = 0
    BY <1>4, <1>7 DEF FailedOne
  <2>2. \A c \in Uploads!Batches \ ui.away : srv'.run[c].kind \in {"first", "retry"} => c = b
    BY <1>6, <1>7
  <2>. QED
    BY <1>1, <1>3, <1>4, <1>7, <1>8, <2>1, <2>2 DEF ToastInStep
<1>16. Uploads!StoredWhereShown'
  <2>1. \A c \in Uploads!Batches : srv'.run[c].at # {} => srv'.run[c] = srv.run[c]
    BY <1>3, <1>7
  <2>2. srv'.redirect = srv.redirect
    BY <1>7
  <2>. QED
    BY <2>1, <2>2 DEF UploadInv, Uploads!StoredWhereShown, Uploads!AsShown
<1>. QED
  BY <1>10, <1>11, <1>12, <1>13, <1>14, <1>15, <1>16 DEF UploadInv

(* A retry sends again what the toast shows as failed, with the locks of   *)
(* the first time; what is not done is counted as before.                  *)
LEMMA RetryKeeps ==
  ASSUME UploadInv, Uploads!RetryFailed
  PROVE  UploadInv'
<1>0. PICK b : b = ui.live.batch
  OBVIOUS
<1> DEFINE item == [i \in 1..2 |-> IF i \in Uploads!FailedItems THEN "uploading" ELSE ui.live.item[i]]
           task == Uploads!Begin(b, Uploads!FailedItems)
<1>1. /\ {"pick", "live", "away"} \subseteq DOMAIN ui
      /\ {"status", "batch", "item", "ok", "bad"} \subseteq DOMAIN ui.live
      /\ {"run", "redirect", "overlapped"} \subseteq DOMAIN srv
      /\ DOMAIN srv.run = Uploads!Batches
      /\ b \in Uploads!Batches \ ui.away /\ srv.run[b].kind # "none" /\ b # 0
      /\ RunFields \subseteq DOMAIN srv.run[b]
      /\ Uploads!FailedItems = {i \in Uploads!Items(b) : ui.live.item[i] = "failed"}
      /\ Uploads!Items(b) \subseteq 1..2
      /\ ui.live.status \in {"partial", "allFailed", "complete"}
  BY <1>0 DEF UploadInv, UploadFields, LiveBatch, Uploads!RetryFailed, Uploads!FailedItems, Uploads!Items
<1>2. /\ ui' = [ui EXCEPT !.live.status = "uploading", !.live.item = item]
      /\ srv' = [srv EXCEPT !.run[b].kind = "retry", !.run[b].task = task, !.run[b].open = srv.run[b].open]
  BY <1>0 DEF Uploads!RetryFailed, Uploads!RetryShown, Uploads!LastOpen
<1>3. /\ DOMAIN item = 1..2 /\ DOMAIN task = 1..2
      /\ \A i \in 1..2 : /\ item[i] = IF i \in Uploads!FailedItems THEN "uploading" ELSE ui.live.item[i]
                         /\ task[i] = IF i \in Uploads!FailedItems THEN [st |-> "presign", try |-> 1, sent |-> 0]
                                      ELSE srv.run[b].task[i]
  BY DEF Uploads!Begin
<1> HIDE DEF item, task
<1>4. /\ DOMAIN ui' = DOMAIN ui /\ ui'.pick = ui.pick /\ ui'.away = ui.away
      /\ DOMAIN ui'.live = DOMAIN ui.live /\ ui'.live.status = "uploading" /\ ui'.live.item = item
      /\ ui'.live.batch = ui.live.batch /\ ui'.live.bad = ui.live.bad
  BY <1>1, <1>2
<1>5. /\ DOMAIN srv' = DOMAIN srv /\ srv'.redirect = srv.redirect /\ srv'.overlapped = srv.overlapped
      /\ DOMAIN srv'.run = Uploads!Batches
      /\ \A c \in Uploads!Batches \ {b} : srv'.run[c] = srv.run[c]
      /\ DOMAIN srv'.run[b] = DOMAIN srv.run[b] /\ srv'.run[b].kind = "retry" /\ srv'.run[b].task = task
      /\ srv'.run[b].open = srv.run[b].open /\ srv'.run[b].shown = srv.run[b].shown
      /\ srv'.run[b].at = srv.run[b].at /\ srv'.run[b].bad = srv.run[b].bad
  <2> DEFINE s == [srv EXCEPT !.run[b].kind = "retry"]
             t == [s EXCEPT !.run[b].task = task]
  <2>1. /\ DOMAIN s = DOMAIN srv /\ s.redirect = srv.redirect /\ s.overlapped = srv.overlapped
        /\ DOMAIN s.run = Uploads!Batches /\ \A c \in Uploads!Batches \ {b} : s.run[c] = srv.run[c]
        /\ DOMAIN s.run[b] = DOMAIN srv.run[b] /\ s.run[b].kind = "retry"
        /\ s.run[b].open = srv.run[b].open /\ s.run[b].shown = srv.run[b].shown
        /\ s.run[b].at = srv.run[b].at /\ s.run[b].bad = srv.run[b].bad
    BY <1>1 DEF RunFields
  <2> HIDE DEF s
  <2>2. /\ DOMAIN t = DOMAIN srv /\ t.redirect = srv.redirect /\ t.overlapped = srv.overlapped
        /\ DOMAIN t.run = Uploads!Batches /\ \A c \in Uploads!Batches \ {b} : t.run[c] = srv.run[c]
        /\ DOMAIN t.run[b] = DOMAIN srv.run[b] /\ t.run[b].kind = "retry" /\ t.run[b].task = task
        /\ t.run[b].open = srv.run[b].open /\ t.run[b].shown = srv.run[b].shown
        /\ t.run[b].at = srv.run[b].at /\ t.run[b].bad = srv.run[b].bad
    BY <1>1, <2>1 DEF RunFields
  <2>3. srv' = [t EXCEPT !.run[b].open = srv.run[b].open]
    BY <1>2 DEF s
  <2> HIDE DEF t
  <2>. QED
    BY <1>1, <2>2, <2>3 DEF RunFields
<1>6. \A c \in Uploads!Batches : \A i \in Uploads!Items(c) :
        St(c, i)' = IF c = b /\ i \in Uploads!FailedItems THEN "presign" ELSE St(c, i)
  BY <1>1, <1>3, <1>5 DEF St
<1>7. UploadFields'
  <2>1. \A i \in 1..2 : {"st", "try", "sent"} \subseteq DOMAIN task[i]
    BY <1>1, <1>3 DEF UploadInv, UploadFields
  <2>2. ui.live.bad \in Int /\ {"files", "open", "all", "room"} \subseteq DOMAIN ui.pick
    BY DEF UploadInv, UploadFields
  <2>. QED
    BY <1>1, <1>3, <1>4, <1>5, <2>1, <2>2 DEF UploadInv, UploadFields
<1>8. RunsOfTasks'
  BY <1>5, <1>6 DEF UploadInv, RunsOfTasks
<1>9. LocksGiven'
  BY <1>1, <1>5 DEF UploadInv, LocksGiven
<1>10. DoneIsKept'
  <2>1. \A c \in Uploads!Batches : srv'.run[c].at = srv.run[c].at
    BY <1>5
  <2>. QED
    BY <1>6, <2>1 DEF UploadInv, DoneIsKept, Kept
<1>11. LiveBatch'
  <2>1. ui.pick.files # b \/ ui.pick.files = 0
    BY <1>0, <1>1 DEF UploadInv, LiveBatch
  <2>. QED
    BY <1>0, <1>1, <1>4, <1>5, <2>1 DEF UploadInv, LiveBatch
<1>12. ToastInStep'
  <2> SUFFICES ASSUME ~srv.overlapped PROVE ToastInStep'
    BY <1>5 DEF ToastInStep
  <2>1. \A c \in Uploads!Batches \ ui.away : srv.run[c].kind \notin {"first", "retry"}
    BY <1>0, <1>1 DEF UploadInv, ToastInStep
  <2>2. /\ srv.run[b].kind = "over"
        /\ \A i \in Uploads!Items(b) : /\ ui.live.item[i] = "done" <=> St(b, i) = "done"
                                       /\ ui.live.item[i] = "failed" <=> St(b, i) = "failed"
        /\ ui.live.bad = NotDone(b, 1) + NotDone(b, 2)
    BY <1>0, <1>1 DEF UploadInv, ToastInStep
  <2>3. \A i \in {1, 2} : NotDone(b, i)' = NotDone(b, i)
    BY <1>0, <1>1, <1>3, <1>4 DEF NotDone
  <2>4. \A i \in Uploads!Items(b) : /\ ui'.live.item[i] = "done" <=> St(b, i)' = "done"
                                    /\ ui'.live.item[i] = "failed" <=> St(b, i)' = "failed"
    BY <1>0, <1>1, <1>3, <1>4, <1>6, <2>2
  <2>5. \A c \in Uploads!Batches \ ui.away : srv'.run[c].kind \in {"first", "retry"} => c = b
    BY <1>5, <2>1
  <2>. QED
    BY <1>0, <1>1, <1>4, <1>5, <2>2, <2>3, <2>4, <2>5 DEF ToastInStep
<1>13. Uploads!StoredWhereShown'
  BY <1>5 DEF UploadInv, Uploads!StoredWhereShown, Uploads!AsShown
<1>. QED
  BY <1>7, <1>8, <1>9, <1>10, <1>11, <1>12, <1>13 DEF UploadInv

(* Every step of the page keeps the invariant, ...                         *)
LEMMA UploadStep ==
  ASSUME UploadInv, [Uploads!Next]_<<ui, srv>>
  PROVE  UploadInv'
<1>1. CASE Uploads!Choose
  BY <1>1, PicksKeep, BatchKeeps DEF Uploads!Choose
<1>2. CASE Uploads!Transfer
  <2>1. PICK b \in Uploads!Batches :
          \/ Uploads!EndRun(b)
          \/ \E i \in Uploads!Items(b) :
               \/ Uploads!Presign(b, i) \/ Uploads!UploadChunk(b, i) \/ Uploads!FileDone(b, i)
               \/ Uploads!Refused(b, i) \/ Uploads!Lost(b, i) \/ Uploads!AnswerLost(b, i)
    BY <1>2 DEF Uploads!Transfer
  <2>2. CASE Uploads!EndRun(b)
    BY <2>2, EndRunKeeps
  <2>3. CASE ~Uploads!EndRun(b)
    BY <2>1, <2>3, FileStep
  <2>. QED
    BY <2>2, <2>3
<1>3. CASE Uploads!Toast
  BY <1>3, RetryKeeps, LeavesKeep DEF Uploads!Toast
<1>4. CASE UNCHANGED <<ui, srv>>
  BY <1>4 DEF UploadInv, UploadFields, RunsOfTasks, LocksGiven, DoneIsKept, LiveBatch, ToastInStep,
              FailedOne, NotDone, St, Kept, Uploads!StoredWhereShown, Uploads!AsShown
<1>. QED
  BY <1>1, <1>2, <1>3, <1>4 DEF Uploads!Next

(* and what it implies is what the toast and the modal promise.            *)
LEMMA UploadPromises ==
  ASSUME UploadInv
  PROVE  Uploads!CompleteIsStored /\ Uploads!StoredWhereShown
<1>1. Uploads!CompleteIsStored
  <2> DEFINE b == ui.live.batch
  <2> SUFFICES ASSUME ui.live.status = "complete", ~srv.overlapped, NEW i \in Uploads!Items(b)
               PROVE  \E p \in {"here", "redirect"} : <<i, p>> \in srv.run[b].at
    BY DEF Uploads!CompleteIsStored
  <2>1. b # 0 /\ b \in Uploads!Batches
    BY DEF UploadInv, ToastInStep, LiveBatch
  <2>2. NotDone(b, 1) + NotDone(b, 2) = 0 /\ (ui.live.item[i] = "done" => St(b, i) = "done")
    BY <2>1 DEF UploadInv, ToastInStep
  <2>3. NotDone(b, 1) = 0 /\ NotDone(b, 2) = 0
    BY <2>2 DEF NotDone
  <2>4. ui.live.item[i] = "done"
    BY <2>3 DEF NotDone, Uploads!Items
  <2>. QED
    BY <2>1, <2>2, <2>4 DEF UploadInv, DoneIsKept, Kept
<1>. QED
  BY <1>1 DEF UploadInv

----------------------------------------------------------------------------
(* Folders and files.                                                      *)

(* Names are told apart from the root and from what is not there.          *)
NamesApart ==
  Folders \cap Files = {} /\ {"", "root", "new", "gone"} \cap (Folders \cup Files) = {}

(* The tree and its requests, as far as the argument needs them.           *)
TreeFields ==
  /\ {"in", "req", "asked", "other", "raced", "twice"} \subseteq DOMAIN srv
  /\ DOMAIN srv.in = Tree!Items /\ srv.other \in Nat
  /\ \A i \in Tree!Items : srv.in[i] \in Folders \cup {"root", "new", "gone"}
  /\ \A q \in srv.req : /\ {"op", "i", "to", "by", "checked"} \subseteq DOMAIN q
                        /\ q.op \in {"move", "delete"} /\ q.i \in Tree!Items
                        /\ q.op = "move" => q.to \in Folders
                        /\ q.checked => q.i \in Folders

(* What is in a folder that is gone is gone; who deletes a file was asked  *)
(* to.                                                                     *)
Standing == \A i \in Tree!Items : srv.in[i] \in Folders => Tree!There(srv.in[i])
DeletesAsked == \A q \in srv.req : q.op = "delete" /\ q.i \in Files => q.i \in srv.asked

(* What a request has checked is still so when it changes the tree.        *)
Moving(q) == q.checked /\ q.op = "move"
CheckedHolds ==
  /\ \A q \in srv.req : Moving(q) => srv.in[q.to] # "new"
  /\ ~srv.raced => \A q \in srv.req : q.checked /\ q.op = "delete" => Tree!Children(q.i) = {}
  /\ ~srv.twice => /\ \A q, r \in srv.req : Moving(q) /\ Moving(r) => q = r
                   /\ \A q \in srv.req : Moving(q) => q.to \notin Tree!Subtree(q.i)

TreeInv == /\ TreeFields /\ Standing /\ DeletesAsked /\ CheckedHolds
           /\ Tree!LostOnlyByRace /\ Tree!TreeUnlessRaced

(* A subtree is the least set that is closed and has its root.             *)
LEMMA SubtreeLeast ==
  ASSUME NEW f \in Tree!Items
  PROVE  /\ f \in Tree!Subtree(f) /\ Tree!Subtree(f) \subseteq Tree!Items
         /\ Tree!Closed(Tree!Subtree(f))
         /\ \A S \in SUBSET Tree!Items : f \in S /\ Tree!Closed(S) => Tree!Subtree(f) \subseteq S
BY DEF Tree!Subtree, Tree!Closed

(* Whatever is outside of one closed set that has f in it is not below f.  *)
LEMMA OutsideNotBelow ==
  ASSUME NEW f \in Tree!Items, NEW t, NEW S \in SUBSET Tree!Items, f \in S, t \notin S, Tree!Closed(S)'
  PROVE  t \notin Tree!Subtree(f)'
BY DEF Tree!Subtree, Tree!Items

(* New requests change nothing in the tree; ...                            *)
LEMMA SendsKeep ==
  ASSUME NamesApart, TreeInv,
         NEW op \in {"move", "delete"}, NEW is \in SUBSET Tree!Items, NEW to, NEW by, NEW n \in Nat,
         op = "move" => to \in Folders,
         srv' = [Tree!Send(op, is, to, by) EXCEPT !.other = n]
  PROVE  TreeInv'
<1> DEFINE new == {Tree!Request(op, i, to, by) : i \in is}
           s == [srv EXCEPT !.req = srv.req \cup new,
                            !.asked = IF op = "delete" THEN srv.asked \cup (is \cap Files) ELSE srv.asked]
<1>1. s = Tree!Send(op, is, to, by)
  BY DEF Tree!Send, TreeInv, TreeFields
<1>2. /\ DOMAIN s = DOMAIN srv /\ s.in = srv.in /\ s.raced = srv.raced /\ s.twice = srv.twice
      /\ s.req = srv.req \cup new /\ srv.asked \subseteq s.asked
      /\ op = "delete" => is \cap Files \subseteq s.asked
  BY DEF TreeInv, TreeFields
<1>3. \A q \in new : /\ {"op", "i", "to", "by", "checked"} \subseteq DOMAIN q
                     /\ q.op = op /\ q.i \in is /\ q.to = to /\ ~q.checked
  BY DEF Tree!Request
<1> HIDE DEF s, new
<1>4. /\ DOMAIN srv' = DOMAIN srv /\ srv'.in = srv.in /\ srv'.raced = srv.raced /\ srv'.twice = srv.twice
      /\ srv'.req = srv.req \cup new /\ srv.asked \subseteq srv'.asked /\ srv'.other = n
      /\ op = "delete" => is \cap Files \subseteq srv'.asked
  BY <1>1, <1>2 DEF TreeInv, TreeFields
<1>5. TreeFields'
  BY <1>3, <1>4 DEF TreeInv, TreeFields
<1>6. Standing' /\ DeletesAsked'
  BY <1>3, <1>4 DEF TreeInv, Standing, DeletesAsked, Tree!There
<1>7. \A f : Tree!Subtree(f)' = Tree!Subtree(f) /\ Tree!Children(f)' = Tree!Children(f)
  BY <1>4 DEF Tree!Subtree, Tree!Closed, Tree!Children
<1>8. CheckedHolds'
  BY <1>3, <1>4, <1>7 DEF TreeInv, CheckedHolds, Moving
<1>9. Tree!LostOnlyByRace' /\ Tree!TreeUnlessRaced'
  BY <1>4, <1>7 DEF TreeInv, Tree!LostOnlyByRace, Tree!TreeUnlessRaced, Tree!There, Tree!Cycle
<1>. QED
  BY <1>5, <1>6, <1>8, <1>9 DEF TreeInv

(* a folder is created in one that is there; ...                           *)
LEMMA PutsKeep ==
  ASSUME NamesApart, TreeInv, NEW f \in Folders, srv.in[f] = "new", NEW c \in Folders \cup {"root"},
         Tree!There(c), srv' = Tree!Put(f, c)
  PROVE  TreeInv'
<1>1. /\ DOMAIN srv' = DOMAIN srv /\ srv'.in = [srv.in EXCEPT ![f] = c] /\ srv'.req = srv.req
      /\ srv'.asked = srv.asked /\ srv'.other = srv.other /\ srv'.twice = srv.twice
      /\ srv'.raced <=> srv.raced \/ Tree!Checked("delete", c)
  BY DEF Tree!Put, TreeInv, TreeFields
<1>2. /\ f \in Tree!Items /\ c # f /\ f \notin Files /\ c # "gone" /\ c # "new"
      /\ \A i \in Tree!Items : srv.in[i] # f
      /\ \A i \in Tree!Items \ {f} : srv'.in[i] = srv.in[i]
      /\ srv'.in[f] = c
  <2>1. f \in Tree!Items /\ f \notin Files /\ f # "root" /\ ~Tree!There(f)
    BY DEF Tree!Items, NamesApart, Tree!There, Tree!Root, Tree!Gone
  <2>2. c # f /\ c # "gone" /\ c # "new"
    BY <2>1 DEF NamesApart
  <2>3. \A i \in Tree!Items : srv.in[i] # f
    BY <2>1 DEF TreeInv, Standing
  <2>4. DOMAIN srv.in = Tree!Items
    BY DEF TreeInv, TreeFields
  <2>. QED
    BY <1>1, <2>1, <2>2, <2>3, <2>4
<1>3. TreeFields'
  BY <1>1, <1>2 DEF TreeInv, TreeFields
<1>4. Standing' /\ DeletesAsked'
  <2>1. \A g : Tree!There(g) /\ (g = Tree!Root \/ g \in Tree!Items) => Tree!There(g)'
    BY <1>2 DEF Tree!There, Tree!Gone
  <2>2. \A i \in Tree!Items : srv'.in[i] \in Folders => Tree!There(srv'.in[i])
    BY <1>2 DEF TreeInv, Standing
  <2>3. Standing'
    BY <2>1, <2>2 DEF Standing, Tree!Items
  <2>. QED
    BY <1>1, <2>3 DEF TreeInv, DeletesAsked
<1>5. \A S \in SUBSET Tree!Items : Tree!Closed(S) => Tree!Closed(S \cup {f})'
  BY <1>2 DEF Tree!Closed, Tree!Items
<1>6. \A g \in Tree!Items : \A t : t \notin Tree!Subtree(g) /\ t # f => t \notin Tree!Subtree(g)'
  <2> SUFFICES ASSUME NEW g \in Tree!Items, NEW t, t \notin Tree!Subtree(g), t # f
               PROVE  t \notin Tree!Subtree(g)'
    OBVIOUS
  <2>1. PICK S \in SUBSET Tree!Items : S = Tree!Subtree(g)
    BY SubtreeLeast
  <2>2. g \in S /\ t \notin S /\ Tree!Closed(S)
    BY <2>1, SubtreeLeast
  <2>3. Tree!Closed(S \cup {f})'
    BY <1>5, <2>2
  <2>. QED
    BY <1>2, <2>2, <2>3, OutsideNotBelow
<1>7. CheckedHolds'
  <2>1. \A q \in srv.req : Moving(q) => srv'.in[q.to] # "new" /\ q.to # f /\ q.i \in Tree!Items
    BY <1>2 DEF TreeInv, TreeFields, CheckedHolds, Moving, Tree!Items
  <2>2. ~srv'.raced => \A q \in srv.req : q.checked /\ q.op = "delete" => Tree!Children(q.i)' = {}
    <3> SUFFICES ASSUME ~srv'.raced, NEW q \in srv.req, q.checked, q.op = "delete"
                 PROVE  Tree!Children(q.i)' = {}
      OBVIOUS
    <3>1. q.i # c /\ Tree!Children(q.i) = {}
      BY <1>1 DEF Tree!Checked, TreeInv, CheckedHolds
    <3>. QED
      BY <1>2, <3>1 DEF Tree!Children, Tree!Items
  <2>. QED
    BY <1>1, <1>6, <2>1, <2>2 DEF TreeInv, CheckedHolds, Moving
<1>8. Tree!LostOnlyByRace'
  BY <1>1, <1>2 DEF TreeInv, Tree!LostOnlyByRace, Tree!Items
<1>9. Tree!TreeUnlessRaced'
  <2> SUFFICES ASSUME ~srv.twice, NEW g \in Folders, Tree!There(g)'
               PROVE  srv'.in[g] \notin Tree!Subtree(g)'
    BY <1>1 DEF Tree!TreeUnlessRaced, Tree!Cycle
  <2>1. CASE g = f
    <3>1. Tree!Closed({f})'
      BY <1>2 DEF Tree!Closed, Tree!Items
    <3>. QED
      BY <1>2, <2>1, <3>1, OutsideNotBelow
  <2>2. CASE g # f
    <3>1. g \in Tree!Items /\ srv'.in[g] = srv.in[g] /\ Tree!There(g)
      BY <1>2, <2>2 DEF Tree!There, Tree!Items
    <3>2. srv.in[g] \notin Tree!Subtree(g) /\ srv.in[g] # f
      BY <1>2, <3>1 DEF TreeInv, Tree!TreeUnlessRaced, Tree!Cycle
    <3>. QED
      BY <1>6, <3>1, <3>2
  <2>. QED
    BY <2>1, <2>2
<1>. QED
  BY <1>3, <1>4, <1>7, <1>8, <1>9 DEF TreeInv

(* an answered request leaves what the others have checked as it is; ...   *)
LEMMA AnswersKeep ==
  ASSUME TreeInv, NEW q, srv' = [srv EXCEPT !.req = srv.req \ {q}]
  PROVE  TreeInv'
<1>1. /\ DOMAIN srv' = DOMAIN srv /\ srv'.in = srv.in /\ srv'.req = srv.req \ {q}
      /\ srv'.asked = srv.asked /\ srv'.other = srv.other /\ srv'.twice = srv.twice /\ srv'.raced = srv.raced
  BY DEF TreeInv, TreeFields
<1>2. TreeFields' /\ Standing' /\ DeletesAsked'
  BY <1>1 DEF TreeInv, TreeFields, Standing, DeletesAsked, Tree!There
<1>3. \A f : Tree!Subtree(f)' = Tree!Subtree(f) /\ Tree!Children(f)' = Tree!Children(f)
  BY <1>1 DEF Tree!Subtree, Tree!Closed, Tree!Children
<1>4. CheckedHolds'
  BY <1>1, <1>3 DEF TreeInv, CheckedHolds, Moving
<1>5. Tree!LostOnlyByRace' /\ Tree!TreeUnlessRaced'
  BY <1>1, <1>3 DEF TreeInv, Tree!LostOnlyByRace, Tree!TreeUnlessRaced, Tree!There, Tree!Cycle
<1>. QED
  BY <1>2, <1>4, <1>5 DEF TreeInv

(* a check that succeeds is true when it is made, and no other move has    *)
(* been checked then, or the two are remembered as such; ...               *)
LEMMA ChecksKeep ==
  ASSUME NamesApart, TreeInv, NEW q \in srv.req, Tree!Check(q)
  PROVE  TreeInv'
<1> DEFINE r == [q EXCEPT !.checked = TRUE]
           ok == \/ q.op = "move" /\ Tree!Movable(q) /\ ~Tree!WouldCycle(q.i, q.to)
                 \/ q.op = "delete" /\ Tree!There(q.i) /\ Tree!Empty(q.i)
           both == srv.twice \/ (q.op = "move" /\ Tree!Checked("move", q.i))
<1>1. CASE ~ok
  BY <1>1, AnswersKeep DEF Tree!Check, Tree!Answer
<1>2. CASE ok
  <2>1. q.i \in Folders /\ srv' = [srv EXCEPT !.req = (srv.req \ {q}) \cup {r}, !.twice = both]
    BY <1>2 DEF Tree!Check, TreeInv, TreeFields
  <2>2. /\ r.op = q.op /\ r.i = q.i /\ r.to = q.to /\ r.checked /\ DOMAIN r = DOMAIN q
    BY DEF TreeInv, TreeFields
  <2> HIDE DEF r
  <2>3. /\ DOMAIN srv' = DOMAIN srv /\ srv'.in = srv.in /\ srv'.req = (srv.req \ {q}) \cup {r}
        /\ srv'.asked = srv.asked /\ srv'.other = srv.other /\ srv'.raced = srv.raced
        /\ srv'.twice <=> both
    BY <2>1 DEF TreeInv, TreeFields
  <2>4. TreeFields'
    BY <2>1, <2>2, <2>3 DEF TreeInv, TreeFields
  <2>5. Standing' /\ DeletesAsked'
    BY <2>2, <2>3 DEF TreeInv, Standing, DeletesAsked, Tree!There
  <2>6. \A f : Tree!Subtree(f)' = Tree!Subtree(f) /\ Tree!Children(f)' = Tree!Children(f)
    BY <2>3 DEF Tree!Subtree, Tree!Closed, Tree!Children
  <2>7. Moving(r) => srv.in[q.to] # "new" /\ q.to \notin Tree!Subtree(q.i)
    <3> SUFFICES ASSUME q.op = "move" PROVE srv.in[q.to] # "new" /\ q.to \notin Tree!Subtree(q.i)
      BY <2>2 DEF Moving
    <3>1. q.to \in Folders /\ q.to # "root" /\ Tree!Movable(q) /\ ~Tree!WouldCycle(q.i, q.to)
      BY <1>2 DEF TreeInv, TreeFields, NamesApart
    <3>. QED
      BY <3>1 DEF Tree!Movable, Tree!There, Tree!Root, Tree!Gone, Tree!WouldCycle, Tree!Cycle
  <2>8. q.op = "delete" => Tree!Children(q.i) = {}
    BY <1>2 DEF Tree!Empty
  <2>9. ~both /\ Moving(r) => \A p \in srv.req : ~Moving(p)
    BY <2>2 DEF Moving, Tree!Checked
  <2>10. CheckedHolds'
    <3>1. \A p \in srv'.req : p \in srv.req \/ p = r
      BY <2>3
    <3>2. \A p \in srv'.req : Moving(p) => srv'.in[p.to] # "new"
      BY <2>2, <2>3, <2>7, <3>1 DEF TreeInv, CheckedHolds
    <3>3. ~srv'.raced => \A p \in srv'.req : p.checked /\ p.op = "delete" => Tree!Children(p.i)' = {}
      BY <2>2, <2>3, <2>6, <2>8, <3>1 DEF TreeInv, CheckedHolds
    <3>4. ~srv'.twice => \A p, o \in srv'.req : Moving(p) /\ Moving(o) => p = o
      BY <2>3, <2>9, <3>1 DEF TreeInv, CheckedHolds
    <3>5. ~srv'.twice => \A p \in srv'.req : Moving(p) => p.to \notin Tree!Subtree(p.i)'
      BY <2>2, <2>3, <2>6, <2>7, <3>1 DEF TreeInv, CheckedHolds
    <3>. QED
      BY <3>2, <3>3, <3>4, <3>5 DEF CheckedHolds, Moving
  <2>11. Tree!LostOnlyByRace' /\ Tree!TreeUnlessRaced'
    BY <2>3, <2>6 DEF TreeInv, Tree!LostOnlyByRace, Tree!TreeUnlessRaced, Tree!There, Tree!Cycle
  <2>. QED
    BY <2>4, <2>5, <2>10, <2>11 DEF TreeInv
<1>. QED
  BY <1>1, <1>2

(* a deletion takes all below it: nothing but itself, if nobody put        *)
(* anything there since it was found empty; ...                            *)
LEMMA DeletesKeep ==
  ASSUME NamesApart, TreeInv, NEW q \in srv.req, Tree!Delete(q)
  PROVE  TreeInv'
<1>1. CASE ~Tree!There(q.i)
  BY <1>1, AnswersKeep DEF Tree!Delete, Tree!Answer
<1>2. CASE Tree!There(q.i)
  <2> DEFINE D == Tree!Subtree(q.i)
  <2>1. /\ q.op = "delete" /\ (q.checked \/ q.i \in Files) /\ q.i \in Tree!Items
        /\ srv' = [Tree!Remove(D) EXCEPT !.req = Tree!Remove(D).req \ {q}]
    BY <1>2 DEF Tree!Delete, Tree!Answer, Tree!Ready, TreeInv, TreeFields
  <2>2. /\ DOMAIN srv' = DOMAIN srv /\ srv'.in = [i \in Tree!Items |-> IF i \in D THEN "gone" ELSE srv.in[i]]
        /\ srv'.req = srv.req \ {q}
        /\ srv'.asked = srv.asked /\ srv'.other = srv.other /\ srv'.twice = srv.twice /\ srv'.raced = srv.raced
    BY <2>1 DEF Tree!Remove, TreeInv, TreeFields
  <2>3. Tree!Closed(D) /\ D \subseteq Tree!Items /\ q.i \in D
    BY <2>1, SubtreeLeast
  <2> HIDE DEF D
  <2>4. TreeFields'
    BY <2>2 DEF TreeInv, TreeFields
  <2>5. Standing'
    <3> SUFFICES ASSUME NEW i \in Tree!Items, NEW g \in Folders, g = srv'.in[i] PROVE Tree!There(g)'
      BY DEF Standing
    <3>1. g = srv.in[i] /\ i \notin D
      BY <2>2 DEF NamesApart
    <3>2. Tree!There(g) /\ g \notin D /\ g \in Tree!Items /\ g # "root"
      BY <2>3, <3>1 DEF TreeInv, Standing, Tree!Closed, Tree!Items, NamesApart
    <3>. QED
      BY <2>2, <3>2 DEF Tree!There, Tree!Root, Tree!Gone
  <2>6. DeletesAsked'
    BY <2>2 DEF TreeInv, DeletesAsked
  <2>7. \A S \in SUBSET Tree!Items : Tree!Closed(S) => Tree!Closed(S)'
    BY <2>2 DEF Tree!Closed, Tree!Items, NamesApart
  <2>8. \A f \in Tree!Items : \A t : t \notin Tree!Subtree(f) => t \notin Tree!Subtree(f)'
    <3> SUFFICES ASSUME NEW f \in Tree!Items, NEW t, t \notin Tree!Subtree(f) PROVE t \notin Tree!Subtree(f)'
      OBVIOUS
    <3>1. PICK S \in SUBSET Tree!Items : S = Tree!Subtree(f)
      BY SubtreeLeast
    <3>. QED
      BY <2>7, <3>1, SubtreeLeast, OutsideNotBelow
  <2>9. CheckedHolds'
    <3>1. \A p \in srv.req : Moving(p) => srv'.in[p.to] # "new" /\ p.i \in Tree!Items
      BY <2>2 DEF TreeInv, TreeFields, CheckedHolds, Moving, Tree!Items
    <3>2. \A f \in Tree!Items : Tree!Children(f) = {} => Tree!Children(f)' = {}
      BY <2>2 DEF Tree!Children, Tree!Items, NamesApart
    <3>3. \A p \in srv.req : p.i \in Tree!Items
      BY DEF TreeInv, TreeFields
    <3>. QED
      BY <2>2, <2>8, <3>1, <3>2, <3>3 DEF TreeInv, CheckedHolds, Moving
  <2>10. Tree!LostOnlyByRace'
    <3> SUFFICES ASSUME NEW x \in Files, srv'.in[x] = "gone", x \notin srv.asked PROVE srv.raced
      BY <2>2 DEF Tree!LostOnlyByRace
    <3>1. CASE x \notin D
      BY <2>2, <3>1 DEF TreeInv, Tree!LostOnlyByRace, Tree!Items
    <3>2. CASE x \in D
      <4>1. q.i \notin Files
        <5> SUFFICES ASSUME q.i \in Files PROVE FALSE
          OBVIOUS
        <5>1. \A i \in Tree!Items : srv.in[i] \notin Files
          BY DEF TreeInv, TreeFields, NamesApart
        <5>2. Tree!Closed({q.i})
          BY <5>1 DEF Tree!Closed
        <5>3. D \subseteq {q.i}
          BY <2>1, <5>2, SubtreeLeast DEF D
        <5>. QED
          BY <2>1, <3>2, <5>3 DEF TreeInv, DeletesAsked
      <4>2. q.checked
        BY <2>1, <4>1
      <4>3. Tree!Children(q.i) = {} => D \subseteq {q.i}
        <5>1. Tree!Children(q.i) = {} => Tree!Closed({q.i})
          BY DEF Tree!Children, Tree!Closed
        <5>. QED
          BY <2>1, <5>1, SubtreeLeast DEF D
      <4>. QED
        BY <2>1, <3>2, <4>1, <4>2, <4>3 DEF TreeInv, CheckedHolds
    <3>. QED
      BY <3>1, <3>2
  <2>11. Tree!TreeUnlessRaced'
    <3> SUFFICES ASSUME ~srv.twice, NEW f \in Folders, Tree!There(f)'
                 PROVE  srv'.in[f] \notin Tree!Subtree(f)'
      BY <2>2 DEF Tree!TreeUnlessRaced, Tree!Cycle
    <3>1. f \in Tree!Items /\ f \notin D /\ srv'.in[f] = srv.in[f] /\ Tree!There(f)
      <4>1. f \in Tree!Items /\ f # "root"
        BY DEF Tree!Items, NamesApart
      <4>. QED
        BY <2>2, <4>1 DEF Tree!There, Tree!Root, Tree!Gone
    <3>2. srv.in[f] \notin Tree!Subtree(f)
      BY <3>1 DEF TreeInv, Tree!TreeUnlessRaced, Tree!Cycle
    <3>. QED
      BY <2>8, <3>1, <3>2
  <2>. QED
    BY <2>4, <2>5, <2>6, <2>9, <2>10, <2>11 DEF TreeInv
<1>. QED
  BY <1>1, <1>2

(* and a move puts a folder where nothing of its own is, or had company.   *)
LEMMA MovesKeep ==
  ASSUME NamesApart, TreeInv, NEW q \in srv.req, Tree!Move(q)
  PROVE  TreeInv'
<1>1. CASE ~Tree!Movable(q)
  BY <1>1, AnswersKeep DEF Tree!Move, Tree!Answer
<1>2. CASE Tree!Movable(q)
  <2> DEFINE put == [srv EXCEPT !.in[q.i] = q.to, !.raced = srv.raced \/ Tree!Checked("delete", q.to)]
  <2>1. /\ q.op = "move" /\ (q.checked \/ q.i \in Files) /\ q.i \in Tree!Items /\ q.to \in Folders
        /\ q.to # "root" /\ q.i # "root" /\ q.to \in Tree!Items
        /\ srv' = [put EXCEPT !.req = put.req \ {q}]
    BY <1>2 DEF Tree!Move, Tree!Answer, Tree!Ready, Tree!Put, TreeInv, TreeFields, NamesApart, Tree!Items
  <2>2. PICK m \in Tree!Items, t \in Folders : m = q.i /\ t = q.to
    BY <2>1
  <2>3. /\ DOMAIN put = DOMAIN srv /\ put.in = [srv.in EXCEPT ![m] = t] /\ put.req = srv.req
        /\ put.asked = srv.asked /\ put.other = srv.other /\ put.twice = srv.twice
        /\ put.raced <=> srv.raced \/ Tree!Checked("delete", t)
    BY <2>2 DEF TreeInv, TreeFields
  <2> HIDE DEF put
  <2>4. /\ DOMAIN srv' = DOMAIN srv /\ srv'.in = [srv.in EXCEPT ![m] = t] /\ srv'.req = srv.req \ {q}
        /\ srv'.asked = srv.asked /\ srv'.other = srv.other /\ srv'.twice = srv.twice
        /\ srv'.raced <=> srv.raced \/ Tree!Checked("delete", t)
    BY <2>1, <2>3 DEF TreeInv, TreeFields
  <2>5. /\ t # "new" /\ t # "gone" /\ t \in Tree!Items /\ srv.in[t] \notin Tree!Gone
        /\ srv.in[m] \notin Tree!Gone
        /\ srv'.in[m] = t /\ \A i \in Tree!Items \ {m} : srv'.in[i] = srv.in[i]
    BY <1>2, <2>1, <2>2, <2>4 DEF Tree!Movable, Tree!There, Tree!Root, TreeInv, TreeFields, NamesApart, Tree!Items
  <2>6. TreeFields'
    BY <2>4, <2>5 DEF TreeInv, TreeFields
  <2>7. Standing' /\ DeletesAsked'
    <3>1. \A g \in Tree!Items : Tree!There(g) => Tree!There(g)'
      BY <2>5 DEF Tree!There, Tree!Gone
    <3>2. \A i \in Tree!Items : srv'.in[i] \in Folders => Tree!There(srv'.in[i])
      BY <2>5 DEF TreeInv, Standing, Tree!There
    <3>3. Standing'
      BY <3>1, <3>2 DEF Standing, Tree!Items
    <3>. QED
      BY <2>4, <3>3 DEF TreeInv, DeletesAsked
  <2>8. Tree!LostOnlyByRace'
    BY <2>4, <2>5 DEF TreeInv, Tree!LostOnlyByRace, Tree!Items
  <2>9. m \in Files => \A g \in Tree!Items : \A u : u \notin Tree!Subtree(g) /\ u # m => u \notin Tree!Subtree(g)'
    <3> SUFFICES ASSUME m \in Files, NEW g \in Tree!Items, NEW u, u \notin Tree!Subtree(g), u # m
                 PROVE  u \notin Tree!Subtree(g)'
      OBVIOUS
    <3>1. PICK S \in SUBSET Tree!Items : S = Tree!Subtree(g)
      BY SubtreeLeast
    <3>2. \A i \in Tree!Items : srv.in[i] # m
      BY DEF TreeInv, TreeFields, NamesApart
    <3>3. t # m
      BY DEF NamesApart
    <3>4. g \in S /\ u \notin S /\ Tree!Closed(S)
      BY <3>1, SubtreeLeast
    <3>5. Tree!Closed(S \cup {m})'
      BY <2>5, <3>2, <3>3, <3>4 DEF Tree!Closed, Tree!Items
    <3>. QED
      BY <3>4, <3>5, OutsideNotBelow
  <2>10. m \notin Files => Moving(q)
    BY <2>1, <2>2 DEF Moving
  <2>11. CheckedHolds'
    <3>1. \A p \in srv.req : Moving(p) => srv'.in[p.to] # "new" /\ p.to \in Folders /\ p.i \in Tree!Items
      BY <2>5 DEF TreeInv, TreeFields, CheckedHolds, Moving, Tree!Items
    <3>2. ~srv'.raced => \A p \in srv.req : p.checked /\ p.op = "delete" => Tree!Children(p.i)' = {}
      <4> SUFFICES ASSUME ~srv'.raced, NEW p \in srv.req, p.checked, p.op = "delete"
                   PROVE  Tree!Children(p.i)' = {}
        OBVIOUS
      <4>1. p.i # t /\ Tree!Children(p.i) = {}
        BY <2>4 DEF Tree!Checked, TreeInv, CheckedHolds
      <4>. QED
        BY <2>5, <4>1 DEF Tree!Children, Tree!Items
    <3>3. ~srv.twice => \A p, o \in srv.req \ {q} : Moving(p) /\ Moving(o) => p = o
      BY DEF TreeInv, CheckedHolds
    <3>4. ~srv.twice => \A p \in srv.req \ {q} : Moving(p) => p.to \notin Tree!Subtree(p.i)'
      <4> SUFFICES ASSUME ~srv.twice, NEW p \in srv.req \ {q}, Moving(p) PROVE p.to \notin Tree!Subtree(p.i)'
        OBVIOUS
      <4>1. ~Moving(q) /\ p.to \notin Tree!Subtree(p.i)
        BY DEF TreeInv, CheckedHolds
      <4>2. m \in Files /\ p.to # m
        BY <2>10, <3>1, <4>1 DEF NamesApart
      <4>. QED
        BY <2>9, <3>1, <4>1, <4>2
    <3>. QED
      BY <2>4, <3>1, <3>2, <3>3, <3>4 DEF CheckedHolds, Moving
  <2>12. Tree!TreeUnlessRaced'
    <3> SUFFICES ASSUME ~srv.twice, NEW f \in Folders, Tree!There(f)'
                 PROVE  srv'.in[f] \notin Tree!Subtree(f)'
      BY <2>4 DEF Tree!TreeUnlessRaced, Tree!Cycle
    <3>1. f \in Tree!Items
      BY DEF Tree!Items
    <3>2. f # m => Tree!There(f) /\ srv'.in[f] = srv.in[f] /\ srv.in[f] \notin Tree!Subtree(f)
      <4> SUFFICES ASSUME f # m PROVE Tree!There(f) /\ srv'.in[f] = srv.in[f] /\ srv.in[f] \notin Tree!Subtree(f)
        OBVIOUS
      <4>1. srv'.in[f] = srv.in[f] /\ Tree!There(f)
        BY <2>5, <3>1 DEF Tree!There
      <4>. QED
        BY <4>1 DEF TreeInv, Tree!TreeUnlessRaced, Tree!Cycle
    <3>3. CASE m \in Files
      <4>1. f # m /\ srv.in[f] # m
        BY <3>1, <3>3 DEF NamesApart, TreeInv, TreeFields
      <4>. QED
        BY <2>9, <3>1, <3>2, <3>3, <4>1
    <3>4. CASE m \notin Files
      <4>1. t \notin Tree!Subtree(m)
        BY <2>2, <2>10, <3>4 DEF TreeInv, CheckedHolds
      <4>2. PICK M \in SUBSET Tree!Items : M = Tree!Subtree(m)
        BY SubtreeLeast
      <4>3. m \in M /\ t \notin M /\ Tree!Closed(M)
        BY <4>1, <4>2, SubtreeLeast
      <4>4. CASE f = m
        <5>1. Tree!Closed(M)'
          BY <2>5, <4>3 DEF Tree!Closed, Tree!Items
        <5>. QED
          BY <2>5, <4>3, <4>4, <5>1, OutsideNotBelow
      <4>5. CASE f # m
        <5>1. PICK S \in SUBSET Tree!Items : S = Tree!Subtree(f)
          BY <3>1, SubtreeLeast
        <5>2. f \in S /\ srv.in[f] \notin S /\ Tree!Closed(S)
          BY <3>1, <3>2, <4>5, <5>1, SubtreeLeast
        <5>3. CASE t \notin S
          <6>1. Tree!Closed(S)'
            BY <2>5, <5>2, <5>3 DEF Tree!Closed, Tree!Items
          <6>. QED
            BY <3>1, <3>2, <4>5, <5>2, <6>1, OutsideNotBelow
        <5>4. CASE t \in S
          <6>1. srv.in[f] \notin M
            <7> SUFFICES ASSUME srv.in[f] \in M PROVE FALSE
              OBVIOUS
            <7>1. f \in M
              BY <3>1, <4>3 DEF Tree!Closed
            <7>2. S \subseteq M
              BY <3>1, <4>3, <5>1, <7>1, SubtreeLeast
            <7>. QED
              BY <4>3, <5>4, <7>2
          <6>2. Tree!Closed(S \cup M)'
            BY <2>5, <4>3, <5>2 DEF Tree!Closed, Tree!Items
          <6>. QED
            BY <3>1, <3>2, <4>5, <5>2, <6>1, <6>2, OutsideNotBelow
        <5>. QED
          BY <5>3, <5>4
      <4>. QED
        BY <4>4, <4>5
    <3>. QED
      BY <3>3, <3>4
  <2>. QED
    BY <2>6, <2>7, <2>8, <2>11, <2>12 DEF TreeInv
<1>. QED
  BY <1>1, <1>2

(* The browser's fields.                                                   *)
Place == Folders \cup {"root"}
BrowserFields(u) ==
  /\ {"client", "skip", "view", "drag", "bulk", "shown", "loads", "busy"} \subseteq DOMAIN u
  /\ {"cwd", "search", "mode", "sel", "searched", "dialog", "named"} \subseteq DOMAIN u.view
  /\ {"op", "to", "won", "hid"} \subseteq DOMAIN u.bulk
  /\ u.view.cwd \in Place /\ u.view.search \in Tree!Items \cup {""}
  /\ u.view.sel \subseteq Tree!Items /\ u.view.named \subseteq Tree!Items /\ u.drag \subseteq Tree!Items
  /\ u.bulk = Tree!NoBulk \/ u.bulk.op = "delete" \/ (u.bulk.op = "move" /\ u.bulk.to \in Folders)

(* Who has a selection: not the app, and nobody who is asked about a single *)
(* item, or whose single deletion is under way.                             *)
Unselected(u) == ~u.view.mode \/ u.view.dialog = "one" \/ u.client = "app" => u.view.sel = {}
Requested(u) ==
  \A q \in srv.req : /\ q.by = "bulk" => u.bulk # Tree!NoBulk
                     /\ q.by = "other" => srv.other > 0
                     /\ q.op = "delete" /\ q.by \in {"one", "app"} => u.view.sel = {}
                     /\ q.by \in {"one", "app", "bulk", "other"} /\ (q.op = "move" => q.by # "app")
(* The view lists what is selected, but for those who search or have company. *)
Shown(u) == u.bulk = Tree!NoBulk /\ ~u.view.searched /\ srv.other = 0 => u.view.sel \subseteq Tree!Listed

ListInv == /\ BrowserFields(ui) /\ Unselected(ui) /\ Requested(ui) /\ Shown(ui)
           /\ Tree!SelectionIsListed

LEMMA GoLands ==
  ASSUME NEW u, BrowserFields(u), NEW f \in Place
  PROVE  /\ BrowserFields(Tree!Go(u, f))
         /\ Tree!Go(u, f).bulk = u.bulk /\ Tree!Go(u, f).client = u.client /\ Tree!Go(u, f).drag = u.drag
         /\ \/ (Tree!Go(u, f) = u /\ f = u.view.cwd)
            \/ Tree!Go(u, f).view.sel = {}
<1>1. CASE f = u.view.cwd
  BY <1>1 DEF Tree!Go
<1>2. CASE f # u.view.cwd /\ Tree!Root \in {f, u.view.cwd}
  <2> DEFINE v == Tree!View(f)
  <2>1. Tree!Go(u, f) = [u EXCEPT !.view = v]
    BY <1>2 DEF Tree!Go
  <2>2. /\ v.cwd = f /\ v.sel = {} /\ v.search = "" /\ v.named = {}
        /\ {"cwd", "search", "mode", "sel", "searched", "dialog", "named"} \subseteq DOMAIN v
    BY DEF Tree!View
  <2> HIDE DEF v
  <2>. QED
    BY <2>1, <2>2 DEF BrowserFields
<1>3. CASE f # u.view.cwd /\ Tree!Root \notin {f, u.view.cwd}
  <2> DEFINE v == [u.view EXCEPT !.sel = {}, !.searched = FALSE, !.cwd = f]
  <2>1. Tree!Go(u, f) = [u EXCEPT !.view = v]
    BY <1>3 DEF Tree!Go, Tree!Forget
  <2>2. /\ v.cwd = f /\ v.sel = {} /\ v.search = u.view.search /\ v.named = u.view.named
        /\ DOMAIN v = DOMAIN u.view
    BY DEF BrowserFields
  <2> HIDE DEF v
  <2>. QED
    BY <2>1, <2>2 DEF BrowserFields
<1>. QED
  BY <1>1, <1>2, <1>3

(* An empty selection is no trouble.                                       *)
LEMMA NothingSelected ==
  ASSUME ListInv, srv'.req \subseteq srv.req, srv'.other = srv.other,
         BrowserFields(ui'), ui'.view.sel = {}, ui'.bulk = ui.bulk
  PROVE  ListInv'
<1>1. BrowserFields(ui)' /\ Unselected(ui)'
  BY DEF BrowserFields, Unselected
<1>2. Requested(ui)' /\ Shown(ui)' /\ Tree!SelectionIsListed'
  BY DEF ListInv, Requested, Shown, Tree!SelectionIsListed
<1>. QED
  BY <1>1, <1>2 DEF ListInv

(* One that stands in the same list, as it was listed.                     *)
LEMMA SelectionStands ==
  ASSUME ListInv, srv' = srv, BrowserFields(ui'), ui'.client = ui.client, ui'.bulk = ui.bulk,
         ui'.view.cwd = ui.view.cwd, ui'.view.sel = ui.view.sel, ui'.view.search = ui.view.search,
         ~ui'.view.searched => ~ui.view.searched, ui.view.mode => ui'.view.mode,
         ui'.view.dialog = "one" => ui.view.sel = {}
  PROVE  ListInv'
<1>1. BrowserFields(ui)' /\ Unselected(ui)'
  BY DEF ListInv, Unselected, BrowserFields
<1>2. Requested(ui)' /\ Tree!SelectionIsListed'
  BY DEF ListInv, Requested, Tree!SelectionIsListed
<1>3. Tree!Listed' = Tree!Listed
  BY DEF Tree!Listed, Tree!View1, Tree!There, Tree!Children
<1>4. Shown(ui)'
  BY <1>3 DEF ListInv, Shown
<1>. QED
  BY <1>1, <1>2, <1>4 DEF ListInv

(* What can be listed, and where one can go.                               *)
LEMMA ListedItems == ListInv => Tree!Listed \subseteq Tree!Items /\ \A f : Tree!Above(f) \subseteq Folders
BY DEF ListInv, BrowserFields, Tree!Listed, Tree!View1, Tree!Children, Tree!Above

(* Nothing goes on but what the user did, when the page is free.           *)
LEMMA BrowsingKeeps ==
  ASSUME NamesApart, ListInv,
         \/ Tree!OpenFolder \/ Tree!GoUp \/ Tree!HoverOpen \/ Tree!Search \/ Tree!ToggleMode \/ Tree!Select
  PROVE  ListInv'
<1>1. BrowserFields(ui) /\ Tree!Listed \subseteq Tree!Items
  BY ListedItems DEF ListInv
<1>2. CASE Tree!OpenFolder \/ Tree!GoUp \/ Tree!HoverOpen
  <2>1. srv' = srv /\ \E f \in Place : ui' = Tree!Go(ui, f)
    BY <1>2, ListedItems DEF Tree!OpenFolder, Tree!GoUp, Tree!HoverOpen, Place, Tree!Root
  <2>2. PICK f \in Place : ui' = Tree!Go(ui, f)
    BY <2>1
  <2>3. BrowserFields(ui') /\ ui'.bulk = ui.bulk /\ (ui' = ui \/ ui'.view.sel = {})
    BY <1>1, <2>2, GoLands
  <2>4. ui' = ui => ListInv'
    BY <2>1 DEF ListInv, BrowserFields, Unselected, Requested, Shown, Tree!SelectionIsListed, Tree!Listed,
                Tree!View1, Tree!There, Tree!Children
  <2>. QED
    BY <2>1, <2>3, <2>4, NothingSelected
<1>3. CASE Tree!Search
  <2>1. PICK s \in (Tree!Items \cup {""}) \ {ui.view.search} :
          ui' = [ui EXCEPT !.view.search = s, !.view.searched = @ \/ ui.view.sel # {}]
    BY <1>3 DEF Tree!Search, Tree!View1
  <2> DEFINE v == [ui.view EXCEPT !.search = s, !.searched = ui.view.searched \/ ui.view.sel # {}]
  <2>2. ui' = [ui EXCEPT !.view = v] /\ srv' = srv
    BY <1>1, <1>3, <2>1 DEF BrowserFields, Tree!Search
  <2>3. /\ v.cwd = ui.view.cwd /\ v.sel = ui.view.sel /\ v.search = s /\ v.named = ui.view.named
        /\ v.mode = ui.view.mode /\ v.dialog = ui.view.dialog
        /\ DOMAIN v = DOMAIN ui.view /\ (v.searched <=> ui.view.searched \/ ui.view.sel # {})
    BY <1>1 DEF BrowserFields
  <2> HIDE DEF v
  <2>4. /\ BrowserFields(ui') /\ ui'.client = ui.client /\ ui'.bulk = ui.bulk /\ ui'.view = v
    BY <1>1, <2>2, <2>3 DEF BrowserFields
  <2>5. Unselected(ui)' /\ Requested(ui)' /\ Tree!SelectionIsListed'
    BY <2>2, <2>3, <2>4 DEF ListInv, Unselected, Requested, Tree!SelectionIsListed
  <2>6. Shown(ui)'
    BY <2>3, <2>4 DEF Shown
  <2>7. BrowserFields(ui)'
    BY <2>4 DEF BrowserFields
  <2>. QED
    BY <2>5, <2>6, <2>7 DEF ListInv
<1>4. CASE Tree!ToggleMode
  <2>1. CASE ui.view.mode
    <3> DEFINE v == [ui.view EXCEPT !.sel = {}, !.searched = FALSE, !.mode = FALSE]
    <3>1. ui' = [ui EXCEPT !.view = v] /\ srv' = srv
      BY <1>4, <2>1 DEF Tree!ToggleMode, Tree!Forget
    <3>2. /\ v.cwd = ui.view.cwd /\ v.sel = {} /\ v.search = ui.view.search /\ v.named = ui.view.named
          /\ DOMAIN v = DOMAIN ui.view
      BY <1>1 DEF BrowserFields
    <3> HIDE DEF v
    <3>3. BrowserFields(ui') /\ ui'.bulk = ui.bulk /\ ui'.view.sel = {}
      BY <1>1, <3>1, <3>2 DEF BrowserFields
    <3>. QED
      BY <3>1, <3>3, NothingSelected
  <2>2. CASE ~ui.view.mode
    <3> DEFINE v == [ui.view EXCEPT !.mode = TRUE]
    <3>1. ui' = [ui EXCEPT !.view = v] /\ srv' = srv
      BY <1>4, <2>2 DEF Tree!ToggleMode
    <3>2. /\ v.cwd = ui.view.cwd /\ v.sel = ui.view.sel /\ v.search = ui.view.search /\ v.named = ui.view.named
          /\ DOMAIN v = DOMAIN ui.view
      BY <1>1 DEF BrowserFields
    <3> HIDE DEF v
    <3>3. BrowserFields(ui') /\ ui'.bulk = ui.bulk /\ ui'.view.sel = {}
      BY <1>1, <2>2, <3>1, <3>2 DEF BrowserFields, ListInv, Unselected
    <3>. QED
      BY <3>1, <3>3, NothingSelected
  <2>. QED
    BY <2>1, <2>2
<1>5. CASE Tree!Select
  <2>1. PICK i \in Tree!Listed : ui' = [ui EXCEPT !.view.sel = IF i \in @ THEN @ \ {i} ELSE @ \cup {i}]
    BY <1>5 DEF Tree!Select
  <2> DEFINE s == IF i \in ui.view.sel THEN ui.view.sel \ {i} ELSE ui.view.sel \cup {i}
             v == [ui.view EXCEPT !.sel = s]
  <2>2. ui' = [ui EXCEPT !.view = v] /\ srv' = srv
    BY <1>1, <1>5, <2>1 DEF BrowserFields, Tree!Select
  <2>3. /\ v.cwd = ui.view.cwd /\ v.sel = s /\ v.search = ui.view.search /\ v.named = ui.view.named
        /\ v.mode = ui.view.mode /\ v.dialog = ui.view.dialog /\ v.searched = ui.view.searched
        /\ DOMAIN v = DOMAIN ui.view
    BY <1>1 DEF BrowserFields
  <2>4. s \subseteq ui.view.sel \cup {i} /\ i \in Tree!Items
    BY <1>1
  <2> HIDE DEF v, s
  <2>5. /\ BrowserFields(ui') /\ ui'.client = ui.client /\ ui'.bulk = ui.bulk /\ ui'.view = v
    BY <1>1, <2>2, <2>3, <2>4 DEF BrowserFields
  <2>6. ui.client = "page" /\ ui.view.dialog = "none" /\ ui.view.mode
        /\ \A q \in srv.req : q.by = "other"
    BY <1>5 DEF Tree!Select, Tree!Free, Tree!View1, Tree!Mine
  <2>7. Unselected(ui)' /\ Requested(ui)' /\ Tree!SelectionIsListed'
    BY <2>2, <2>3, <2>5, <2>6 DEF ListInv, Unselected, Requested, Tree!SelectionIsListed
  <2>8. Tree!Listed' = Tree!Listed
    BY <2>2, <2>3, <2>5 DEF Tree!Listed, Tree!View1, Tree!There, Tree!Children
  <2>9. Shown(ui)'
    BY <2>1, <2>2, <2>3, <2>4, <2>5, <2>8 DEF ListInv, Shown
  <2>10. BrowserFields(ui)'
    BY <2>5 DEF BrowserFields
  <2>. QED
    BY <2>7, <2>9, <2>10 DEF ListInv
<1>. QED
  BY <1>2, <1>3, <1>4, <1>5

(* Dialogs and drags leave the selection alone, ...                        *)
LEMMA AskingKeeps ==
  ASSUME ListInv,
         \/ (Tree!AskDelete /\ ~ui.skip) \/ (Tree!AskBulkDelete /\ ~ui.skip) \/ Tree!AskBulkMove
         \/ Tree!CancelDialog \/ Tree!StartDrag \/ Tree!EndDrag \/ Tree!LoadAnswered
  PROVE  ListInv'
<1>1. BrowserFields(ui) /\ Unselected(ui) /\ Tree!Listed \subseteq Tree!Items
  BY ListedItems DEF ListInv
<1>2. CASE (Tree!AskDelete /\ ~ui.skip) \/ (Tree!AskBulkDelete /\ ~ui.skip) \/ Tree!AskBulkMove \/ Tree!CancelDialog
  <2>1. /\ srv' = srv
        /\ \E d \in {"none", "one", "delete", "move"}, n \in SUBSET Tree!Items :
             /\ ui' = [ui EXCEPT !.view.dialog = d, !.view.named = n]
             /\ d = "one" => ~ui.view.mode
    <3>1. ui.view.named = ui.view.named /\ [ui EXCEPT !.view.dialog = "delete"]
            = [ui EXCEPT !.view.dialog = "delete", !.view.named = ui.view.named]
      BY <1>1 DEF BrowserFields
    <3>2. [ui EXCEPT !.view.dialog = "move"]
            = [ui EXCEPT !.view.dialog = "move", !.view.named = ui.view.named]
      BY <1>1 DEF BrowserFields
    <3>3. ui.view.named \in SUBSET Tree!Items
      BY <1>1 DEF BrowserFields
    <3>4. CASE Tree!AskDelete /\ ~ui.skip
      <4>1. srv' = srv /\ ~ui.view.mode
            /\ \E i \in Tree!Listed : ui' = [ui EXCEPT !.view.dialog = "one", !.view.named = {i}]
        BY <3>4 DEF Tree!AskDelete, Tree!View1
      <4>2. PICK n \in SUBSET Tree!Items : ui' = [ui EXCEPT !.view.dialog = "one", !.view.named = n]
        BY <1>1, <4>1
      <4>. QED
        BY <4>1, <4>2
    <3>5. CASE Tree!AskBulkDelete /\ ~ui.skip
      BY <3>1, <3>3, <3>5 DEF Tree!AskBulkDelete
    <3>6. CASE Tree!AskBulkMove
      BY <3>2, <3>3, <3>6 DEF Tree!AskBulkMove
    <3>7. CASE Tree!CancelDialog
      <4>1. PICK n \in SUBSET Tree!Items : n = {}
        OBVIOUS
      <4>. QED
        BY <3>7, <4>1 DEF Tree!CancelDialog
    <3>. QED
      BY <1>2, <3>4, <3>5, <3>6, <3>7
  <2>2. PICK d \in {"none", "one", "delete", "move"}, n \in SUBSET Tree!Items :
          ui' = [ui EXCEPT !.view.dialog = d, !.view.named = n] /\ (d = "one" => ~ui.view.mode)
    BY <2>1
  <2> DEFINE v == [ui.view EXCEPT !.dialog = d, !.named = n]
  <2>3. ui' = [ui EXCEPT !.view = v]
    BY <1>1, <2>2 DEF BrowserFields
  <2>4. /\ v.cwd = ui.view.cwd /\ v.sel = ui.view.sel /\ v.search = ui.view.search /\ v.named = n
        /\ v.mode = ui.view.mode /\ v.dialog = d /\ v.searched = ui.view.searched
        /\ DOMAIN v = DOMAIN ui.view
    BY <1>1 DEF BrowserFields
  <2> HIDE DEF v
  <2>5. /\ BrowserFields(ui') /\ ui'.client = ui.client /\ ui'.bulk = ui.bulk /\ ui'.view = v
    BY <1>1, <2>3, <2>4 DEF BrowserFields
  <2>. QED
    BY <1>1, <2>1, <2>2, <2>4, <2>5, SelectionStands DEF Unselected
<1>3. CASE Tree!StartDrag \/ Tree!EndDrag \/ Tree!LoadAnswered
  <2>1. /\ srv' = srv /\ DOMAIN ui' = DOMAIN ui /\ ui'.view = ui.view /\ ui'.bulk = ui.bulk /\ ui'.client = ui.client
        /\ ui'.drag \subseteq Tree!Items
    <3>1. CASE Tree!StartDrag
      <4>1. srv' = srv
            /\ \E i \in Tree!Listed : ui' = [ui EXCEPT !.drag = IF i \in ui.view.sel THEN ui.view.sel ELSE {i}]
        BY <3>1 DEF Tree!StartDrag, Tree!View1
      <4>2. PICK n \in SUBSET Tree!Items : ui' = [ui EXCEPT !.drag = n]
        <5>1. ui.view.sel \in SUBSET Tree!Items
          BY <1>1 DEF BrowserFields
        <5>2. PICK i \in Tree!Listed : ui' = [ui EXCEPT !.drag = IF i \in ui.view.sel THEN ui.view.sel ELSE {i}]
          BY <4>1
        <5>3. {i} \in SUBSET Tree!Items
          BY <1>1
        <5>. QED
          BY <5>1, <5>2, <5>3
      <4>. QED
        BY <1>1, <4>1, <4>2 DEF BrowserFields
    <3>2. CASE Tree!EndDrag
      BY <3>2 DEF Tree!EndDrag
    <3>3. CASE Tree!LoadAnswered
      <4>1. srv' = srv /\ \/ \E l : ui' = [ui EXCEPT !.loads = l]
                          \/ \E l, f : ui' = [ui EXCEPT !.loads = l, !.busy = FALSE, !.shown = f]
        BY <3>3, Zenon DEF Tree!LoadAnswered
      <4>. QED
        BY <1>1, <4>1 DEF BrowserFields
    <3>. QED
      BY <1>3, <3>1, <3>2, <3>3
  <2>2. BrowserFields(ui')
    BY <1>1, <2>1 DEF BrowserFields
  <2>. QED
    BY <1>1, <2>1, <2>2, SelectionStands DEF Unselected
<1>. QED
  BY <1>2, <1>3

(* the app has none, ...                                                   *)
LEMMA AppKeeps ==
  ASSUME ListInv, srv'.req = srv.req, srv'.other = srv.other, ui.client = "app", NEW f \in Place, Tree!Load(f)
  PROVE  ListInv'
<1> DEFINE v == [ui.view EXCEPT !.cwd = f]
<1>1. BrowserFields(ui) /\ ui.view.sel = {}
  BY DEF ListInv, Unselected
<1>2. ui' = [ui EXCEPT !.view = v, !.loads = @ \cup {f}, !.busy = TRUE]
  BY <1>1 DEF BrowserFields, Tree!Load
<1>3. /\ v.cwd = f /\ v.sel = {} /\ v.search = ui.view.search /\ v.named = ui.view.named
      /\ DOMAIN v = DOMAIN ui.view
  BY <1>1 DEF BrowserFields
<1> HIDE DEF v
<1>4. BrowserFields(ui') /\ ui'.bulk = ui.bulk /\ ui'.view.sel = {}
  BY <1>1, <1>2, <1>3 DEF BrowserFields
<1>. QED
  BY <1>4, NothingSelected

(* and the end of a bulk run clears it.                                    *)
LEMMA BulkEnds ==
  ASSUME ListInv, Tree!EndBulk
  PROVE  ListInv'
<1> DEFINE v == [ui.view EXCEPT !.sel = {}, !.searched = FALSE, !.mode = FALSE, !.dialog = "none", !.named = {}]
           u == [ui EXCEPT !.bulk = Tree!NoBulk, !.view = v]
<1>1. BrowserFields(ui)
  BY DEF ListInv
<1>2. /\ v.cwd = ui.view.cwd /\ v.sel = {} /\ v.search = ui.view.search /\ v.named = {}
      /\ DOMAIN v = DOMAIN ui.view
  BY <1>1 DEF BrowserFields
<1>3. [Tree!Forget(ui.view) EXCEPT !.mode = FALSE, !.dialog = "none", !.named = {}] = v
  BY <1>1 DEF BrowserFields, Tree!Forget
<1>4. /\ srv' = srv /\ \A q \in srv.req : q.by = "other"
      /\ ui' = IF ui.bulk.op = "move" /\ ui.bulk.won THEN Tree!Go(u, ui.bulk.to) ELSE u
  BY <1>3 DEF Tree!EndBulk, Tree!Mine
<1> HIDE DEF v
<1>5. {"op", "to", "won", "hid"} \subseteq DOMAIN Tree!NoBulk /\ Tree!NoBulk.hid = {} /\ Tree!NoBulk.op = "none"
  BY DEF Tree!NoBulk
<1>6. BrowserFields(u) /\ u.bulk = Tree!NoBulk /\ u.view.sel = {}
  BY <1>1, <1>2, <1>5 DEF BrowserFields
<1> HIDE DEF u
<1>7. BrowserFields(ui') /\ ui'.bulk = Tree!NoBulk /\ ui'.view.sel = {}
  <2>1. ui.bulk.op = "move" => ui.bulk.to \in Place
    BY <1>1, <1>5 DEF BrowserFields, Place
  <2>2. CASE ui.bulk.op = "move" /\ ui.bulk.won
    BY <1>4, <1>6, <2>1, <2>2, GoLands
  <2>3. CASE ~(ui.bulk.op = "move" /\ ui.bulk.won)
    BY <1>4, <1>6, <2>3
  <2>. QED
    BY <2>2, <2>3
<1>8. BrowserFields(ui)' /\ Unselected(ui)' /\ Requested(ui)' /\ Shown(ui)' /\ Tree!SelectionIsListed'
  BY <1>4, <1>5, <1>7 DEF ListInv, BrowserFields, Unselected, Requested, Shown, Tree!SelectionIsListed
<1>. QED
  BY <1>8 DEF ListInv

(* What is sent adds to the requests, and changes nothing else that counts. *)
LEMMA SentFields ==
  ASSUME TreeFields, NEW op, NEW is, NEW to, NEW by, srv' = Tree!Send(op, is, to, by)
  PROVE  /\ srv'.in = srv.in /\ srv'.other = srv.other
         /\ \A q \in srv'.req : q \in srv.req \/ (q.op = op /\ q.by = by)
BY DEF Tree!Send, Tree!Request, TreeFields

(* One request of the user's own, ...                                      *)
LEMMA OneSent ==
  ASSUME TreeFields, ListInv, BrowserFields(ui'), ui'.client = ui.client, ui'.bulk = ui.bulk,
         ui'.view.cwd = ui.view.cwd, ui'.view.search = ui.view.search, ui'.view.sel = ui.view.sel,
         ui'.view.mode = ui.view.mode, ui'.view.searched = ui.view.searched,
         ui'.view.dialog \in {ui.view.dialog, "none"},
         NEW op, NEW is, NEW to, NEW by \in {"one", "app"}, srv' = Tree!Send(op, is, to, by),
         op = "delete" \/ (op = "move" /\ by = "one"), op = "delete" => ui.view.sel = {}
  PROVE  ListInv'
<1>1. /\ srv'.in = srv.in /\ srv'.other = srv.other
      /\ \A q \in srv'.req : q \in srv.req \/ (q.op = op /\ q.by = by)
  BY SentFields
<1>2. BrowserFields(ui)' /\ Unselected(ui)' /\ Tree!SelectionIsListed'
  BY DEF ListInv, BrowserFields, Unselected, Tree!SelectionIsListed
<1>3. Requested(ui)'
  BY <1>1 DEF ListInv, Requested
<1>4. Tree!Listed' = Tree!Listed
  BY <1>1 DEF Tree!Listed, Tree!View1, Tree!There, Tree!Children
<1>5. Shown(ui)'
  BY <1>1, <1>4 DEF ListInv, Shown
<1>. QED
  BY <1>2, <1>3, <1>5 DEF ListInv

(* and many at once, of which the dialog hides none of those it should list. *)
LEMMA ManySent ==
  ASSUME TreeFields, ListInv, NEW d \in SUBSET Tree!Items, NEW b,
         {"op", "to", "won", "hid"} \subseteq DOMAIN b, b.op = "delete" \/ (b.op = "move" /\ b.to \in Folders),
         \A i : <<i, FALSE>> \notin b.hid, ui' = [ui EXCEPT !.bulk = b, !.drag = d],
         NEW op, NEW is, NEW to, srv' = Tree!Send(op, is, to, "bulk")
  PROVE  ListInv'
<1>1. /\ srv'.in = srv.in /\ srv'.other = srv.other
      /\ \A q \in srv'.req : q \in srv.req \/ (q.op = op /\ q.by = "bulk")
  BY SentFields
<1>2. b # Tree!NoBulk
  BY DEF Tree!NoBulk
<1>3. BrowserFields(ui') /\ ui'.client = ui.client /\ ui'.bulk = b /\ ui'.view = ui.view
  BY DEF ListInv, BrowserFields
<1>4. BrowserFields(ui)' /\ Unselected(ui)' /\ Tree!SelectionIsListed'
  BY <1>3 DEF ListInv, BrowserFields, Unselected, Tree!SelectionIsListed
<1>5. Requested(ui)' /\ Shown(ui)'
  BY <1>1, <1>2, <1>3 DEF ListInv, Requested, Shown
<1>. QED
  BY <1>4, <1>5 DEF ListInv

LEMMA SendingKeeps ==
  ASSUME TreeFields, ListInv,
         \/ (Tree!AskDelete /\ ui.skip) \/ Tree!ConfirmDelete \/ Tree!DeleteInApp
         \/ (Tree!AskBulkDelete /\ ui.skip) \/ Tree!ConfirmBulkDelete \/ Tree!ConfirmBulkMove \/ Tree!Drop
  PROVE  /\ ListInv'
         /\ \E op \in {"move", "delete"}, is \in SUBSET Tree!Items : \E to, by :
              srv' = Tree!Send(op, is, to, by) /\ (op = "move" => to \in Folders)
<1>1. /\ BrowserFields(ui) /\ Unselected(ui) /\ Tree!Listed \subseteq Tree!Items
      /\ ui.view.sel \in SUBSET Tree!Items /\ ui.view.named \in SUBSET Tree!Items
  BY ListedItems DEF ListInv, BrowserFields
<1>2. CASE Tree!AskDelete /\ ui.skip
  <2>1. PICK i \in Tree!Listed : srv' = Tree!Send("delete", {i}, Tree!Root, "one") /\ ui' = ui
    BY <1>2 DEF Tree!AskDelete
  <2>2. ui.view.sel = {} /\ {i} \in SUBSET Tree!Items
    BY <1>1, <1>2 DEF Unselected, Tree!AskDelete, Tree!View1
  <2>3. ListInv'
    BY <1>1, <2>1, <2>2, OneSent DEF BrowserFields
  <2>. QED
    BY <2>1, <2>2, <2>3
<1>3. CASE Tree!ConfirmDelete
  <2> DEFINE v == [ui.view EXCEPT !.dialog = "none", !.named = {}]
  <2>1. srv' = Tree!Send("delete", ui.view.named, Tree!Root, "one") /\ ui.view.sel = {}
    BY <1>1, <1>3 DEF Tree!ConfirmDelete, Tree!View1, Unselected
  <2>2. ui' = [ui EXCEPT !.view = v]
    BY <1>1, <1>3 DEF Tree!ConfirmDelete, BrowserFields
  <2>3. /\ v.cwd = ui.view.cwd /\ v.sel = ui.view.sel /\ v.search = ui.view.search /\ v.named = {}
        /\ v.mode = ui.view.mode /\ v.dialog = "none" /\ v.searched = ui.view.searched
        /\ DOMAIN v = DOMAIN ui.view
    BY <1>1 DEF BrowserFields
  <2> HIDE DEF v
  <2>4. BrowserFields(ui') /\ ui'.client = ui.client /\ ui'.bulk = ui.bulk /\ ui'.view = v
    BY <1>1, <2>2, <2>3 DEF BrowserFields
  <2>5. ListInv'
    BY <2>1, <2>3, <2>4, OneSent
  <2>. QED
    BY <1>1, <2>1, <2>5
<1>4. CASE Tree!DeleteInApp
  <2>1. PICK x \in Tree!ListedInApp \cap Files : srv' = Tree!Send("delete", {x}, Tree!Root, "app") /\ ui' = ui
    BY <1>4 DEF Tree!DeleteInApp
  <2>2. {x} \in SUBSET Tree!Items /\ ui.view.sel = {}
    BY <1>1, <1>4 DEF Tree!Items, Tree!DeleteInApp, Tree!App, Unselected
  <2>3. ListInv'
    BY <1>1, <2>1, <2>2, OneSent DEF BrowserFields
  <2>. QED
    BY <2>1, <2>2, <2>3
<1>5. CASE Tree!AskBulkDelete /\ ui.skip
  <2> DEFINE b == [op |-> "delete", to |-> Tree!Root, won |-> FALSE, hid |-> {}]
  <2>1. srv' = Tree!Send("delete", ui.view.sel, Tree!Root, "bulk") /\ ui' = [ui EXCEPT !.bulk = b]
    BY <1>5 DEF Tree!AskBulkDelete, Tree!View1, Tree!StartBulk
  <2>2. /\ {"op", "to", "won", "hid"} \subseteq DOMAIN b /\ b.op = "delete" /\ b.hid = {}
    OBVIOUS
  <2> HIDE DEF b
  <2>3. ui' = [ui EXCEPT !.bulk = b, !.drag = ui.drag] /\ ui.drag \in SUBSET Tree!Items
    BY <1>1, <2>1 DEF BrowserFields
  <2>4. ListInv'
    BY <2>1, <2>2, <2>3, ManySent
  <2>. QED
    BY <1>1, <2>1, <2>4
<1>6. CASE Tree!ConfirmBulkDelete
  <2> DEFINE h == {<<i, ui.view.searched \/ srv.other > 0>> : i \in ui.view.sel \ Tree!Listed}
             c == [op |-> "delete", to |-> Tree!Root, won |-> FALSE, hid |-> {}]
             b == [c EXCEPT !.hid = h]
  <2>1. /\ srv' = Tree!Send("delete", ui.view.sel, Tree!Root, "bulk") /\ ui.bulk = Tree!NoBulk
        /\ ui' = [Tree!StartBulk("delete", Tree!Root) EXCEPT !.bulk.hid = h]
    BY <1>6 DEF Tree!ConfirmBulkDelete, Tree!View1
  <2>2. \A i : <<i, FALSE>> \notin h
    <3> SUFFICES ASSUME ~(ui.view.searched \/ srv.other > 0) PROVE h = {}
      OBVIOUS
    <3>. QED
      BY <2>1 DEF ListInv, Shown, TreeFields
  <2> HIDE DEF h
  <2>3. ui' = [ui EXCEPT !.bulk = b]
    <3>1. Tree!StartBulk("delete", Tree!Root) = [ui EXCEPT !.bulk = c]
      BY DEF Tree!StartBulk
    <3> HIDE DEF c
    <3>. QED
      BY <1>1, <2>1, <3>1 DEF BrowserFields
  <2>4. {"op", "to", "won", "hid"} \subseteq DOMAIN b /\ b.op = "delete" /\ b.hid = h
    OBVIOUS
  <2> HIDE DEF b
  <2>5. ui' = [ui EXCEPT !.bulk = b, !.drag = ui.drag] /\ ui.drag \in SUBSET Tree!Items
    BY <1>1, <2>3 DEF BrowserFields
  <2>6. ListInv'
    BY <2>1, <2>2, <2>4, <2>5, ManySent
  <2>. QED
    BY <1>1, <2>1, <2>6
<1>7. CASE Tree!ConfirmBulkMove \/ Tree!Drop
  <2>1. CASE \E t \in Folders, is \in SUBSET Tree!Items, d \in SUBSET Tree!Items :
                srv' = Tree!Send("move", is, t, "bulk") /\ ui' = [Tree!StartBulk("move", t) EXCEPT !.drag = d]
    <3>1. PICK t \in Folders, is \in SUBSET Tree!Items, d \in SUBSET Tree!Items :
                srv' = Tree!Send("move", is, t, "bulk") /\ ui' = [Tree!StartBulk("move", t) EXCEPT !.drag = d]
      BY <2>1
    <3> DEFINE b == [op |-> "move", to |-> t, won |-> FALSE, hid |-> {}]
    <3>2. {"op", "to", "won", "hid"} \subseteq DOMAIN b /\ b.op = "move" /\ b.to = t /\ b.hid = {}
      OBVIOUS
    <3>3. Tree!StartBulk("move", t) = [ui EXCEPT !.bulk = b]
      BY DEF Tree!StartBulk
    <3> HIDE DEF b
    <3>4. ui' = [ui EXCEPT !.bulk = b, !.drag = d]
      BY <1>1, <3>1, <3>3 DEF BrowserFields
    <3>5. ListInv'
      BY <3>1, <3>2, <3>4, ManySent
    <3>. QED
      BY <3>1, <3>5
  <2>2. CASE \E t \in Folders, is \in SUBSET Tree!Items :
                srv' = Tree!Send("move", is, t, "one") /\ ui' = [ui EXCEPT !.drag = {}]
    <3>1. PICK t \in Folders, is \in SUBSET Tree!Items :
                srv' = Tree!Send("move", is, t, "one") /\ ui' = [ui EXCEPT !.drag = {}]
      BY <2>2
    <3>2. /\ BrowserFields(ui') /\ ui'.client = ui.client /\ ui'.bulk = ui.bulk /\ ui'.view = ui.view
      BY <1>1, <3>1 DEF BrowserFields
    <3>3. ListInv'
      BY <3>1, <3>2, OneSent
    <3>. QED
      BY <3>1, <3>3
  <2>3. CASE Tree!ConfirmBulkMove
    <3>1. PICK t \in Folders : srv' = Tree!Send("move", ui.view.sel, t, "bulk") /\ ui' = Tree!StartBulk("move", t)
      BY <2>3 DEF Tree!ConfirmBulkMove, Tree!View1
    <3>2. ui.drag \in SUBSET Tree!Items /\ ui' = [Tree!StartBulk("move", t) EXCEPT !.drag = ui.drag]
      BY <1>1, <3>1 DEF Tree!StartBulk, BrowserFields
    <3>. QED
      BY <1>1, <2>1, <3>1, <3>2
  <2>4. CASE Tree!Drop
    <3>1. PICK t \in Folders :
            \/ srv' = Tree!Send("move", ui.drag \ {t}, t, "one") /\ ui' = [ui EXCEPT !.drag = {}]
            \/ srv' = Tree!Send("move", ui.drag \ {t}, t, "bulk")
               /\ ui' = [Tree!StartBulk("move", t) EXCEPT !.drag = {}]
      <4>1. Tree!DropTargets \subseteq Folders
        BY DEF Tree!DropTargets
      <4>. QED
        BY <2>4, <4>1 DEF Tree!Drop
    <3>2. ui.drag \ {t} \in SUBSET Tree!Items /\ {} \in SUBSET Tree!Items
      BY <1>1 DEF BrowserFields
    <3>. QED
      BY <2>1, <2>2, <3>1, <3>2
  <2>. QED
    BY <1>7, <2>3, <2>4
<1>. QED
  BY <1>2, <1>3, <1>4, <1>5, <1>6, <1>7

(* An answer to a single move opens the folder, one to a bulk is counted.  *)
LEMMA ToldKeeps ==
  ASSUME TreeFields, ListInv, NEW q \in srv.req, NEW ok \in BOOLEAN, ui' = Tree!Told(q, ok),
         srv'.req \subseteq srv.req, srv'.other = srv.other,
         (q.by = "one" /\ q.op = "move" /\ (ok => q.to = ui.view.cwd)) => Tree!Listed \subseteq Tree!Listed'
  PROVE  ListInv'
<1>1. BrowserFields(ui) /\ Requested(ui)
  BY DEF ListInv
<1>2. CASE q.by = "bulk"
  <2> DEFINE b == [ui.bulk EXCEPT !.won = ui.bulk.won \/ ok]
  <2>1. ui' = [ui EXCEPT !.bulk = b]
    BY <1>1, <1>2 DEF Tree!Told, BrowserFields
  <2>2. /\ b.op = ui.bulk.op /\ b.to = ui.bulk.to /\ b.hid = ui.bulk.hid /\ DOMAIN b = DOMAIN ui.bulk
    BY <1>1 DEF BrowserFields
  <2> HIDE DEF b
  <2>3. ui.bulk # Tree!NoBulk
    BY <1>1, <1>2 DEF Requested
  <2>4. b # Tree!NoBulk /\ (b.op = "delete" \/ (b.op = "move" /\ b.to \in Folders))
    <3>1. ui.bulk.op = "delete" \/ (ui.bulk.op = "move" /\ ui.bulk.to \in Folders)
      BY <1>1, <2>3 DEF BrowserFields
    <3>2. Tree!NoBulk.op = "none"
      BY DEF Tree!NoBulk
    <3>. QED
      BY <2>2, <3>1, <3>2
  <2>5. /\ BrowserFields(ui') /\ ui'.client = ui.client /\ ui'.bulk = b /\ ui'.view = ui.view
    BY <1>1, <2>1, <2>2, <2>4 DEF BrowserFields
  <2>6. BrowserFields(ui)' /\ Unselected(ui)' /\ Tree!SelectionIsListed'
    BY <2>2, <2>5 DEF ListInv, BrowserFields, Unselected, Tree!SelectionIsListed
  <2>7. Requested(ui)' /\ Shown(ui)'
    BY <2>4, <2>5 DEF ListInv, Requested, Shown
  <2>. QED
    BY <2>6, <2>7 DEF ListInv
<1>3. CASE q.by = "one" /\ q.op = "move" /\ ok /\ q.to # ui.view.cwd
  <2>1. q.to \in Place /\ ui' = Tree!Go(ui, q.to)
    BY <1>3 DEF TreeFields, Place, Tree!Told
  <2>2. BrowserFields(ui') /\ ui'.bulk = ui.bulk /\ ui'.view.sel = {}
    BY <1>1, <1>3, <2>1, GoLands
  <2>. QED
    BY <2>2, NothingSelected
<1>4. CASE ~(q.by = "bulk") /\ ~(q.by = "one" /\ q.op = "move" /\ ok /\ q.to # ui.view.cwd)
  <2>1. ui' = ui
    BY <1>4 DEF Tree!Told, Tree!Go
  <2>2. BrowserFields(ui)' /\ Unselected(ui)' /\ Requested(ui)' /\ Tree!SelectionIsListed'
    BY <2>1 DEF ListInv, BrowserFields, Unselected, Requested, Tree!SelectionIsListed
  <2>3. Shown(ui)'
    <3> SUFFICES ASSUME ui.bulk = Tree!NoBulk, ~ui.view.searched, srv.other = 0
                 PROVE  ui.view.sel \subseteq Tree!Listed'
      BY <2>1 DEF Shown
    <3>1. ui.view.sel \subseteq Tree!Listed
      BY DEF ListInv, Shown
    <3>2. ui.view.sel = {} \/ (q.by = "one" /\ q.op = "move")
      BY <1>1, <1>4 DEF Requested, TreeFields
    <3>. QED
      BY <1>4, <3>1, <3>2
  <2>. QED
    BY <2>2, <2>3 DEF ListInv
<1>. QED
  BY <1>2, <1>3, <1>4

(* What is put into the folder of the view is listed there with the rest.  *)
LEMMA PuttingLists ==
  ASSUME NamesApart, TreeFields, ListInv, NEW i \in Tree!Items,
         srv'.in = [srv.in EXCEPT ![i] = ui.view.cwd], Tree!There(ui.view.cwd), ui'.view = ui.view
  PROVE  Tree!Listed \subseteq Tree!Listed'
<1>1. PICK c \in Place : c = ui.view.cwd
  BY DEF ListInv, BrowserFields
<1>2. srv'.in[i] = c /\ \A j \in Tree!Items \ {i} : srv'.in[j] = srv.in[j]
  BY <1>1 DEF TreeFields
<1>3. c \notin {"new", "gone"}
  BY DEF NamesApart, Place
<1>4. \A f \in Tree!Items \cup {"root"} : Tree!There(f) => Tree!There(f)'
  BY <1>2, <1>3 DEF Tree!There, Tree!Root, Tree!Gone
<1>5. Tree!Children(c) \subseteq Tree!Children(c)'
  BY <1>2 DEF Tree!Children, Tree!Items
<1>6. Tree!There(c)'
  BY <1>1, <1>4 DEF Place, Tree!Items
<1>7. ui.view.search \in Tree!Items \cup {""} /\ ui'.view.search = ui.view.search /\ ui'.view.cwd = c
  BY <1>1 DEF ListInv, BrowserFields
<1>8. CASE ui.view.search = ""
  BY <1>1, <1>5, <1>6, <1>7, <1>8 DEF Tree!Listed, Tree!View1
<1>9. CASE ui.view.search # ""
  BY <1>4, <1>7, <1>9 DEF Tree!Listed, Tree!View1
<1>. QED
  BY <1>8, <1>9

LEMMA CreatingKeeps ==
  ASSUME NamesApart, TreeFields, ListInv, Tree!CreateFolder \/ Tree!CreateInApp
  PROVE  /\ ListInv'
         /\ \/ UNCHANGED srv
            \/ \E f \in Folders, c \in Folders \cup {"root"} :
                 srv.in[f] = "new" /\ Tree!There(c) /\ srv' = Tree!Put(f, c)
<1>1. PICK c \in Place : c = ui.view.cwd
  BY DEF ListInv, BrowserFields
<1>2. CASE Tree!CreateFolder /\ ~Tree!There(c)
  <2>1. UNCHANGED <<ui, srv>>
    BY <1>1, <1>2 DEF Tree!CreateFolder, Tree!View1
  <2>. QED
    BY <2>1 DEF ListInv, BrowserFields, Unselected, Requested, Shown, Tree!SelectionIsListed, Tree!Listed,
                Tree!View1, Tree!There, Tree!Children
<1>3. CASE Tree!CreateInApp \/ (Tree!CreateFolder /\ Tree!There(c))
  <2>1. PICK f \in Folders : srv.in[f] = "new" /\ Tree!There(c) /\ srv' = Tree!Put(f, c)
    BY <1>1, <1>3 DEF Tree!CreateFolder, Tree!CreateInApp, Tree!New, Tree!View1
  <2>2. /\ srv'.in = [srv.in EXCEPT ![f] = c] /\ srv'.req = srv.req /\ srv'.other = srv.other
    BY <2>1 DEF Tree!Put, TreeFields
  <2>3. CASE Tree!CreateInApp
    <3>1. ui.client = "app" /\ Tree!Load(c)
      BY <1>1, <2>3 DEF Tree!CreateInApp, Tree!App, Tree!View1
    <3>2. ListInv'
      BY <2>2, <3>1, AppKeeps
    <3>. QED
      BY <2>1, <3>2 DEF Place
  <2>4. CASE Tree!CreateFolder
    <3>1. ui' = ui
      BY <2>4 DEF Tree!CreateFolder
    <3>2. Tree!Listed \subseteq Tree!Listed'
      BY <1>1, <2>1, <2>2, <3>1, PuttingLists DEF Tree!Items
    <3>3. ListInv'
      BY <2>2, <3>1, <3>2 DEF ListInv, BrowserFields, Unselected, Requested, Shown, Tree!SelectionIsListed
    <3>. QED
      BY <2>1, <3>3 DEF Place
  <2>. QED
    BY <1>3, <2>3, <2>4
<1>. QED
  BY <1>2, <1>3

(* The server's steps.                                                     *)
LEMMA ServingKeeps ==
  ASSUME NamesApart, TreeFields, ListInv, NEW q \in srv.req,
         Tree!Check(q) \/ Tree!Move(q) \/ Tree!Delete(q)
  PROVE  ListInv'
<1>1. q.op = "move" \/ q.op = "delete"
  BY DEF TreeFields
<1>2. CASE Tree!Answer(q, FALSE, srv)
  <2>1. /\ srv'.req = srv.req \ {q} /\ srv'.other = srv.other /\ srv'.in = srv.in
    BY <1>2 DEF Tree!Answer, TreeFields
  <2>2. q.by = "bulk" \/ ui' = ui
    BY <1>2 DEF Tree!Answer, Tree!Told
  <2>3. ui' = ui => Tree!Listed' = Tree!Listed
    BY <2>1 DEF Tree!Listed, Tree!View1, Tree!There, Tree!Children
  <2>. QED
    BY <1>2, <2>1, <2>2, <2>3, ToldKeeps DEF Tree!Answer
<1>3. CASE q.op = "delete" /\ \E ok \in BOOLEAN : \E is : Tree!Answer(q, ok, Tree!Remove(is))
  <2> PICK ok \in BOOLEAN : \E is : Tree!Answer(q, ok, Tree!Remove(is))
    BY <1>3
  <2>1. PICK is : Tree!Answer(q, ok, Tree!Remove(is))
    OBVIOUS
  <2>2. /\ srv'.req = srv.req \ {q} /\ srv'.other = srv.other
    BY <2>1 DEF Tree!Answer, Tree!Remove, TreeFields
  <2>. QED
    BY <1>3, <2>1, <2>2, ToldKeeps DEF Tree!Answer
<1>4. CASE q.op = "move" /\ Tree!There(q.to) /\ Tree!Answer(q, TRUE, Tree!Put(q.i, q.to))
  <2>1. /\ srv'.req = srv.req \ {q} /\ srv'.other = srv.other /\ srv'.in = [srv.in EXCEPT ![q.i] = q.to]
    BY <1>4 DEF Tree!Answer, Tree!Put, TreeFields
  <2>2. q.i \in Tree!Items
    BY DEF TreeFields
  <2>3. (q.by = "one" /\ q.to = ui.view.cwd) => ui' = ui
    BY <1>4 DEF Tree!Answer, Tree!Told, Tree!Go
  <2>4. (q.by = "one" /\ q.to = ui.view.cwd) => Tree!Listed \subseteq Tree!Listed'
    BY <1>4, <2>1, <2>2, <2>3, PuttingLists
  <2>. QED
    BY <1>4, <2>1, <2>4, ToldKeeps DEF Tree!Answer
<1>5. CASE \E t \in BOOLEAN : srv' = [srv EXCEPT !.req = (srv.req \ {q}) \cup {[q EXCEPT !.checked = TRUE]}, !.twice = t]
           /\ ui' = ui
  <2> DEFINE r == [q EXCEPT !.checked = TRUE]
  <2>1. /\ srv'.in = srv.in /\ srv'.other = srv.other /\ srv'.req = (srv.req \ {q}) \cup {r} /\ ui' = ui
    BY <1>5 DEF TreeFields
  <2>2. r.op = q.op /\ r.by = q.by
    BY DEF TreeFields
  <2> HIDE DEF r
  <2>3. Tree!Listed' = Tree!Listed
    BY <2>1 DEF Tree!Listed, Tree!View1, Tree!There, Tree!Children
  <2>4. Requested(ui)'
    BY <2>1, <2>2 DEF ListInv, Requested
  <2>. QED
    BY <2>1, <2>3, <2>4 DEF ListInv, BrowserFields, Unselected, Shown, Tree!SelectionIsListed
<1>6. CASE Tree!Check(q)
  <2>1. \/ Tree!Answer(q, FALSE, srv)
        \/ /\ srv' = [srv EXCEPT !.req = (srv.req \ {q}) \cup {[q EXCEPT !.checked = TRUE]},
                                 !.twice = srv.twice \/ (q.op = "move" /\ Tree!Checked("move", q.i))]
           /\ ui' = ui
    BY <1>6 DEF Tree!Check
  <2>2. PICK t : t = (srv.twice \/ (q.op = "move" /\ Tree!Checked("move", q.i)))
    OBVIOUS
  <2>3. t \in BOOLEAN
    BY <2>2
  <2>. QED
    BY <1>2, <1>5, <2>1, <2>2, <2>3
<1>7. CASE Tree!Move(q)
  BY <1>2, <1>4, <1>7 DEF Tree!Move, Tree!Movable
<1>8. CASE Tree!Delete(q)
  <2>1. q.op = "delete" /\ (\/ Tree!Answer(q, TRUE, Tree!Remove(Tree!Subtree(q.i)))
                            \/ Tree!Answer(q, q.i \in Folders, srv))
    BY <1>8 DEF Tree!Delete
  <2>2. CASE Tree!Answer(q, TRUE, Tree!Remove(Tree!Subtree(q.i)))
    BY <1>3, <2>1, <2>2
  <2>3. CASE Tree!Answer(q, q.i \in Folders, srv)
    <3>1. /\ srv'.req = srv.req \ {q} /\ srv'.other = srv.other
      BY <2>3 DEF Tree!Answer, TreeFields
    <3>2. PICK ok : ok = (q.i \in Folders)
      OBVIOUS
    <3>3. ok \in BOOLEAN /\ Tree!Answer(q, ok, srv)
      BY <2>3, <3>2
    <3>. QED
      BY <2>1, <3>1, <3>3, ToldKeeps DEF Tree!Answer
  <2>. QED
    BY <2>1, <2>2, <2>3
<1>. QED
  BY <1>6, <1>7, <1>8

LEMMA OthersListed ==
  ASSUME TreeFields, ListInv, Tree!Other
  PROVE  /\ ListInv'
         /\ \E op \in {"move", "delete"}, is \in SUBSET Tree!Items : \E to, n :
              n \in Nat /\ srv' = [Tree!Send(op, is, to, "other") EXCEPT !.other = n] /\ (op = "move" => to \in Folders)
<1> PICK i \in Tree!Items, op \in {"move", "delete"} : \E to :
        /\ srv' = [Tree!Send(op, {i}, to, "other") EXCEPT !.other = @ + 1]
        /\ op = "move" => to \in Folders
  BY DEF Tree!Other
<1>1. PICK to : /\ srv' = [Tree!Send(op, {i}, to, "other") EXCEPT !.other = @ + 1]
                /\ op = "move" => to \in Folders
  OBVIOUS
<1>2. PICK s : s = Tree!Send(op, {i}, to, "other")
  OBVIOUS
<1>3. /\ DOMAIN s = DOMAIN srv /\ s.in = srv.in /\ s.other = srv.other
      /\ \A q \in s.req : q \in srv.req \/ (q.op = op /\ q.by = "other")
  BY <1>2 DEF Tree!Send, Tree!Request, TreeFields
<1>4. srv' = [s EXCEPT !.other = srv.other + 1]
  BY <1>1, <1>2, <1>3
<1>5. /\ srv'.in = srv.in /\ srv'.other = srv.other + 1
      /\ \A q \in srv'.req : q \in srv.req \/ (q.op = op /\ q.by = "other")
  BY <1>3, <1>4 DEF TreeFields
<1>6. ui' = ui /\ srv.other + 1 \in Nat /\ srv'.other > 0 /\ srv'.other # 0
  BY <1>5 DEF Tree!Other, TreeFields
<1>7. Requested(ui)' /\ Shown(ui)'
  BY <1>5, <1>6 DEF ListInv, Requested, Shown
<1>8. ListInv'
  BY <1>6, <1>7 DEF ListInv, BrowserFields, Unselected, Tree!SelectionIsListed
<1>9. srv' = [Tree!Send(op, {i}, to, "other") EXCEPT !.other = srv.other + 1]
  BY <1>2, <1>4
<1>10. PICK is \in SUBSET Tree!Items : is = {i}
  OBVIOUS
<1>11. PICK n \in Nat : n = srv.other + 1
  BY <1>6
<1>12. srv' = [Tree!Send(op, is, to, "other") EXCEPT !.other = n]
  BY <1>9, <1>10, <1>11
<1>13. op = "move" => to \in Folders
  BY <1>1
<1>. QED
  BY <1>8, <1>12, <1>13, Zenon

(* The tree and the list together.                                         *)
BrowserInv == NamesApart /\ TreeInv /\ ListInv

LEMMA BrowserStep ==
  ASSUME BrowserInv, [Tree!Next]_Tree!vars
  PROVE  BrowserInv'
<1>1. NamesApart /\ TreeInv /\ TreeFields /\ ListInv
  BY DEF BrowserInv, TreeInv
<1>2. ListInv' /\ (TreeInv' \/ srv' = srv)
  <2>1. CASE \/ Tree!OpenFolder \/ Tree!GoUp \/ Tree!HoverOpen \/ Tree!Search \/ Tree!ToggleMode \/ Tree!Select
    BY <1>1, <2>1, BrowsingKeeps DEF Tree!OpenFolder, Tree!GoUp, Tree!HoverOpen, Tree!Search, Tree!ToggleMode, Tree!Select
  <2>2. CASE Tree!CreateFolder \/ Tree!CreateInApp
    <3>1. ListInv' /\ (srv' = srv \/ \E f \in Folders, c \in Folders \cup {"root"} :
                         srv.in[f] = "new" /\ Tree!There(c) /\ srv' = Tree!Put(f, c))
      BY <1>1, <2>2, CreatingKeeps
    <3>. QED
      BY <1>1, <3>1, PutsKeep
  <2>3. CASE \/ (Tree!AskDelete /\ ~ui.skip) \/ (Tree!AskBulkDelete /\ ~ui.skip) \/ Tree!AskBulkMove
             \/ Tree!CancelDialog \/ Tree!StartDrag \/ Tree!EndDrag \/ Tree!LoadAnswered
    <3>1. ListInv'
      BY <1>1, <2>3, AskingKeeps
    <3>2. srv' = srv
      BY <2>3 DEF Tree!AskDelete, Tree!AskBulkDelete, Tree!AskBulkMove, Tree!CancelDialog, Tree!StartDrag,
                  Tree!EndDrag, Tree!LoadAnswered
    <3>. QED
      BY <3>1, <3>2
  <2>4. CASE \/ (Tree!AskDelete /\ ui.skip) \/ Tree!ConfirmDelete \/ Tree!DeleteInApp
             \/ (Tree!AskBulkDelete /\ ui.skip) \/ Tree!ConfirmBulkDelete \/ Tree!ConfirmBulkMove \/ Tree!Drop
    <3>1. /\ ListInv'
          /\ \E op \in {"move", "delete"}, is \in SUBSET Tree!Items : \E to, by :
               srv' = Tree!Send(op, is, to, by) /\ (op = "move" => to \in Folders)
      BY <1>1, <2>4, SendingKeeps
    <3> PICK op \in {"move", "delete"}, is \in SUBSET Tree!Items : \E to, by :
               srv' = Tree!Send(op, is, to, by) /\ (op = "move" => to \in Folders)
      BY <3>1
    <3>2. PICK to, by : srv' = Tree!Send(op, is, to, by) /\ (op = "move" => to \in Folders)
      OBVIOUS
    <3>3. srv' = [Tree!Send(op, is, to, by) EXCEPT !.other = srv.other] /\ srv.other \in Nat
      BY <1>1, <3>2 DEF Tree!Send, TreeFields
    <3>. QED
      BY <1>1, <3>1, <3>2, <3>3, SendsKeep
  <2>5. CASE Tree!EndBulk
    BY <1>1, <2>5, BulkEnds DEF Tree!EndBulk
  <2>6. CASE Tree!EnterFolder \/ Tree!NavigateToCrumb
    <3>1. srv' = srv /\ ui.client = "app" /\ \E f \in Place : Tree!Load(f)
      BY <1>1, <2>6, ListedItems DEF Tree!EnterFolder, Tree!NavigateToCrumb, Tree!App, Place, Tree!Root
    <3>. QED
      BY <1>1, <3>1, AppKeeps
  <2>7. CASE Tree!Other
    <3>1. /\ ListInv'
          /\ \E op \in {"move", "delete"}, is \in SUBSET Tree!Items : \E to, n :
              n \in Nat /\ srv' = [Tree!Send(op, is, to, "other") EXCEPT !.other = n] /\ (op = "move" => to \in Folders)
      BY <1>1, <2>7, OthersListed
    <3>. QED
      BY <1>1, <3>1, SendsKeep
  <2>8. CASE \E q \in srv.req : Tree!Check(q) \/ Tree!Move(q) \/ Tree!Delete(q)
    BY <1>1, <2>8, ServingKeeps, ChecksKeep, MovesKeep, DeletesKeep
  <2>9. CASE UNCHANGED Tree!vars
    BY <1>1, <2>9 DEF Tree!vars, ListInv, BrowserFields, Unselected, Requested, Shown, Tree!SelectionIsListed,
                      Tree!Listed, Tree!View1, Tree!There, Tree!Children
  <2>. QED
    BY <2>1, <2>2, <2>3, <2>4, <2>5, <2>6, <2>7, <2>8, <2>9
       DEF Tree!Next, Tree!Browse, Tree!Change, Tree!InApp, Tree!Server
<1>3. srv' = srv => TreeInv'
  BY <1>1 DEF TreeInv, TreeFields, Standing, DeletesAsked, CheckedHolds, Moving, Tree!LostOnlyByRace,
              Tree!TreeUnlessRaced, Tree!There, Tree!Cycle, Tree!Subtree, Tree!Closed, Tree!Children
<1>. QED
  BY <1>1, <1>2, <1>3 DEF BrowserInv, NamesApart

LEMMA BrowserInitially ==
  ASSUME Tree!Init
  PROVE  BrowserInv
<1>1. NamesApart
  BY NamesAssumption DEF NamesApart
<1>2. PICK c \in {"page", "app"}, skip \in BOOLEAN, new \in SUBSET Folders :
  /\ ui = [client |-> c, skip |-> skip /\ c = "page", view |-> Tree!View("root"), drag |-> {}, bulk |-> Tree!NoBulk,
           shown |-> "root", loads |-> {}, busy |-> FALSE]
  /\ srv = [in |-> [i \in Tree!Items |-> IF i \in new THEN "new" ELSE "root"], req |-> {}, asked |-> {},
            other |-> 0, raced |-> FALSE, twice |-> FALSE]
  BY DEF Tree!Init, Tree!Root
<1>3. /\ srv.in = [i \in Tree!Items |-> IF i \in new THEN "new" ELSE "root"] /\ srv.req = {}
      /\ srv.other = 0 /\ {"in", "req", "asked", "other", "raced", "twice"} \subseteq DOMAIN srv
  BY <1>2
<1>4. \A i \in Tree!Items : srv.in[i] \in {"new", "root"} /\ srv.in[i] \notin Tree!Items
  BY <1>1, <1>3 DEF NamesApart, Tree!Items
<1>5. TreeFields /\ Standing /\ DeletesAsked /\ CheckedHolds
  BY <1>1, <1>3, <1>4 DEF TreeFields, Standing, DeletesAsked, CheckedHolds, Tree!Items
<1>6. Tree!LostOnlyByRace
  BY <1>4 DEF Tree!LostOnlyByRace, Tree!Items
<1>7. Tree!TreeUnlessRaced
  <2> SUFFICES ASSUME NEW f \in Folders PROVE srv.in[f] \notin Tree!Subtree(f)
    BY DEF Tree!TreeUnlessRaced, Tree!Cycle
  <2>. QED
    BY <1>4, SubtreeLeast DEF Tree!Items
<1>8. /\ ui.view = Tree!View("root") /\ ui.bulk = Tree!NoBulk /\ ui.drag = {}
      /\ {"client", "skip", "view", "drag", "bulk", "shown", "loads", "busy"} \subseteq DOMAIN ui
  BY <1>2
<1>9. /\ ui.view.sel = {} /\ ui.view.cwd = "root" /\ ui.view.search = "" /\ ui.view.named = {}
      /\ {"cwd", "search", "mode", "sel", "searched", "dialog", "named"} \subseteq DOMAIN ui.view
  <2> DEFINE v == Tree!View("root")
  <2>1. /\ v.cwd = "root" /\ v.sel = {} /\ v.search = "" /\ v.named = {}
        /\ {"cwd", "search", "mode", "sel", "searched", "dialog", "named"} \subseteq DOMAIN v
    BY DEF Tree!View
  <2> HIDE DEF v
  <2>2. ui.view = v
    BY <1>8 DEF v
  <2>. QED
    BY <2>1, <2>2
<1>10. {"op", "to", "won", "hid"} \subseteq DOMAIN Tree!NoBulk /\ Tree!NoBulk.hid = {}
  BY DEF Tree!NoBulk
<1>11. ListInv
  BY <1>3, <1>8, <1>9, <1>10
     DEF ListInv, BrowserFields, Unselected, Requested, Shown, Tree!SelectionIsListed, Place
<1>. QED
  BY <1>1, <1>5, <1>6, <1>7, <1>11 DEF BrowserInv, TreeInv

----------------------------------------------------------------------------
(* The pages side by side.                                                 *)

(* Each page has its own.                                                  *)
ContentInv ==
  /\ page = "chunks" => SessionInv
  /\ page = "people" => GroupsInv
  /\ page = "media" => GalleryInv
  /\ page = "backup" => RetrievalInv
  /\ page = "recognition" => JobInv
  /\ page = "upload" => UploadInv
  /\ page = "files" => BrowserInv

(* Each holds when its page is opened ...                                  *)
LEMMA ContentInitially == Init => ContentInv
BY ClientPagesAssumption, SessionInitially, GroupsInitially, GalleryInitially, RetrievalInitially,
   JobsInitially, UploadInitially, BrowserInitially
DEF Init, ContentInv, SessionBounds

(* ... and is kept while the page is shown, by whoever takes a step.       *)
LEMMA ContentStep == ContentInv /\ [Next]_vars => ContentInv'
<1> SUFFICES ASSUME ContentInv, [Next]_vars PROVE ContentInv'
  OBVIOUS
<1>1. page' = page
  BY DEF Next, vars
<1>2. ASSUME page = "chunks" PROVE SessionInv'
  <2>1. SessionInv /\ [Sessions!Next]_Sessions!vars
    BY <1>2 DEF ContentInv, Next, vars, Sessions!vars
  <2>. QED
    BY <2>1, SessionStep
<1>3. ASSUME page = "people" PROVE GroupsInv'
  <2>1. GroupsInv /\ [People!Next]_People!vars
    BY <1>3 DEF ContentInv, Next, vars, People!vars
  <2>. QED
    BY <2>1, GroupsStep
<1>4. ASSUME page = "media" PROVE GalleryInv'
  <2>1. GalleryInv /\ [Gallery!Next]_Gallery!vars
    BY <1>4 DEF ContentInv, Next, vars, Gallery!vars
  <2>. QED
    BY <2>1, GalleryStep
<1>5. ASSUME page = "backup" PROVE RetrievalInv'
  <2>1. RetrievalInv /\ [Backup!Next]_Backup!vars
    BY <1>5 DEF ContentInv, Next, vars, Backup!vars
  <2>. QED
    BY <2>1, RetrievalStep
<1>6. ASSUME page = "recognition" PROVE JobInv'
  <2>1. JobInv /\ [Recognition!Next]_Recognition!vars
    BY <1>6 DEF ContentInv, Next, vars, Recognition!vars
  <2>. QED
    BY <2>1, JobStep
<1>7. ASSUME page = "upload" PROVE UploadInv'
  <2>1. UploadInv /\ [Uploads!Next]_<<ui, srv>>
    BY <1>7 DEF ContentInv, Next, vars
  <2>. QED
    BY <2>1, UploadStep
<1>8. ASSUME page = "files" PROVE BrowserInv'
  <2>1. BrowserInv /\ [Tree!Next]_Tree!vars
    BY <1>8 DEF ContentInv, Next, vars, Tree!vars
  <2>. QED
    BY <2>1, BrowserStep
<1>. QED
  BY <1>1, <1>2, <1>3, <1>4, <1>5, <1>6, <1>7, <1>8 DEF ContentInv

(* Each of these pages keeps its inductive invariant.                      *)
THEOREM ContentInvariance == Spec => []ContentInv
<1>. QED
  BY ContentInitially, ContentStep, PTL DEF Spec

(* A completed upload is whole, encrypted under the user's key, and counted *)
(* once, and a completion fails for a reason: for any number of chunks,    *)
(* requests in any order, completions and faults, whenever the sweep comes. *)
THEOREM ChunksStayKept == Spec => []ChunksKept
<1>1. ContentInv => ChunksKept
  BY SessionPromises DEF ContentInv, ChunksKept
<1>. QED
  BY <1>1, ContentInvariance, PTL

(* However groups are merged, renamed and deleted, here and on another     *)
(* device, every face stays in a group that is there; and as long as no    *)
(* merge was raced by a change of its target's name, every name that was   *)
(* given and not taken back still belongs to a group.                      *)
THEOREM PeopleStayKept == Spec => []PeopleKept
<1>1. ContentInv => PeopleKept
  BY GroupsPromises DEF ContentInv, PeopleKept
<1>. QED
  BY <1>1, ContentInvariance, PTL

(* A deletion of a selection that tells of no failure has deleted every    *)
(* file of it: for any selection and size of a batch, whatever the user    *)
(* and other devices do while it runs.                                     *)
THEOREM DeletionsTold == Spec => AlwaysToldIsDone
<1>1. ContentInv /\ [Next]_vars => (page = "media" => Gallery!ToldIsDone)
  <2> SUFFICES ASSUME ContentInv, [Next]_vars, page = "media" PROVE Gallery!ToldIsDone
    OBVIOUS
  <2>1. GalleryInv /\ [Gallery!Next]_Gallery!vars
    BY DEF ContentInv, Next, vars, Gallery!vars
  <2>. QED
    BY <2>1, GalleryStep
<1>. QED
  BY <1>1, ContentInvariance, PTL DEF Spec, AlwaysToldIsDone

(* A retrieval that was cancelled opens no picker, and a listing that was  *)
(* asked to stop fetches no further page unless the next retrieval was     *)
(* begun meanwhile: for any number of mailboxes listed at a time.          *)
THEOREM RetrievalsStop == Spec => RetrievalStops
<1>1. ContentInv /\ [Next]_vars => (page = "backup" => Backup!StaysCancelled /\ Backup!StopIsKept)
  <2> SUFFICES ASSUME ContentInv, [Next]_vars, page = "backup"
               PROVE  Backup!StaysCancelled /\ Backup!StopIsKept
    OBVIOUS
  <2>1. RetrievalInv /\ [Backup!Next]_Backup!vars
    BY DEF ContentInv, Next, vars, Backup!vars
  <2>2. Backup!StopIsKept
    BY <2>1 DEF RetrievalInv, AskedIsHeard, Backup!StopIsKept, Backup!Run
  <2>. QED
    BY <2>1, <2>2, CancelledStays
<1>. QED
  BY <1>1, ContentInvariance, PTL DEF Spec, RetrievalStops

(* As long as no crash or failed write fell between two of them, crops,    *)
(* detections and the counter agree; unless two jobs ran at the same time, *)
(* a file is analysed once; and the faces of a finished job are in its     *)
(* collection's groups: for any number of detections and troubles.         *)
THEOREM CropsStayInStep == Spec => []CropsInStep
<1>1. ContentInv => CropsInStep
  BY JobPromises DEF ContentInv, CropsInStep
<1>. QED
  BY <1>1, ContentInvariance, PTL

(* A toast that says "Complete" speaks of a batch all of which is stored,  *)
(* unless it was started over a running one, and every file is where the   *)
(* modal said when the upload was confirmed: for any number of batches,    *)
(* attempts and faults, with retries, dismissals and pages left meanwhile. *)
THEOREM UploadsToldRight == Spec => []UploadsAsTold
<1>1. ContentInv => UploadsAsTold
  BY UploadPromises DEF ContentInv, UploadsAsTold
<1>. QED
  BY <1>1, ContentInvariance, PTL

(* Browsing loses nothing: however many folders and files there are and    *)
(* whatever other tabs do, a file nobody asked to delete is gone only when *)
(* it was moved into a folder between the check that it is empty and its   *)
(* deletion; the folders are a tree, unless two checked moves overlapped;  *)
(* and a bulk deletion deletes nothing its dialog does not list, unless    *)
(* the user searched while selecting or another tab moved it.              *)
THEOREM BrowsingLosesNothing == Spec => []NothingLostUnasked
<1>1. ContentInv => NothingLostUnasked
  BY DEF ContentInv, NothingLostUnasked, BrowserInv, TreeInv, ListInv
<1>. QED
  BY <1>1, ContentInvariance, PTL
=============================================================================
