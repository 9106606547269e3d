----------------------------- MODULE FileStore -----------------------------
(***************************************************************************)
(* The stored files of one user: the encrypted objects in the drives'      *)
(* MinIO buckets, the files and video_variants rows that reference them,   *)
(* the user's storage counter, and the request handlers that keep the      *)
(* three in step - FileService.Upload, createVariant, Delete and           *)
(* AdminDeleteAllFiles.                                                    *)
(*                                                                         *)
(* No transaction spans MinIO and Postgres, and the counter is updated in  *)
(* a statement of its own, so every handler is a sequence of steps that    *)
(* other handlers interleave with, any of which may fail (bounded by       *)
(* MaxFaults) and between any two of which the process may die (bounded    *)
(* by MaxCrashes).                                                         *)
(*                                                                         *)
(* Every file has size 1.  A file id is fresh, so each file is uploaded    *)
(* once.  Reconciliation and drive migration extend this module.           *)
(***************************************************************************)
EXTENDS Integers, FiniteSets

CONSTANTS
  Files,       \* file ids
  Videos,      \* files that get a transcoded variant
  Drives,      \* the user's allocated drives
  Primary,     \* the drive storageFor falls back to
  NoDrive,
  NoFile,
  Requests,    \* delete requests that may be in flight at once
  Scanner,     \* the reconciliation scan, which deletes through Delete too
  Purges,      \* whether an administrator may delete all files (a ban)
  SlowTranscodes, \* whether a transcode may outlast the grace period
  Quota,       \* storage_quota_bytes, in files
  MaxFaults,   \* bound: failing calls to MinIO or Postgres
  MaxCrashes   \* bound: process deaths

ASSUME FileStoreAssumption ==
  /\ IsFiniteSet(Files)
  /\ Videos \subseteq Files
  /\ Primary \in Drives /\ NoDrive \notin Drives
  /\ NoFile \notin Files
  /\ Scanner \notin Requests
  /\ Purges \in BOOLEAN /\ SlowTranscodes \in BOOLEAN
  /\ Quota \in Nat
  /\ MaxFaults \in Nat /\ MaxCrashes \in Nat

Kinds == {"main", "variant"}
Objects == Files \X Kinds            \* object keys
Main(f) == <<f, "main">>
Variant(f) == <<f, "variant">>
Deleters == Requests \cup {Scanner}

VARIABLES
  \* MinIO.
  bucket,      \* objects in each drive's bucket
  recentObj,   \* <<drive, object>> younger than the grace period
  \* Postgres.
  drive,       \* files.drive_id; NoDrive = no row
  variantRow,  \* files with a video_variants row
  recentRow,   \* objects whose row is younger than the grace period
  used,        \* users.storage_used_bytes
  quota,       \* users.storage_quota_bytes
  \* Handlers in flight.
  up,          \* Upload, then createVariant, of each file
  upTo,        \* the drive that handler resolved
  del,         \* Delete: its step, file and resolved drive
  purge,       \* AdminDeleteAllFiles: its step ...
  purgeTodo,   \* ... and the <<object, drive>> pairs still to remove
  faults, crashes,
  \* History.
  acked,       \* files whose upload was reported as successful
  dropped      \* files somebody asked to delete

storeVars == <<bucket, recentObj, drive, variantRow, recentRow, used, quota>>
handlerVars == <<up, upTo, del, purge, purgeTodo>>
allStoreVars == <<storeVars, handlerVars, faults, crashes, acked, dropped>>

Idle == [pc |-> "idle", file |-> NoFile, drive |-> NoDrive]

Fault == faults < MaxFaults /\ faults' = faults + 1

Stored(f) == \E d \in Drives : Main(f) \in bucket[d]
Readable(f) == drive[f] \in Drives /\ Main(f) \in bucket[drive[f]]
Rows == {f \in Files : drive[f] # NoDrive}

(* Forms these operators would take in a faulty program; the runs'         *)
(* properties are tested against them.                                     *)
SavedUntyped(f) == [drive EXCEPT ![f] = f]
SavedPrimary(f) == [drive EXCEPT ![f] = Primary]
WithoutPrimary(o, d) == [bucket EXCEPT ![Primary] = @ \ {o}]
RefundedNothing(n) == used

(* The quota check of Upload.                                              *)
Fits == used + 1 <= quota

(* PutObject and RemoveObject.  Removing a missing key succeeds.           *)
With(o, d) == [bucket EXCEPT ![d] = @ \cup {o}]
Without(o, d) == [bucket EXCEPT ![d] = @ \ {o}]

(* CreateFile, committed.                                                  *)
Saved(f) == [drive EXCEPT ![f] = upTo[f]]

(* AddStorageUsed.                                                         *)
Refunded(n) == used - n

StoreInit ==
  /\ bucket = [d \in Drives |-> {}]
  /\ recentObj = {}
  /\ drive = [f \in Files |-> NoDrive]
  /\ variantRow = {} /\ recentRow = {}
  /\ used = 0 /\ quota = Quota
  /\ up = [f \in Files |-> "new"]
  /\ upTo = [f \in Files |-> NoDrive]
  /\ del = [k \in Deleters |-> Idle]
  /\ purge = "idle" /\ purgeTodo = {}
  /\ faults = 0 /\ crashes = 0
  /\ acked = {} /\ dropped = {}

----------------------------------------------------------------------------
(* Upload.                                                                 *)

(* The quota check, and resolveUploadDrive: any allocated drive may win.   *)
UploadCheck(f) ==
  /\ up[f] = "new"
  /\ \/ /\ Fits
        /\ \E d \in Drives : upTo' = [upTo EXCEPT ![f] = d]
        /\ up' = [up EXCEPT ![f] = "checked"]
     \/ /\ ~Fits
        /\ up' = [up EXCEPT ![f] = "failed"]
        /\ UNCHANGED upTo
  /\ UNCHANGED <<storeVars, del, purge, purgeTodo, faults, crashes, acked, dropped>>

(* PutObject.  After an error the object may be there or not, and nobody   *)
(* removes it.                                                             *)
UploadPut(f) ==
  /\ up[f] = "checked"
  /\ \/ /\ up' = [up EXCEPT ![f] = "stored"] /\ UNCHANGED faults
        /\ bucket' = With(Main(f), upTo[f])
        /\ recentObj' = recentObj \cup {<<upTo[f], Main(f)>>}
     \/ /\ up' = [up EXCEPT ![f] = "failed"] /\ Fault
        /\ \/ /\ bucket' = With(Main(f), upTo[f])
              /\ recentObj' = recentObj \cup {<<upTo[f], Main(f)>>}
           \/ UNCHANGED <<bucket, recentObj>>
  /\ UNCHANGED <<drive, variantRow, recentRow, used, quota, upTo, del, purge, purgeTodo,
                 crashes, acked, dropped>>

(* CreateFile and the commit.                                              *)
UploadSave(f) ==
  /\ up[f] = "stored"
  /\ drive' = Saved(f)
  /\ recentRow' = recentRow \cup {Main(f)}
  /\ up' = [up EXCEPT ![f] = "saved"]
  /\ UNCHANGED <<bucket, recentObj, variantRow, used, quota, upTo, del, purge, purgeTodo,
                 faults, crashes, acked, dropped>>

(* The name is taken, or the transaction fails; a commit may have happened *)
(* although it reported an error.  The object is removed, best effort.     *)
UploadUndo(f) ==
  /\ up[f] = "stored"
  /\ up' = [up EXCEPT ![f] = "failed"]
  /\ \/ UNCHANGED <<drive, recentRow, faults>> /\ bucket' = Without(Main(f), upTo[f])
     \/ /\ Fault
        /\ \/ /\ drive' = Saved(f) /\ recentRow' = recentRow \cup {Main(f)}
              /\ bucket' = Without(Main(f), upTo[f])
           \/ UNCHANGED <<drive, recentRow, bucket>>
  /\ UNCHANGED <<recentObj, variantRow, used, quota, upTo, del, purge, purgeTodo,
                 crashes, acked, dropped>>

(* AddStorageUsed.  An error is returned to the client, the file stays.    *)
UploadCount(f) ==
  /\ up[f] = "saved"
  /\ \/ /\ used' = used + 1 /\ UNCHANGED faults
        /\ acked' = acked \cup {f}
        /\ up' = [up EXCEPT ![f] = IF f \in Videos THEN "acked" ELSE "done"]
     \/ Fault /\ up' = [up EXCEPT ![f] = "failed"] /\ UNCHANGED <<used, acked>>
  /\ UNCHANGED <<bucket, recentObj, drive, variantRow, recentRow, quota, upTo, del, purge,
                 purgeTodo, crashes, dropped>>

----------------------------------------------------------------------------
(* createVariant, in the background.  Any failure leaves the row "failed". *)

(* CreateVideoVariant; the row references the files row.                   *)
VariantBegin(f) ==
  /\ up[f] = "acked"
  /\ \/ /\ f \in Rows
        /\ variantRow' = variantRow \cup {f}
        /\ recentRow' = recentRow \cup {Variant(f)}
        /\ up' = [up EXCEPT ![f] = "transcoding"]
        /\ UNCHANGED faults
     \/ /\ (f \notin Rows /\ UNCHANGED faults) \/ Fault
        /\ up' = [up EXCEPT ![f] = "done"]
        /\ UNCHANGED <<variantRow, recentRow>>
  /\ UNCHANGED <<bucket, recentObj, drive, used, quota, upTo, del, purge, purgeTodo,
                 crashes, acked, dropped>>

(* Download, transcode, PutObject to the drive resolved at the start.      *)
VariantPut(f) ==
  /\ up[f] = "transcoding"
  /\ \/ /\ up' = [up EXCEPT ![f] = "encoded"] /\ UNCHANGED faults
        /\ bucket' = With(Variant(f), upTo[f])
        /\ recentObj' = recentObj \cup {<<upTo[f], Variant(f)>>}
     \/ /\ (~Readable(f) /\ UNCHANGED faults) \/ Fault
        /\ up' = [up EXCEPT ![f] = "done"]
        /\ UNCHANGED <<bucket, recentObj>>
  /\ UNCHANGED <<drive, variantRow, recentRow, used, quota, upTo, del, purge, purgeTodo,
                 crashes, acked, dropped>>

(* MarkVideoVariantReady, which updates no row when there is none.         *)
VariantReady(f) ==
  /\ up[f] = "encoded"
  /\ \/ up' = [up EXCEPT ![f] = "ready"] /\ UNCHANGED <<bucket, faults>>
     \/ /\ Fault /\ up' = [up EXCEPT ![f] = "done"]
        /\ bucket' = Without(Variant(f), upTo[f])
  /\ UNCHANGED <<recentObj, drive, variantRow, recentRow, used, quota, upTo, del, purge,
                 purgeTodo, crashes, acked, dropped>>

----------------------------------------------------------------------------
(* Delete, by a request or by the scan.                                    *)

(* GetFileByID, and storageForFile: the row's drive, or the primary when   *)
(* the row's drive cannot be resolved.                                     *)
DeleteStart(k, f) ==
  /\ del[k].pc = "idle" /\ f \in Rows
  /\ \/ /\ del' = [del EXCEPT ![k] = [pc |-> "variant", file |-> f, drive |-> drive[f]]]
        /\ UNCHANGED faults
     \/ /\ Fault
        /\ del' = [del EXCEPT ![k] = [pc |-> "variant", file |-> f, drive |-> Primary]]
  /\ UNCHANGED <<storeVars, up, upTo, purge, purgeTodo, crashes, acked>>

UserDelete(k, f) ==
  /\ k \in Requests
  /\ DeleteStart(k, f)
  /\ dropped' = dropped \cup {f}

(* The variants listed for the file are removed, best effort.              *)
DeleteVariant(k) ==
  /\ del[k].pc = "variant"
  /\ del' = [del EXCEPT ![k].pc = "blob"]
  /\ bucket' = IF del[k].file \in variantRow
                 THEN Without(Variant(del[k].file), del[k].drive) ELSE bucket
  /\ UNCHANGED <<recentObj, drive, variantRow, recentRow, used, quota, up, upTo, purge,
                 purgeTodo, faults, crashes, acked, dropped>>

(* RemoveObject.  An error, after which the object may be gone, aborts.    *)
DeleteBlob(k) ==
  /\ del[k].pc = "blob"
  /\ \/ /\ bucket' = Without(Main(del[k].file), del[k].drive)
        /\ del' = [del EXCEPT ![k].pc = "row"]
        /\ UNCHANGED faults
     \/ /\ Fault /\ del' = [del EXCEPT ![k] = Idle]
        /\ bucket' \in {bucket, Without(Main(del[k].file), del[k].drive)}
  /\ UNCHANGED <<recentObj, drive, variantRow, recentRow, used, quota, up, upTo, purge,
                 purgeTodo, crashes, acked, dropped>>

(* DeleteFile and the commit; video_variants rows cascade.  The number of  *)
(* rows deleted is not looked at.  A failing commit may have happened.     *)
DeleteRow(k) ==
  /\ del[k].pc = "row"
  /\ \/ del' = [del EXCEPT ![k].pc = "refund"] /\ UNCHANGED faults
     \/ del' = [del EXCEPT ![k] = Idle] /\ Fault
  /\ \/ /\ drive' = [drive EXCEPT ![del[k].file] = NoDrive]
        /\ variantRow' = variantRow \ {del[k].file}
     \/ faults' # faults /\ UNCHANGED <<drive, variantRow>>
  /\ UNCHANGED <<bucket, recentObj, recentRow, used, quota, up, upTo, purge, purgeTodo,
                 crashes, acked, dropped>>

(* AddStorageUsed(-size).                                                  *)
DeleteRefund(k) ==
  /\ del[k].pc = "refund"
  /\ del' = [del EXCEPT ![k] = Idle]
  /\ \/ used' = Refunded(1) /\ UNCHANGED faults
     \/ Fault /\ UNCHANGED used
  /\ UNCHANGED <<bucket, recentObj, drive, variantRow, recentRow, quota, up, upTo, purge,
                 purgeTodo, crashes, acked, dropped>>

----------------------------------------------------------------------------
(* AdminDeleteAllFiles, at most once.                                      *)

(* GetAllUserFiles.                                                        *)
PurgeList ==
  /\ Purges /\ purge = "idle"
  /\ purge' = "blobs"
  /\ purgeTodo' = {<<f, k, drive[f]>> : f \in Rows, k \in Kinds}
  /\ dropped' = Files
  /\ UNCHANGED <<storeVars, up, upTo, del, faults, crashes, acked>>

(* Objects are removed file by file; errors are ignored.                   *)
PurgeBlob(t) ==
  /\ purge = "blobs" /\ t \in purgeTodo
  /\ purgeTodo' = purgeTodo \ {t}
  /\ \/ /\ t[2] = "main" \/ t[1] \in variantRow
        /\ bucket' = Without(<<t[1], t[2]>>, t[3]) /\ UNCHANGED faults
     \/ t[2] = "variant" /\ t[1] \notin variantRow /\ UNCHANGED <<bucket, faults>>
     \/ Fault /\ UNCHANGED bucket
  /\ UNCHANGED <<recentObj, drive, variantRow, recentRow, used, quota, up, upTo, del,
                 purge, crashes, acked, dropped>>

(* DeleteAllUserFileRows.                                                  *)
PurgeRows ==
  /\ purge = "blobs" /\ purgeTodo = {}
  /\ \/ /\ purge' = "reset" /\ UNCHANGED faults
        /\ drive' = [f \in Files |-> NoDrive] /\ variantRow' = {}
     \/ purge' = "over" /\ Fault /\ UNCHANGED <<drive, variantRow>>
  /\ UNCHANGED <<bucket, recentObj, recentRow, used, quota, up, upTo, del, purgeTodo,
                 crashes, acked, dropped>>

(* ResetUserStorage: counter and quota.                                    *)
PurgeReset ==
  /\ purge = "reset" /\ purge' = "over"
  /\ \/ used' = 0 /\ quota' = 0 /\ UNCHANGED faults
     \/ Fault /\ UNCHANGED <<used, quota>>
  /\ UNCHANGED <<bucket, recentObj, drive, variantRow, recentRow, up, upTo, del, purgeTodo,
                 crashes, acked, dropped>>

----------------------------------------------------------------------------
(* The process dies: every handler stops where it is.                      *)
HandlersDie ==
  /\ crashes < MaxCrashes
  /\ crashes' = crashes + 1
  /\ up' = [f \in Files |-> IF up[f] \in {"new", "ready"} THEN up[f] ELSE "done"]
  /\ del' = [k \in Deleters |-> Idle]
  /\ purge' = IF purge = "idle" THEN "idle" ELSE "over"
  /\ purgeTodo' = {}
  /\ UNCHANGED <<storeVars, upTo, faults, acked, dropped>>

(* The grace period passes for what a file has left in MinIO and Postgres. *)
(* It is "comfortably longer than any upload/delete can legitimately       *)
(* take"; the code says nothing of a transcode.                            *)
Age(f) ==
  /\ up[f] \notin {"checked", "stored", "saved"}
  /\ SlowTranscodes \/ up[f] \notin {"transcoding", "encoded"}
  /\ recentObj' = {p \in recentObj : p[2][1] # f}
  /\ recentRow' = {o \in recentRow : o[1] # f}
  /\ <<recentObj, recentRow>>' # <<recentObj, recentRow>>
  /\ UNCHANGED <<bucket, drive, variantRow, used, quota, handlerVars, faults, crashes,
                 acked, dropped>>

UploadStep(f) ==
  UploadCheck(f) \/ UploadPut(f) \/ UploadSave(f) \/ UploadUndo(f) \/ UploadCount(f)

VariantStep(f) == VariantBegin(f) \/ VariantPut(f) \/ VariantReady(f)

DeleteStep(k) == DeleteVariant(k) \/ DeleteBlob(k) \/ DeleteRow(k) \/ DeleteRefund(k)

PurgeStep == PurgeList \/ (\E t \in purgeTodo : PurgeBlob(t)) \/ PurgeRows \/ PurgeReset

HandlerStep ==
  \/ \E f \in Files :
       \/ UploadStep(f) \/ VariantStep(f)
       \/ \E k \in Requests : UserDelete(k, f)
  \/ \E k \in Deleters : DeleteStep(k)
  \/ PurgeStep

StoreNext == HandlerStep \/ HandlersDie \/ \E f \in Files : Age(f)

StoreSpec == StoreInit /\ [][StoreNext]_allStoreVars

----------------------------------------------------------------------------
(* Type invariant.                                                         *)
TypeOK ==
  /\ bucket \in [Drives -> SUBSET Objects]
  /\ recentObj \subseteq Drives \X Objects
  /\ drive \in [Files -> Drives \cup {NoDrive}]
  /\ variantRow \subseteq Files
  /\ recentRow \subseteq Objects
  /\ used \in Int
  /\ quota \in {0, Quota}
  /\ up \in [Files -> {"new", "checked", "stored", "saved", "acked", "transcoding",
                       "encoded", "ready", "done", "failed"}]
  /\ upTo \in [Files -> Drives \cup {NoDrive}]
  /\ del \in [Deleters -> [pc : {"idle", "variant", "blob", "row", "refund"},
                          file : Files \cup {NoFile}, drive : Drives \cup {NoDrive}]]
  /\ purge \in {"idle", "blobs", "reset", "over"}
  /\ purgeTodo \subseteq Files \X Kinds \X Drives
  /\ faults \in Nat /\ crashes \in Nat
  /\ acked \subseteq Files /\ dropped \subseteq Files

(* A file whose upload succeeded and that nobody asked to delete can be    *)
(* read, from the drive its row names, whatever other handlers, failures   *)
(* and crashes do.                                                         *)
Durable == \A f \in acked \ dropped : Readable(f)

(* Handlers, failures and crashes implement the promise of FileVault: seen *)
(* from what can be read, what was reported and what was asked for, every  *)
(* step is a file that arrives, is reported, asked away or gone for a      *)
(* reason, or nothing; and a file that is gone never comes back, whichever *)
(* uploads, deletes and purges were under way.                             *)
Unsaved == {f \in Files : up[f] \in {"new", "checked", "stored"}}
Kept == {f \in Files \ Unsaved : Readable(f)}
Vault == INSTANCE FileVault WITH pending <- Unsaved, kept <- Kept, told <- acked, asked <- dropped
ImplementsFileVault == Vault!VaultSpec

AtRest ==
  /\ \A f \in Files : up[f] \in {"new", "ready", "done", "failed"}
  /\ \A k \in Deleters : del[k].pc = "idle"
  /\ purge \in {"idle", "over"}

(* No failure, no crash, no purge.                                         *)
Undisturbed == faults = 0 /\ crashes = 0 /\ purge = "idle"

(* Without failures, MinIO and Postgres agree once the handlers are done:  *)
(* no orphan objects and no ghost rows, however uploads and deletes of the *)
(* same file overlapped.                                                   *)
InStepAtRest ==
  Undisturbed /\ AtRest => \A f \in Files : IF f \in Rows THEN Readable(f) ELSE ~Stored(f)

(* The number of files, give or take the handlers between a row and its    *)
(* counter update.                                                         *)
Due == Cardinality(Rows) - Cardinality({f \in Files : up[f] = "saved"})
         + Cardinality({k \in Deleters : del[k].pc = "refund"})

(* Without failures, the storage counter is never above what is due, and   *)
(* it is exact as long as no two deletes of one file can overlap: those    *)
(* refund it twice.                                                        *)
OneDeleteAtATime == \A j, k \in Requests : j = k
CounterExact == Undisturbed => used <= Due /\ (OneDeleteAtATime => used = Due)

----------------------------------------------------------------------------
(* What a comment says, and the code does not do (README, Disagreements).  *)

(* users: "storage_used_bytes is updated atomically on every upload and    *)
(* deletion."                                                              *)
CounterNonNegative == Undisturbed /\ AtRest => used >= 0

============================================================================
