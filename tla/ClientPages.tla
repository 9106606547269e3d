---------------------------- MODULE ClientPages ----------------------------
(***************************************************************************)
(* The page modules side by side.  A client shows one page at a time:      *)
(* `page` says which, `ui` is what that page and its windows hold, `srv`   *)
(* is the part of the server its requests reach, with the other devices,   *)
(* administrators and loops that reach it too.  No page's module touches   *)
(* another's state, so they are composed as alternatives, not as factors.  *)
(* "chunks" is the server's half of a large upload, for any client of it.  *)
(***************************************************************************)
EXTENDS Integers, FiniteSets

CONSTANTS
  Rows, Home, MaxRoom, MaxOrders, PurchaseFaults,  \* StoragePurchase
  MaxInvoices,                                     \* ExpansionRequest
  MaxSubs,                                         \* PaidOrders
  MaxBatches, MaxTries, UploadFaults,              \* WebUpload
  Chunks, MaxSends, MaxCompletes, SessionFaults,   \* UploadSessions
  Folders, Files, OtherTabs,                       \* FileBrowser
  Media, Concurrency, OtherDevices,                \* MediaBrowser
  MaxDets, MaxTrouble,                             \* RecognitionJobs
  Labels, MaxElsewhere,                            \* RecognitionGroups
  Room, MaxSlots, MaxFailed,                       \* Registration
  MailRuns,                                        \* BackupRetrieval
  Disks, Capacity, Grain, MaxMoves,                \* UserAdmin
  MaxRequests,                                     \* UserBans
  Plans, MaxDeposits,                              \* AccessRequest
  Guests, MaxInvites, MaxLinks, Jobs               \* Invitations

ASSUME ClientPagesAssumption ==
  /\ Home \in Rows /\ MaxSends \in Nat /\ Chunks # {}
  /\ Capacity \in Nat \ {0} /\ Grain \in Nat \ {0} /\ Room \in Nat /\ MaxSlots \in Nat

\* Folders and files have ids of their own; the root of an account has none, and
\* nobody is no address.
ASSUME NamesAssumption ==
  /\ Folders \cap Files = {} /\ {"", "root", "new", "gone"} \cap (Folders \cup Files) = {}
  /\ "nobody" \notin Guests

VARIABLES page, ui, srv
vars == <<page, ui, srv>>

Storage == INSTANCE StoragePurchase WITH MaxFaults <- PurchaseFaults
Expansion == INSTANCE ExpansionRequest
Orders == INSTANCE PaidOrders
Uploads == INSTANCE WebUpload WITH MaxFaults <- UploadFaults
Sessions == INSTANCE UploadSessions WITH MaxFaults <- SessionFaults
Tree == INSTANCE FileBrowser WITH MaxOther <- OtherTabs
Gallery == INSTANCE MediaBrowser WITH MaxOther <- OtherDevices
Recognition == INSTANCE RecognitionJobs
People == INSTANCE RecognitionGroups
Invite == INSTANCE Registration
Backup == INSTANCE BackupRetrieval
Users == INSTANCE UserAdmin
Bans == INSTANCE UserBans WITH MaxMoves <- MaxRequests
Access == INSTANCE AccessRequest
Invites == INSTANCE Invitations

Init ==
  \/ page = "storage" /\ Storage!Init
  \/ page = "expansion" /\ Expansion!Init
  \/ page = "orders" /\ Orders!Init
  \/ page = "upload" /\ Uploads!Init
  \/ page = "chunks" /\ Sessions!Init
  \/ page = "files" /\ Tree!Init
  \/ page = "media" /\ Gallery!Init
  \/ page = "recognition" /\ Recognition!Init
  \/ page = "people" /\ People!Init
  \/ page = "register" /\ Invite!Init
  \/ page = "backup" /\ Backup!Init
  \/ page = "users" /\ Users!Init
  \/ page = "bans" /\ Bans!Init
  \/ page = "access" /\ Access!Init
  \/ page = "invites" /\ Invites!Init

Next ==
  /\ UNCHANGED page
  /\ \/ page = "storage" /\ Storage!Next
     \/ page = "expansion" /\ Expansion!Next
     \/ page = "orders" /\ Orders!Next
     \/ page = "upload" /\ Uploads!Next
     \/ page = "chunks" /\ Sessions!Next
     \/ page = "files" /\ Tree!Next
     \/ page = "media" /\ Gallery!Next
     \/ page = "recognition" /\ Recognition!Next
     \/ page = "people" /\ People!Next
     \/ page = "register" /\ Invite!Next
     \/ page = "backup" /\ Backup!Next
     \/ page = "users" /\ Users!Next
     \/ page = "bans" /\ Bans!Next
     \/ page = "access" /\ Access!Next
     \/ page = "invites" /\ Invites!Next

Spec == Init /\ [][Next]_vars

----------------------------------------------------------------------------
(* What each page promises; the page's module says under which reservation. *)

\* Nobody pays for storage and goes without it, and nobody is shown a success
\* that the server knows nothing of.
PurchasesServed ==
  page = "storage" => Storage!PaidIsServed /\ Storage!SuccessIsServed

\* The capacity of a request is added once, and kept only by a request that was
\* provisioned, whoever provisions, cancels and expires it at the same time; whoever
\* was told that the balance is paid has a completed request.
ExpansionsHonoured == page = "expansion" => Expansion!CapacityBacked /\ Expansion!ReceivedIsPaid

\* Premium, charges and reverted capacity stay in step with subscriptions and
\* orders, in whatever order webhooks, renewals, cancellations and reverts come.
OrdersBalance ==
  page = "orders" => /\ Orders!NoFreePremium /\ Orders!ChargeAccounted
                     /\ Orders!TakenBackOncePerWay

\* A toast that says "Complete" speaks of a batch all of which is stored, and
\* first attempts and retries alike store a file where the modal said.
UploadsAsTold == page = "upload" => Uploads!CompleteIsStored /\ Uploads!StoredWhereShown

\* A file sent in chunks is stored whole, readable and counted when that is
\* acknowledged, and refused only for a reason, whatever else uses its session.
ChunksKept ==
  page = "chunks" => /\ Sessions!StoredIsWhole /\ Sessions!AcknowledgedIsStored
                     /\ Sessions!FailsForReason

\* Bulk actions delete what their dialog lists and nothing besides; folders
\* stay a tree, and files in folders that are there.
NothingLostUnasked ==
  page = "files" => /\ Tree!SelectionIsListed /\ Tree!LostOnlyByRace /\ Tree!TreeUnlessRaced

\* A run over a selection that tells of no failure did all of it.
AlwaysToldIsDone == [][page = "media" => Gallery!ToldIsDone]_vars

\* Detections, crops and the storage counter agree, a file is analysed once, and
\* a finished job's faces are in its collection's groups.
CropsInStep ==
  page = "recognition" => /\ Recognition!CropsAccounted /\ Recognition!OneAnalysis
                          /\ Recognition!IndexedWhenDone

\* Merging and renaming groups loses no face and no name.
PeopleKept == page = "people" => People!FacesStay /\ People!NamesKept

\* A drive is not promised beyond its room, and a slot makes one account for the
\* one visitor who holds it.
SlotsHonoured ==
  page = "register" => Invite!RoomKept /\ Invite!OneAccountPerSlot /\ Invite!HoldKept

\* A retrieval that was cancelled never opens a picker, and a listing that was
\* stopped fetches no further page.
RetrievalStops == [][page = "backup" => Backup!StaysCancelled /\ Backup!StopIsKept]_vars

\* What a user stores fits the allocations an administrator saves, these fit the
\* drives, and one restriction is in force at a time.
AllocationsFit ==
  /\ page = "users" => Users!UsedFits /\ Users!CapacityKept
  /\ page = "bans" => Bans!OneBanInForce

\* A deposit for an account backs one request, which is recorded when the visitor
\* is told so, and no deposit is taken for a request that nobody records; and the
\* invitation that answers a request is one, reaches the guest and is spent by the account.
RequestsBacked ==
  /\ page = "access" => /\ Access!OneRequestPerDeposit /\ Access!ReceivedIsRecorded
                        /\ Access!DepositIsServed
  /\ page = "invites" => Invites!OneOpenEach /\ Invites!LinkIsMailed /\ Invites!UsedIsAccepted
============================================================================
