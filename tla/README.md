# Formal models of Apollo SFS

TLA+ models of Apollo SFS: the key hierarchy and its rotation, the storage of
files across MinIO and Postgres, the reconciliation scan that deletes what looks
like drift, the migration of folders between drives, the two clients' sessions,
the backup of camera rolls, Google accounts and mailboxes, and the pages through
which users, visitors and administrators upload, browse, buy, ask for access,
invite, register and administer, each with the handlers, webhooks and loops of the
server that reach the same records. TLC checks small instances of each; TLAPS proves the most important
safety properties for every instance.

Contents: [inventory](#1-inventory), [modules](#2-modules), [runs](#3-runs),
[bounds](#4-bounds), [fairness](#5-fairness), [proofs](#6-proofs),
[disagreements](#7-disagreements), [observations](#8-observations),
[not modelled](#9-not-modelled), [plan](#10-plan).

## 1. Inventory

Apollo SFS is a self-hosted encrypted file store: a Go API (Gin) in front of
Postgres (rows, row-level security per user), one MinIO bucket per drive
(encrypted objects), Keycloak (identities and realm roles), PayPal and an SMTP
relay; a React page and a React Native app are its clients, a Python recognition
service its helper. One API process runs; next to the request handlers it has
about a dozen background goroutines, started in `api/cmd/main.go` (212-218, 355,
361, 398-406).

Nothing is transactional across Postgres, MinIO, Keycloak, PayPal, the process's
memory and a client's. Where an operation touches two of them, the order of the
steps and what happens between them is the program's correctness argument. That
is where the models are.

| Component (source) | State | Operations | Hard because | Correct when | Module |
|---|---|---|---|---|---|
| **Key hierarchy and rotation** (`services/key_rotation.go`, `encryption.go`, `db/master_keys.go`) | `master_keys`, `key_rotation_log`, `users.encrypted_key`; the key map and active version in memory | load, provision, rotate (activate, re-wrap in pages, verify, drop, purge, log), resume | the job spans hours; registrations, renames, deletions race it; a crash at any statement; a key is destroyed for good | no key in use is destroyed; rows only move forward; what is logged as complete is complete | KeyRotation |
| **File store** (`services/file.go`, `minio.go`, `db/files.go`) | objects per bucket; `files`, `video_variants`; the counter | upload, transcode, delete, purge, read | three stores updated step by step; best-effort clean-up; a commit that reports an error may have happened | an acknowledged file stays readable; objects, rows and counter agree | FileStore |
| **Chunked upload sessions** (`services/upload_session.go`, `file.go`, `routes/files.go`) | sessions in memory, recorded parts, first error, key bytes; MinIO multipart uploads | open, chunk, complete, delete, hourly sweep | a goroutine per chunk; chunks repeated and late; completion against completion and sweep; the key zeroed under its users | a completed file is whole and readable; a completion fails for a reason | UploadSessions |
| **Reconciliation** (`services/reconciliation.go`) | listings and key sets of the running scan | list, diff per drive, repair orphans, ghosts, variants | acts on snapshots minutes old; deletes for good | deletes nothing live; all drift is repaired in the end | Reconciliation |
| **Folder drive migration** (`services/folder_drive_migration.go`) | jobs; the goroutine's list | request, copy, remove source, update row, finish | no lock, no restart, nested folders | files stay readable; jobs end | DriveMigration |
| **Camera-roll backup** (`mobile/src/services`, `tasks`, `context`) | SQLite queue, cursor, the process's pass | preview, scan, upload, retry, clean the device | two passes over one queue; the app is killed; the cursor moves past failures | a photo leaves the device only when stored; every photo is stored in the end | MobileSync, PhotoBackup |
| **Client sessions** (`mobile/src/api/client.ts`, `frontend/src/auth.tsx`, `api/routes/middleware`) | stored token pair, refresh queue; server's token cache | request, refresh, sign in and out | single-use refresh tokens; answers late, lost or overtaken | the client is not left with a used token; no request waits for ever | ClientSession |
| **Cloud backup** (`frontend` and `mobile` backup modals, `api/backupControl.ts`) | windows, card, runs, control, status map | pick, back up, pause, cancel and roll back, retry, clean the provider | a run outlives its window; two runs share a control | mail is kept; counts are true; a cancelled run ends | CloudBackup |
| **Retrieval of what to back up** (`_auth.client/index.tsx`) | listing and polling flags, pickers | sign in, list, poll, page, stop, cancel | calls return after they were cancelled | a cancelled retrieval opens nothing | BackupRetrieval |
| **Storage purchase** (`StorageUpgradeModal`, payment buttons, `routes/payments`, `orders`) | modal, wallet sheet, orders, drive room | four ways to pay on two clients, capture, provision | money moves before room is checked; stale server list | who pays is served | StoragePurchase |
| **Expansion requests** (`routes/expansion/handler.go`, orders and invoice pages) | request, invoices, deposit, quota | request, invoice, accept, provision, pay, cancel, expire, revert | four actors; money moves before the guarded UPDATE | capacity and payment agree with the status | ExpansionRequest |
| **Premium and refunds** (`services/payment.go`, `routes/payments`, `orders`) | subscriptions, the order, the premium role | subscribe, confirm, webhook, renew, cancel, refund, revert | webhooks late, twice, out of order | premium and charges follow the subscription | PaidOrders |
| **Uploading from the page** (`hooks/useFileUpload.ts`, `UploadModal`, `UploadToast`) | modal's locks, the hook's live record, the toast | pick, lock, send, retry, dismiss, leave | batches overlap; lost answers; two computations of the redirect | the toast tells the truth; files go where shown | WebUpload |
| **Browsing** (`_auth.client/index.tsx`, `HomeScreen`, `services/folder.go`) | selection, dialogs, drag; the tree | open, search, select, move, delete, create | check and change are two statements; selection outlives its list | nothing is lost unasked; the tree stays a tree | FileBrowser |
| **Media collections** (`MediaCollectionView`, `GalleryScreen`) | selection, runs in batches | select by filter, delete, move, copy | answers after navigation; partial failures | a run that reports no failure did all of it | MediaBrowser |
| **Recognition jobs** (`services/recognition_worker.go`, `db/recognition.go`) | jobs, detections, crops, counter | enable, claim, run, purge, restart | crops outside the transaction; two collections share a file | detections, crops and counter agree | RecognitionJobs |
| **Recognition groups** (groups window, `services/recognition.go`) | groups, labels, faces | list, rename, merge, delete | a stale list; merge reads before it locks | no face and no name is lost | RecognitionGroups |
| **Registration** (`services/auth.go`, `db/registration_groups.go`, `drives.go`, register pages) | slots, holds, Keycloak accounts, drive room | pick, hold, sweep, submit, edit, close | a hold lapses mid-request; read-then-allocate | a drive is not over-promised; one account per slot | Registration |
| **Allocations** (`_auth.admin/users.tsx`, `admin_browse.go`, `db/drives.go`) | the form, allocations, usage | fold out, edit, save | a form minutes old; the save reads, checks and replaces in three statements, beside uploads and purchases | use fits allocations, allocations fit drives | UserAdmin |
| **Bans and suspensions** (`BanSuspendModal`, `_auth.admin/bans.tsx`, `routes/admin/bans.go`, `db/user_bans.go`) | the modal, restrictions in force | ban, suspend, pardon, lapse | lifting and recording are two statements; two administrators | one restriction at a time | UserBans |
| **Requests for access** (`interest.tsx`, `AccountRequestScreen`, `routes/interest.go`, `interest_deposit.go`) | the form, deposits, requests | choose, pay, capture, send | money moves before the request is checked; the form changes meanwhile; anybody can post | a deposit backs one request, for its plan; who paid has one | AccessRequest |
| **Invitations** (`_auth.admin/requests.tsx`, `services/invite.go`, `routes/admin/invitations.go`, `interest.go`, `services/auth.go`) | rows with their latest link, mails, accounts | invite, provision, send anew, revoke, register | the link is replaced while a mail or a registration with the old one is under way | one open invitation per address; its link is mailed; who registers spends it | Invitations |

Components that are not modelled, and why, are in [section 9](#9-not-modelled)
and in `PROJECT.json`.

How the modelled components interact:

- every handler reads a user's key through **key rotation**'s memory cache;
- **migration** and the **scan** use the same calls as the handlers, and the scan
  deletes ghost rows *through* `FileService.Delete`; no lock is between the three;
- a **ban** purges through `AdminDeleteAllFiles`;
- **pages** hold what the server answered some time ago, and send it back as
  requests; webhooks, loops, other devices and administrators change the records
  in between;
- a process death stops the server's work between two statements; only key
  rotation and the recognition ledger resume.

The hazards - with their lines, and the properties that would catch each going
wrong - are in `PROJECT.json`.

## 2. Modules

```
KeyRotation ───────── KeyRotationProofs
FileStore ─────────── FileStoreProofs       implements FileVault
  ├─ Reconciliation                         implements FileVault
  ├─ DriveMigration
  └─ StorageSystem ── StorageSystemProofs (extends FileStoreProofs)
       = Reconciliation + DriveMigration
MobileSync ────────── MobileSyncProofs      implements PhotoBackup
ClientSession ─────── ClientSessionProofs
CloudBackup ───────── CloudBackupProofs
ClientPages ───────── AccountPagesProofs (*), ContentPagesProofs (+)
  = StoragePurchase* | ExpansionRequest* | PaidOrders* | Registration*
  | UserAdmin* | UserBans* | AccessRequest* | Invitations*
  | UploadSessions+ | RecognitionGroups+ | RecognitionJobs+ | WebUpload+
  | FileBrowser+ | MediaBrowser+ | BackupRetrieval+
MC<module>            constants for TLC; one .cfg per run
```

**KeyRotation.** The tables are functions from versions (`status`, `log`) and
row numbers (`owner`, `ver`, `key`); `memKeys`, `activeVer` are the service's
cache; `pc`, `old`, `resuming`, `todo`, `page`, `offset` are the local variables
of the one scheduler goroutine. `Boot` is `LoadMasterKeys` with its bootstrap,
`ResumeList`/`ResumeNext`/`ResumeDone` are `resumeIncomplete`, `RotateStart`,
`OpenLog`, `ListPage`, `RewrapUser`, `Verify`, `RemoveKey`, `PurgeKey`,
`Finalise` the statements of `RotateMasterKey` in order, `JobFails` any of them
failing, including a commit that took effect and reported an error.
`Provision`/`CreateUser` split a registration where the code does: the key is
wrapped, then the row is inserted. `RenameUser`, `DeleteUser`, `CacheRow`,
`ExpireRow` are the handlers that race the job. The history variable `late`
marks rows inserted under a version that was no longer active.

**FileStore.** `bucket[d]` is the set of object keys in a drive's bucket,
`drive[f]` the row's `drive_id` (`NoDrive`: no row), `variantRow` the
`video_variants` rows, `used` and `quota` the user's columns. An upload is a
small program counter `up[f]`: `UploadCheck`, `UploadPut`, `UploadSave` or
`UploadUndo`, `UploadCount`, then for a video `VariantBegin`, `VariantPut`,
`VariantReady`. `del[k]` is a delete in flight: `UserDelete`, `DeleteVariant`,
`DeleteBlob`, `DeleteRow`, `DeleteRefund`. `PurgeList`, `PurgeBlob`, `PurgeRows`,
`PurgeReset` are `AdminDeleteAllFiles`. An error from MinIO or Postgres leaves
the effect done or not done. `HandlersDie` is the end of the process; `Age` lets
the scan's grace period pass.

**FileVault** is what the store promises, without drives, rows, handlers and
failures: files arrive, are reported, are asked away, and vanish - one that was
reported only if it was asked away - and nothing arrives twice. FileStore maps to
it by what can be read of the files past their insert (`Unsaved`, `Kept`), by what
was reported (`acked`) and by what was asked for (`dropped`). Reconciliation keeps
the promise too; DriveMigration does not, as a file that is being moved cannot be
read between the removal of its source and the update of its row.

**Reconciliation** extends FileStore with one scan (`ScanStart` ... `ScanEnd`),
**DriveMigration** with jobs (`RequestCheck`/`RequestCreate`, `MigrateList` ...
`MigrateFinish`, `MigrateFail`); **StorageSystem** puts handlers, scan and jobs
together.

**UploadSessions.** One session: `InitUpload`, chunk requests that are found,
read, dispatched and turned into a goroutine (`UploadChunk`, `ReadFails`,
`DispatchChunk`, `Launch`, `Encrypt`, `UploadPart`, `RecordPart`), completions
(`CompleteUpload`, `Wait`, `CompleteMultipart`, `SaveRow`, `AddStorageUsed`,
`DeleteSession`), the sweep in the three steps of `cleanupLoop`, and `Restart`.
A part is known by the request that sent it, which is what MinIO's ETag tells
apart; the key is "user" or "zero", read when a chunk is encrypted.

**MobileSync.** Photos are numbered by time, which is all the cursor knows.
`row`/`since` are the SQLite queue (`since` ranks its rows by creation),
`pc[r]`/`doing[r]`/`todo[r]` the foreground and the background pass with the item
it is at and those it has taken, `preview` and `cleaning` the two dialogs.
`BeginItem`,
`MarkKnown`, `Upload`, `MarkStored`, `AdvanceCursor`, `ItemFails`, `PassEnds`
are the awaits of one item; `BackgroundStart`, `ScanPhoto`, `TakeItems` those of
`run`; `Kill` is the operating system. **PhotoBackup** is what this promises.

**ClientSession.** Token pairs are numbered as they are issued. A request is a
record with the tokens it was sent with; `Serve` is `RequireAuth`, `ReceiveOk`,
`Reject`, `Wait`, `Lead`, `ReadToken`, `Refresh`, `Refreshed`, `Refused` the
interceptors of `client.ts`, `Expired` the page's handler; `Login`, `SignOut`,
`Logout`, `Reopen` the user; `Expire`, `RestartServer`, `Lose` the world.

**CloudBackup.** `kind` says which of the three windows (page and app differ in
guards, which have names of their own). A run is a record with its control
(`ctl`: running, paused, cancelled) and its place in the loop; user actions are
the buttons that are enabled in a state.

**ClientPages** puts the pages side by side. A client shows one page at a time:
`page` says which, `ui` is what it and its windows hold, `srv` the part of the
server its requests reach. No page's module touches another's state, so they are
alternatives, not factors, and one run covers all. Each module's actions are the
handlers of the page and the steps of the server's handlers, split wherever the
code waits for PayPal, Keycloak, MinIO or a second statement. `UploadSessions`
is one of the alternatives: the server's half of a large upload, for any client.

Of its modules for accounts, **UserAdmin** has the storage form (`ui.view` is the page's
copy, `ui.rows` the texts as amounts, to the hundredth of a GB that `toFixed(2)`
leaves, `Grain`) and its save in three statements, which race `Takers`: an upload,
a purchase, somebody else's request for the same drive. **UserBans** has the modal and
the list behind it, two administrators, and a ban in the steps of `bans.go`: lift
what is in force (`Lifts`, which may fail without notice), `CreateBan`,
`AdminDeleteAllFiles`. **AccessRequest** follows a deposit from the order
(`HandleCreateOrder`, `HandlePayPal`, `HandleChooseCard`, `HandleGetApprovalUrl`)
through approval and `CaptureInterestDepositOrder` to the post of the form
(`SubmitInterestForm`) and its steps on the server: `CheckCaps`, `CheckDeposit`,
`ConsumeInterestDepositOrder`, `CreateInterestSubmission`. `run` is the handler of
the client that carries an order on, "alone" once its page was left; `OtherPosts`
is anybody who names the order of another. **Invitations** has rows with a link, a
counter that makes links, the calls of two administrators (`jobs`) with their
statements - read, replace the link, mail it - and one registration at a time
(`ValidateInvitation`, `KcCreateUser`, `ProvisionInvitedAppUser`,
`AcceptInvitation`), each of which may fail.

Operators commented "A bug:" are mutated forms of the operator that follows. One
per property is listed in `PROJECT.json`; the property fails when it replaces
the original, and the parts of a conjunction were each tried with their own.

## 3. Runs

| Run | Instance | Checks |
|---|---|---|
| `rotation_safety` | 2 names, 3 versions, pages of 1, 1 fault, 1 crash, renames and deletions | `TypeOK`; `KeysHeld`: the key of every user who registered in time is in memory; `StrandedOnlyLate`: no key is purged under such a user; `LogHonest`: "completed" is true and stays true; `NoDowngrade` |
| `rotation_progress` | the same with pages of 2, without administrators, with a reader and 2 crashes, fair | `RetiringResolved`: a retiring key is destroyed or the job has stopped with users on it; `OwnKey`: rows keep their AES key |
| `store_safety` | 2 files (1 video), 2 drives, a delete, a purge, 1 fault, 1 crash, slow transcodes | `ImplementsFileVault`, the refinement: a file reported as stored can be read until somebody asks for its deletion, and a file that is gone stays gone; `InStepAtRest`: without failures no orphans and no ghosts remain; `CounterExact`: without failures the counter is off only by handlers in flight, and too low only when a file is deleted twice at once |
| `reconcile_safety` | 1 video, 2 drives, a delete, any number of scans, 1 fault, 1 crash, fair | `ScanSpares`: scans leave every reported file nobody asked to delete readable (`Durable`) and, without failures and slow transcodes, the row and the object of its finished variant (`VariantKept`); `OrphansRepaired`, `GhostsRepaired`: drift is removed in the end |
| `migration_safety` | 1 file, 2 drives, 2 requests for one folder, a delete, 1 fault, 1 crash, fair | `ReadableUnlessMoving`: until a second job starts, a file is unreadable only while it is switched over, or after its job stopped there, which then does not say it completed; `MigrationEnds` |
| `system_safety` | 1 file, 2 drives, 1 job, scans, a delete, 1 fault, 1 crash | `LostOnlyByOverlap`: until a second job starts, a live file becomes unreadable in two ways only: a scan ran while it was being moved, or its move stopped half-way |
| `mobile_sync` | 2 photos, passes of 2, quota 3, 1 fault, 1 kill, 1 deletion, fair | `CleanedAreStored`: a photo off the device is on the server; `ImplementsPhotoBackup`, the refinement; `StillRemembered`: an unstored photo is in reach of a later pass but for the listed ways; `EventuallyBackedUp` |
| `client_session` | both clients, 3 requests, 2 logins, 1 expiry or restart, 1 fault, fair | `NotLeftBehind`: the stored refresh token is usable or its successor under way; `MethodMatches`: no session is refreshed the wrong way; `WaitersSettle` |
| `cloud_backup` | 2 items, 2 runs, 1 fault, the three windows, fair | `MailLostOnlyByOverlap`; and, for runs that do not overlap, `RetryAccounts`: the number of failures shown is right after any retry, and `ListingFresh`: a closed window leaves the page's listings fresh; `CancelEnds` |
| `client_pages` | the fifteen modules, small each | the thirteen promises below |

The promises of `client_pages`, each a conjunction of the named properties of its
page's module, which state their reservations:

| Property | Says |
|---|---|
| `PurchasesServed` | nobody pays for storage and goes without; no success is shown that the server does not know |
| `ExpansionsHonoured` | a request's capacity is added once and kept only by one that was provisioned; whoever was told the balance arrived has a completed request |
| `OrdersBalance` | no premium without a subscription, no charge without a record, capacity taken back once per way, in whatever order webhooks, renewals, cancellations and reverts come |
| `UploadsAsTold` | "Complete" means stored; files go where the modal said, retried or not |
| `ChunksKept` | a completed file is whole and under the user's key; what is acknowledged is stored and counted once; a completion fails only for a reason |
| `NothingLostUnasked` | bulk actions delete what their dialog lists; a file is lost and a cycle made only by the named races |
| `AlwaysToldIsDone` | a run over a selection that reports no failure did all of it |
| `CropsInStep` | detections, crops and counter agree at rest; a file is analysed once; a done job's faces are in its groups |
| `PeopleKept` | merging and renaming loses no face and no name |
| `SlotsHonoured` | a drive is not promised beyond its room; a slot makes one account, for its holder |
| `RetrievalStops` | a cancelled retrieval opens no picker, a stopped listing fetches no further page |
| `AllocationsFit` | use fits allocations, allocations fit drives, one restriction is in force |
| `RequestsBacked` | a deposit backs one request, for the plan it was paid for, and who paid has a request; an address has one open invitation, whose link is mailed, and whoever registers spends it |

Two runs refute what the program says of itself; TLC prints the interleaving:

| Run | The sentence | What happens |
|---|---|---|
| `rotation_offset` | "Re-wrap all user keys in batches" (`key_rotation.go:27`) | the page query selects users still on the old version, so re-wrapped users leave it and `OFFSET` skips as many; with more than one page the job ends incomplete and is recorded as failed |
| `backup_cleanup` | "They are safely backed up in Apollo SFS." (`frontend/src/components/GoogleBackupModal.tsx:494`) | the clean-up deletes at Google every Drive entry of the list, also those that failed, were not selected, or were rolled back |

`CHECK_DEADLOCK FALSE` stands where a finite instance does run out of things to
do: all files uploaded, all orders made, nothing left to delete.

## 4. Bounds

The bounds are constants of the modules: `MaxUsers`, `MaxVersion`, `MaxFaults`,
`MaxCrashes`, `MaxKills`, `MaxRuns`, ... and the sizes of the sets. Why the
instances are large enough:

- *Key rotation.* Three versions give two successive rotations, the least at
  which an unfinished job meets a newer one; pages of one row make every job span
  several pages; two names with renames let one name pass to another row.
  `rotation_offset` needs three users and pages of two.
- *File store.* The handlers of different files meet only in the counter and the
  purge, so two files reach every meeting; two drives are what a wrong drive
  needs. One fault and one crash may strike at every step.
- *Reconciliation.* The scan treats keys one by one, so one file (two objects,
  main and variant) against two drives shows every diff; it repeats without bound.
- *Migration.* Two jobs for one folder reach both sides of the unlocked check.
- *Mobile sync.* Two photos are what a cursor that passes one because of the other
  needs; both runners may work on both. Without a `PendingLimit` that fits the
  failed rows passes may starve ([observations](#8-observations)).
- *Sessions.* Three requests: a leader, one that waits behind it, and one whose
  answer comes after both; two logins let an old pair meet a new session.
- *Cloud backup.* Two items let one run store one while the other is cancelled;
  two runs share a control; a retry is a second run.
- *Pages.* Two of what the page can hold: two servers, two invoices, two
  subscriptions, two batches, two folders that move into each other, two media
  files in batches of one, two detections, two visitors per slot. Chunks: two
  chunks, three requests so that one is a duplicate, two completions, one fault -
  enough for an abort that fails after a completion that failed, without which
  `StoredIsWhole` would need no reservation. One other device, tab or
  administrator acts beside the user. Drives of two units with a grain of two have
  amounts the form cannot say; three requests to ban let two overlap and a third
  follow. Two plans and two deposits: a plan changed while one is paid, and a
  second payment after a failure. One guest with two rows, three links and two
  calls: every kind of call meets every other over one address, a row is sent anew
  twice, and an address is invited again after its first invitation was closed;
  guests meet only in the numbering of rows and links.

The safety proofs remove the bounds for rotation, store, scan, migration and both
together, camera-roll and cloud backup, client sessions, and all pages. Symmetry is
used in `client_pages` alone: folders, chunks, media files, drives, plans and the
calls of administrators are sets of like values, told apart by nothing; one pair of
values stands for each of them. The run has
about 7.5 million distinct states and takes three minutes with two workers.

## 5. Fairness

- *Rotation* (`FairSpec`): weak fairness of `Boot` - the container has a restart
  policy - and of the scheduler's steps, one goroutine in a loop with no external
  wait. Nobody is obliged to register, read, or administer.
- *Scan* (`ReconcileFairSpec`): weak fairness of handlers already begun, of the
  daily start and of the scan's steps. Strong fairness of `Age` while no scan
  runs: scans are a day apart and last minutes, the grace period is two hours, so
  everything gets older between scans infinitely often though not continuously.
  Steps that fail are bounded by `MaxFaults`: MinIO and Postgres answer
  eventually.
- *Migration* (`MigrationFairSpec`): weak fairness of a goroutine's steps. None
  for restarting an interrupted job, because the code has none: that is the
  `crashes > 0` escape of `MigrationEnds`.
- *Mobile sync* (`SyncFairSpec`): the operating system keeps calling the
  background fetch, and a pass that has begun goes on. The user need never open
  the app.
- *Sessions* (`SessionFairSpec`): requests that were sent are answered (an answer
  may also be lost) and answers are handled.
- *Cloud backup*: a run's promises settle. Nobody is obliged to press "Resume".
- *Pages*: safety only; no fairness is assumed.

## 6. Proofs

Assumptions are only those named in the modules: `KeyRotationAssumption`,
`FileStoreAssumption`, `MobileSyncAssumption`, `ClientSessionAssumption`,
`CloudBackupAssumption`, `ClientPagesAssumption`, `NamesAssumption` (finite sets,
a primary drive among the drives, the user's own server among those listed, at
least one chunk, bounds that are naturals; folders and files have ids of their
own, as UUIDs do, and the root of an account has none). Everything below holds
for any number of users, versions, files, drives, requests, scans, jobs, logins,
photos, messages, chunks, invoices, slots, folders, faults and crashes.

**KeyRotationProofs.** `TypeCorrect` is inductive. The safety properties follow
from `IInv`, which adds to the types: exactly one active version and nothing
beyond it (`OneActive`); memory and database agree on it except after a rotation
that committed with an error, and then no job runs (`ActiveAgrees`); jobs work on
retiring versions only (`JobOnRetiring`); from the verifying count to the purge
nobody who registered in time is on the old version (`Verified`); every row's
version has material (`RowsUsable`); a completed log entry is of a version in
retirement (`CompletedRetired`). `Verified` is the step that matters: a job purges
minutes after it counted, and the invariant shows why no re-wrap and no timely
registration can return a row to the old version in between - both wrap under
`activeVer`, which is not `old`. `KeysHeld`, `StrandedOnlyLate`, `ActiveUsable`,
`LogHonest` and `NoDowngrade` are corollaries, one theorem each. `OwnKey` is
proved under the assumption that administrators neither rename nor delete, from
`NamesKept`.

**FileStoreProofs.** `Durable` - a file reported as stored that nobody asked to
delete is readable - is not inductive: it says nothing of an upload
before it is acknowledged or of a delete in flight. `StoreInv` calls a file
*alive* while nobody asked to delete it and its upload has not failed, and *safe*
if it is alive and not in a set `L` of files given up. Until its insert a file has
no row, and its object is young and only where the upload put it (`UploadInv`);
every delete and purge in flight is of files that are not safe (`DeleteInv`,
`PurgeInv`); from its insert on a safe file is readable (`Placed`). For the
handlers alone `L` is empty; the parameter is what lets scans and migrations use
the same lemmas about the handlers' steps.

The other half of the module is about runs without failures. `InStepOf` says of
each file what MinIO holds, what the row says and which request is between the
two, and `Counted` that the counter is the rows, less the uploads that are saved
and not counted, plus the deletes that have yet to refund - an equation between
cardinalities of which each step moves one element. `InStepAtRest` and
`CounterExact` follow. The proof showed what the second must say: when two
requests delete one file, both refund it, so the equation is an upper bound then,
and exact only while no file is deleted twice at once.

`StoreKeepsPromise` shows that the handlers implement `FileVault`, step by step:
which step makes a file arrive (`UploadSave` alone, as a row and the object it
names are only there together once the insert is committed, `ArrivesSaved`), and
that every other step makes nothing readable (`SavedFade`, `RowsFade`) and what it
makes unreadable was not safe, hence not reported or asked away.

**StorageSystemProofs.** The scan acts on what it listed a while ago, so its
invariant relates a listing to the present. `Listed`: an object listed as old is
of an upload past its insert. `Seen`: the row of a safe file on a drive still to
be compared is of a listed object or is young. `Repairs`: what the scan has
decided to delete is not a safe file's. The first two say exactly what the grace
period and the order "objects first, rows later" buy. `VariantInv` says the same of
variants, which have a row before they have an object: while one is made its row is
young (`VariantOf`), which is why a transcode must end within the grace period; one
that is recorded was listed where it is, or its row is young still; and its key was
fetched, if its object was listed as old (`VariantListed`), which is why the keys
must be read after the listings and must not fail to be. `ScanSpares` follows.

For migrations, `JobOK` says that a job visits each file of its listing once,
`Pending` that a safe file a job has still to visit is where it was listed,
`InHand` where the file being moved is at each of the three statements, and
`PlacedOrMoving` that a safe file is readable but for the moment between the
removal of its source and the update of its row. This holds until a second job
starts - nothing in the code keeps two jobs apart - with the files given up whose
job stopped in that moment (`unrecorded`); with *every* file given up it holds for
any number of jobs and gives the types. With scans, the files that were in a
job's hands while a scan ran (`overlapped`) are given up too, and `HandsOff` says
that the scan spares every other file a job is moving. `StopsOpenly` adds that a job
which stopped in the middle of a move never says it completed.
`ReadableUnlessMoving` and `LostOnlyByOverlap` follow, and, for handlers and scans,
`ScansKeepPromise`: to who looks at `FileVault` a scan only makes files vanish that
nobody counts on (`ScanVanishes`). The steps of each of the three processes are
proved once to leave the invariants of the other two alone.

**MobileSyncProofs.** `SyncInv`: a row that says done, is about to say so, or was
read as done by the clean-up's alert is of a photo that has been on the server
(`DoneCopied`, `MarkingCopied`, `CleaningCopied`). From it `PhotosNeverLost`, and
`PromiseKept`: initial states map to initial states of `PhotoBackup`, and every
step is one of its steps or changes nothing it sees. The invariant is needed for
one step only, the answer to the alert, which frees what was read some time ago.

`StillRemembered` needs more, for the cursor moves past photos by their time alone.
`RememberInv` says where a photo that has no row can be: in front of the cursor or
in the selection the user was offered (`ReachedInv`). Where a runner may come to
move the cursor, the former are gone - the foreground had the user choose among
them, the background enters what it has listed before it uploads anything - so
nothing unseen is passed. A row that says "uploading" is of a photo some runner
holds (`UploadingHeld`), and between two passes no runner holds any (`HandsEmpty`).
Most steps let go of no row and no photo and do not move the cursor, which one
lemma covers (`QuietKeeps`); the others have a lemma per kind. For this proof the
queue was written with a rank per row instead of a sequence, which changes no
behaviour: the prover knows little of sorted sequences.
`SyncTypes` needs that a rank never exceeds the number of photos (`RankFits`).

**ClientSessionProofs.** `NotLeftBehind` is kept by `Undelivered`: a pair that was
issued and has not arrived is in exactly one answer and was never stored or sent,
so nobody can have used its refresh token when the client stores it - whichever
answer comes first, and however many logins lie in between. Most steps neither
issue nor store a pair; what they may do to the requests in flight is stated once
(`Quiet`), and the three kinds of steps that do are a lemma each (`GrantStep`,
`StoreStep`, `ClearStep`). `MethodMatches` follows along, with `WebPassword`.
`SessionTypes` adds that every pair held, cached or answered with has been issued.

**CloudBackupProofs.** A run touches nothing of another's, but windows, control and
listings are shared, so `CloudInv` is about one run at a time: `Alone` says that,
unless two overlapped, at most one is busy, and each further part has it as its
premise. Mail: what a run counts as backed up is stored - by itself or, as a
duplicate, by another - and what it stored itself is still in the mailbox until it
deletes; once it deletes, all it has left to delete is stored (`MailOf`).
Counts: the result is the number of failed rows, or, during a retry, of the items
the retry took on (`TakenOn`), which is what makes "take the retried off, add those
that failed again" right (`Accounts`). Listings: while one is stale and no timer
pends, a run that will refresh goes on or the finished window is open
(`Listing`). From these `MailLostOnlyByOverlap`, `RetryAccounts` and
`ListingFresh`, for any list and any number of runs, and, with the types of the
window and the provider, `CloudTypes`. The proof attempt showed that
`ListingFresh` needs the reservation about overlaps as the others do: with three
runs a background run that waited for its folder closes the window under a retry
of an earlier one, which stores a message and refreshes nothing
([observations](#8-observations)).

**AccountPagesProofs.** Expansion requests, premium orders, the administration of
users, registration by invitation, storage purchases, requests for access and
invitations. `AccountsInvariance`: a
step of `ClientPages` is a step of the page shown, which keeps that page's
invariant. The arguments count. *Expansion*: the quota is what provisioning under
way has added in advance, and one more from the moment a provisioning succeeds
until the loop takes it back; a request never comes back to a status it can be
provisioned from. *Orders*: the capacity left is one less what was taken back,
once for a revert and once for a refund, and only a captured order is on its way
to a refund. *Allocations*: what a save is about to write, and what an upload or a
purchase found room for, would still fit if it were written now, unless another
wrote meanwhile (`Holding`); what is written then fits (`Fits`). *Bans*: one in
progress has lifted what was in force, and nobody else has, unless two were tangled
(`Lifted`). *Registration*: users and open slots fit the
drive but for requests that have their place and still their slot, which are
counted twice (`RoomFits`); a hold is of an open slot, two holds of two slots, and
a slot has made an account only once (`RegInv`). *Purchases*: three relations say
what any step may do - to the orders (`Evolves`), to the offer (`Offers`), to what
is shown (`Shows`) - and one lemma that such a step keeps `PurchaseInv`; each
action is then shown to be such a step. The heart is `OfferFits`: until somebody
takes room, what is offered fits the drive, so a capture that finds none was
raced. *Requests for access*: what is yet to be captured or sent is for the plan in the
form, and a page's security check stands, unless the form was changed (`Fresh`); an
order that waits for PayPal's page is untouched (`Waiting`); a post is for a captured
deposit, and a used deposit has exactly one post or request (`Sent`, `Taken`). From
these, what a visitor's own post is told (`OwnAnswer`) and `DepositIsServed`, whose
reservations the proof shows to be all there are: the form was changed or left, a
call failed, a cap dropped the request, or somebody else named the deposit.
*Invitations*: a link is followed from its row to the mail - the call that made it is
the one that mails it - and a registration from its link to the row (`CameByLink`): a
row keeps the link a registration came by, or was sent anew under it (`moved`), and no
row opens again. `ExpansionsHonoured`, `OrdersBalance`, `AllocationsFit`,
`SlotsHonoured`, `RequestsBacked` and `PurchasesServed` follow. While that proof was made the model
of the purchase gained what the code has and it lacked: an order left open in a
window that was closed is still carried on there (`held`), and of two outcomes of
a capture that both seemed possible the code takes the first.

**ContentPagesProofs.** *Chunks*: a session's key is zeroed while requests still
use it. `SessionInv` says why no part under zeros gets into a file: as long as
MinIO takes parts the key is the user's, unless an abort failed (`KeyKept`), so
parts and object are of their chunks and under that key (`PartsWhole`). One
completion obtains the object, and alone saves and counts it (`OneSaves`,
`Created`). A completion that waited finds a finished request for every chunk
(`Waited`), and one nobody repeated is both the part held and the part recorded
(`Alone`): so a failure has one of the listed reasons. *Groups*: a merge is into a
group it does not merge, and the name it has read is still the target's unless it
was raced (`ReadIsCurrent`), hence no face and no name is lost. *Jobs*: what is on
the drive has a row or waits for one, and the counter is the number of rows less
the jobs that have yet to count theirs, until a crash or a failed write came
between (`CropsAccount`); two jobs do not analyse one file at once unless they
raced, and one begins only where nothing was found (`OneAtATime`); a job that is
done has its faces in its groups (`Grouped`). *Uploads from the page*: what the
modal showed is what the run was given (`LocksGiven`), so files are where it said;
and unless a batch was started over another, the run the toast speaks of is the
only one that reports, and the toast's count is that of the items that failed, in
a retry also of those being tried again (`ToastInStep`) - a "Complete" is a count
of none. *Selections of media*: as long as no deletion failed, each file of the
run waits, is on its way, or is gone, and no operation brings back what is gone
(`DeletedSoFar`, `GoneStays`). *Retrievals*: what was asked to stop sees the flag
unless another retrieval took it over (`AskedIsHeard`).

*The browser* has two invariants. `TreeInv` is about the server, where a check and
the change it allows are two statements. A folder's subtree is the least set that
has it and is closed under "is in"; each step is shown to keep closed what shows
that something is outside of it. `CheckedHolds` says what is left of a check when
its change comes: the target of a checked move is still outside of what moves,
because only another checked move could have brought it there, which `twice`
records; a folder that was checked to be empty still is, unless something was put
into it, which `raced` records. So a move makes no cycle, a deletion takes nothing
with it, and the rest is `LostOnlyByRace` and `TreeUnlessRaced`. `ListInv` is about
the view: no selection outlives the list it was made in unless the user searched
(`Shown`); what can change the list under it - an answer, another tab, a bulk run -
clears it, hides it or is one of the reservations (`Requested`, `Unselected`).

From these, for any number of chunks, batches, media, detections, folders, files
and other devices: `ChunksKept`, `PeopleKept`, `CropsInStep`, `UploadsAsTold`,
`NothingLostUnasked`, and the action properties `AlwaysToldIsDone` and
`RetrievalStops`.

**Only model-checked.** Every invariant and every action property of the runs is
proved, but for the two sentences TLC refutes. Liveness under fairness
(`RetiringResolved`, `OrphansRepaired`, `GhostsRepaired`, `MigrationEnds`,
`EventuallyBackedUp`, `WaitersSettle`, `CancelEnds`) is beyond the prover. A few
definitions are in no run but stated by theorems: the type invariants of the modules
whose runs list none, `Strengthening` (a part of `IInv`) and `CachedMissIsStale`, a
corollary of `KeysHeld`.

## 7. Disagreements

What a comment or document says and the code does not do. The first two are runs
of their own (section 3); the others are stated in the modules as properties that
TLC refutes when they are added to the module's configuration.

| Property | The sentence | What happens |
|---|---|---|
| `RewrapCoversAll` (KeyRotation) | see `rotation_offset` | |
| `SafelyBackedUp` (CloudBackup) | see `backup_cleanup` | |
| `StrandedOnlyLate` without "late" | the count is "used to verify that re-wrapping is complete before purging the old key" (`db/users.go:527`) | a registration that wrapped its key before the rotation inserts its row after the count; the key is purged under it |
| `CounterNonNegative` (FileStore) | the counter "is updated atomically on every upload and deletion" (`db/03_users.sql:5`) | two deletes of a file both refund it; the counter goes below zero |
| `ReferencedVariantKept` (Reconciliation) | "never treating a variant/crop key as an orphan-object candidate" (`docs/storage_reconciliation.md:90`) | when listing the variant keys fails the scan goes on with none, and removes every old variant |
| `BlobOnCurrentDrive` (DriveMigration) | "all guarantee a file's blob lives only in its current drive" (`reconciliation.go:85`) | jobs for a folder and one inside it overlap; the one that found the file in place writes its drive over the other's |
| `Durable` in StorageSystem | only orphan objects and rows "referencing an object that no longer exists" are deleted (`reconciliation.go:33`) | a file that moves between the listing of its destination and the reading of that drive's rows looks like a ghost; row and object go |
| `DuplicatesAreSafe` (UploadSessions) | "Chunks may arrive and be retried in any order; duplicates overwrite safely." (`routes/files.go:680`) | a chunk sent again is encrypted and stored anew; when its goroutine ends in another order than the first one's, or after the completion's wait, the recorded part is not the one MinIO holds and the completion fails |
| `StayLoggedIn` (ClientSession) | the cache "is rebuilt lazily after a restart ... so users stay logged in across redeploys" (`middleware/token_cache.go:19`) | of two requests that arrive together after a restart or an expiry, the second finds the refresh token used; its 401 signs the page out |
| `SheetTellsTruth` (StoragePurchase) | "Capture before completing the sheet so the success checkmark means the payment really went through" (`PayPalApplePayButton.tsx:273`) | the caller swallows a failed capture; the sheet shows success |
| `NothingCollected` (ExpansionRequest) | "expire invoice + request (nothing was collected)" (`expansion/handler.go:1527`) | an invoice sent again while the deposit of the first is captured stays open; its expiry expires a paid request and refunds nothing |
| `EndedStaysEnded` (PaidOrders) | "Terminal status stops a self-billed subscription's renewal loop" (`db/premium_subscriptions.go:136`) | a renewal that listed the subscription before it ended, or a late activation, sets it active again |
| `LocksMatchReality` (WebUpload) | "mirrors FileService.resolveUploadFolder so the modal's lock icons match reality" (`_auth.client/index.tsx:1101`) | the page knows the redirect's folder only when it is a loaded subfolder of the one shown |
| `DeletedWasListed` (FileBrowser) | the count of unlisted items is "Non-zero only for the media grid's filter-driven selection" (`BulkDeleteConfirmModal.tsx:21`) | a selection survives a search; what it hides is deleted and neither listed nor counted |
| `SelectionOfCollection` (MediaBrowser) | "Selected ids only make sense against the collection they were picked in." (`MediaCollectionView.tsx:358`) | a filter's answer that arrives after the folder was changed is added to the new folder's selection |
| `EnabledIsQueued` (RecognitionJobs) | enabling "enqueues jobs for every not-yet-indexed media file" (`services/recognition.go:136`) | rows that were skipped or failed stay so; overlapping switches delete rows just queued |
| `UsedIsAccepted` without `moved` (Invitations) | "creates the app DB record, and marks the invitation accepted" (`services/auth.go:549`) | an invitation sent anew during the registration has another link by then; no row is found, no error is seen, and it stays open although its account exists |
| `RetryWorks` (Registration) | "a failed grant leaves the reservation valid for a retry" (`services/auth.go:750`) | the Keycloak account made before the grant is not taken back; the retry is refused because the name exists |

## 8. Observations

Behaviours met while modelling that no sentence of the repository denies:

*Storage.*
- The quota check and the counter update of an upload are separate, for a chunked
  one by hours; uploads that check together overshoot.
- A ban's purge does not stop uploads in flight: a row inserted after
  `DeleteAllUserFileRows` stays, and its counter update follows the reset.
- A transcode that outlasts the grace period has its row deleted as a ghost; its
  object then arrives as an orphan. The scan's delete of a ghost row refunds the
  file also when a user's delete of it is about to.
- Three nested migrations that overlap can remove the last copy of a file. A
  process that dies between a migration's removal of the source and its update of
  `drive_id` leaves the file unreadable until a scan deletes both halves; the job
  stays `in_progress` and refuses later requests.
- A user row cached by `FileService` may name a key version that rotation has
  dropped; reads fail until the entry expires. A rename during a re-wrap lets
  `UpdateUserEncryptionKey`, which selects by username, write one user's key into
  another's row. A failed rotation followed by a successful one leaves two
  versions retiring; the older waits for a restart.
- *Chunked uploads*: an index counts as dispatched before the wait group knows of
  its goroutine, so a completion that arrives in between fails with a part
  missing. The first error of a chunk sticks, a successful retry does not clear
  it. A completion that fails leaves its session with a zeroed key; when also its
  abort failed, chunks sent again are encrypted under zeros and a second
  completion stores them (`StoredIsWhole` excludes a failed abort by name). Its
  two clients open a new session instead.

*Clients.*
- *Camera roll*: more failed rows than `PENDING_LIMIT` starve newer ones.
- *Cloud backup*: the mail window starts twice while its folder is created, and
  the second start, if it goes to the background, closes the window also under a
  retry: `handleRetryFailed` (`EmailBackupModal.tsx:395-454`) never refreshes the
  listings, and its `setResult` may count below zero; a
  second background start takes over control and cancel action; a cancel during
  the last item is not honoured; after "remove" a second cancel and resume do
  nothing; the app's window can be closed during a run, whose end turns the next
  one to finished; Drive's DELETE is permanent though called trash;
  `RNBlobUtil.fetch` does not throw on HTTP errors.
- *Retrieval*: a new retrieval resets the flag that tells a closed picker's
  listing to stop; that listing goes on (the comment at `index.tsx:926` says it
  should not) and writes into the new picker. Google Photos sessions of an early
  cancel are not deleted.
- *Uploads*: a second batch over a running one takes over its live record; moving
  between root and folder loses the toast; a lost answer and a retry store twice;
  a retried large upload leaves its old session to the sweep.
- *Browsing*: the app shows answers out of order; a folder found empty takes a
  file moved in meanwhile along; two moves can make a cycle.
- *Media*: moving a file shown through a pointer leaves the pointer; the toolbar
  starts parallel runs; a run's end clears a selection made meanwhile.

*Money and accounts.*
- *Purchases*: money is captured before the room of the own drive is checked; the
  app's prices are written in and lead to a refusal after capture; the app's wallet
  charges name no server; captured storage orders are not reconciled by a
  webhook; reloading the return page captures again and shows an error.
- *Expansion*: the revert loop's list takes capacity from a request paid since;
  expiry may refund a deposit while provisioning expands; cancelling an expanded
  request refunds and keeps the capacity; the balance can be paid twice.
- *Premium*: a refund after a sandbox revert takes capacity twice; a late
  CANCELLED removes the premium of a user who subscribed again; a late ACTIVATED
  revives a cancelled subscription; confirm answers 200 whatever PayPal's status;
  `_auth.premium.tsx:71` mutates while rendering and retries without end.
- *Registration*: an auto-login that fails makes the retry a 410 though the account
  exists; two submissions of one token make two accounts on one slot; an expired
  group keeps held reservations but no longer their room; `SaveEdit` inserts a
  stale count; the app's screen sends no captcha token.
- *Requests for access*: the form is sent as it is after the capture: a plan chosen
  meanwhile, or a check that lapsed, has the request refused once the deposit is taken,
  with no way to name that deposit again. Beyond a cap, and for an address that has a
  request, the answer is that of a success and the deposit is kept unused. Whoever knows
  an order's number can use its deposit.
- *Invitations*: `ProvisionInterestSubmission` marks the request with the id of an
  invitation that `Create` never read back; the mark always fails, which is answered as a
  success (`routes/admin/interest.go:127`), so the request stays open, can be provisioned
  again, and only the index on pending addresses keeps the invitation single. An
  invitation revoked or accepted while it is sent anew mails a link that leads nowhere.
  Whether a mail could be queued is not told. An account made at Keycloak whose
  registration failed later makes every further invitation of that address useless.
- *Administration*: a stale form overwrites a purchase; `toFixed(2)` rounds quotas
  nobody touched; a ban pardons first and creates then, so a failed create lifts
  the earlier ban; a suspension ends only with the user's own `/me`.
- *Recognition*: a purge during a running job leaves detections and crops; a failed
  counter update is only logged; a merge reads its target before the lock; the
  faces of a deleted group stay unassigned.
- *Email queue*: a message is sent before its row is marked; a process that dies in
  between sends it again.

## 9. Not modelled

- One API process, as deployed. Its database role bypasses row-level security.
- One user's files; every file has size 1 or 2; ids are fresh. Whether a name is
  taken is a nondeterministic outcome of the insert.
- AES-GCM, framing and nonces are abstracted to "encrypted under".
- `DriveMigration` leaves out the rate limit, reparenting and name checks;
  `Reconciliation` recognition crops and abandoned multipart uploads; nothing ages
  while a scan runs.
- `UploadSessions`: the quota check at opening, MIME types, the redirect, notices.
- `FileBrowser`: renaming, sorting, paging, read-only impersonation. `PaidOrders`:
  PayPal's own retries beyond one late and one double delivery. `ExpansionRequest`: a
  database error between the quota's take-back and the status, which repeats it.
  `Registration`: reminder mails and the premium trial. `UserAdmin`, `UserBans`: roles,
  renaming (in KeyRotation), deletion of accounts, banned addresses. `AccessRequest`:
  the settings of the caps; a cap is a nondeterministic outcome. `Invitations`: quotas,
  grants and the choice of a drive, the daily cap, the brokered first login, and the
  denial of a request with its refund; that a link is too late is a refusal that
  changes nothing, possible at any time.
- Not at all: everything that is one SQL statement, an HTTP client, parsing,
  rendering or arithmetic - alarms and metrics and their pages, shares, search,
  preferences, API keys and rate limits, the WebDAV front end, inbound mail,
  file-server links, invoices as PDF, pricing and infrastructure pages, the
  recognition service, deployment. The email queue and the bandwidth limiter are
  one loop and one mutex each. `components` in `PROJECT.json` gives the reason for
  each.

## 10. Plan

1. `FileVault` with moves: a promise in which a file may be out of reach for a
   while, for `DriveMigration` and `StorageSystem` to implement.
2. Uploads end to end: `WebUpload`'s requests against `UploadSessions`, and that as
   another upload of `FileStore` under scan and migration.
3. Several sessions against one quota; recognition crops in the scan; file-server
   links.
