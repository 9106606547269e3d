---------------------------- MODULE KeyRotation ----------------------------
(***************************************************************************)
(* Master-key rotation of the API server: the master_keys and users tables,*)
(* the in-memory key cache of EncryptionService, the rotation scheduler    *)
(* (one goroutine per process), and the request handlers that race it -    *)
(* registration, admin rename and delete, and reads through the user-row   *)
(* cache of FileService.                                                   *)
(*                                                                         *)
(* A user's AES key is wrapped under one master-key version.  Rotation     *)
(* activates the next version, re-wraps every user in pages of BatchSize,  *)
(* counts who is left, and destroys the old version in memory and then in  *)
(* the database.  A key destroyed too early makes a user's files           *)
(* unreadable for ever.                                                    *)
(*                                                                         *)
(* Every database statement may fail (bounded by MaxFaults) and the        *)
(* process may die between any two steps (bounded by MaxCrashes).          *)
(***************************************************************************)
EXTENDS Naturals, FiniteSets, Sequences

CONSTANTS
  Names,         \* usernames, the primary key of the users table
  MaxUsers,      \* bound: rows ever inserted into users
  MaxVersion,    \* bound: master-key versions v1 .. vMaxVersion
  BatchSize,     \* LIMIT of one re-wrap page (50 in the code)
  InitialUsers,  \* names registered under v1 before the model starts
  Registrants,   \* names that may register while the model runs
  Readers,       \* names whose files are read through the user-row cache
  AdminOps,      \* which of "rename", "delete" administrators use
  MaxFaults,     \* bound: failing database statements
  MaxCrashes,    \* bound: process deaths
  NoName

ASSUME KeyRotationAssumption ==
  /\ NoName \notin Names
  /\ MaxUsers \in Nat
  /\ MaxVersion \in Nat \ {0}
  /\ BatchSize \in Nat \ {0}
  /\ InitialUsers \in Seq(Names)
  /\ Len(InitialUsers) <= MaxUsers
  /\ \A i, j \in 1 .. Len(InitialUsers) : InitialUsers[i] = InitialUsers[j] => i = j
  /\ Registrants \subseteq Names
  /\ Readers \subseteq Names
  /\ MaxFaults \in Nat
  /\ MaxCrashes \in Nat

Versions == 1 .. MaxVersion
Ids == 1 .. MaxUsers      \* users rows in created_at order

VARIABLES
  \* The database.
  status,      \* master_keys.status per version; "none" = no row
  log,         \* key_rotation_log.status, by old_key_version
  owner,       \* users.username per row; NoName = no such row (any more)
  ver,         \* users.master_key_version; 0 = row not yet inserted
  key,         \* whose AES key users.encrypted_key wraps
  \* EncryptionService, and FileService.userCache.
  memKeys,     \* versions whose key bytes are cached
  activeVer,   \* version ProvisionUserKey and WrapUserKey use; 0 = none
  cachedVer,   \* master_key_version of the cached user row; 0 = not cached
  \* The scheduler goroutine.
  pc,
  old,         \* the version being retired by the current job
  resuming,    \* the job comes from resumeIncomplete, not RotateMasterKey
  todo,        \* retiring versions resumeIncomplete has still to visit
  page,        \* rows of the current page not yet re-wrapped
  offset,      \* the page cursor
  \* Registration handlers: version a name's new key was wrapped under.
  pending,
  \* The environment.
  aged,        \* the active key has reached rotationAge
  faults, crashes,
  late         \* history: rows inserted under a key no longer active

dbVars == <<status, log, owner, ver, key>>
memVars == <<memKeys, activeVer>>
jobVars == <<old, resuming, todo, page, offset>>
envVars == <<aged, faults, crashes>>
vars == <<dbVars, memVars, cachedVer, pc, jobVars, pending, envVars, late>>

Working == {"list", "wrap", "verify", "remove", "purge", "finalise"}
Up == pc # "down"

Live == {i \in Ids : owner[i] # NoName}
OnVersion(v) == {i \in Live : ver[i] = v}
Taken(n) == \E i \in Live : owner[i] = n
Unborn == {i \in Ids : ver[i] = 0}

(* ListUsersOnKeyVersion: rows on v ordered by created_at, LIMIT/OFFSET.   *)
PageAt(v, off) ==
  {i \in OnVersion(v) :
     Cardinality({j \in OnVersion(v) : j < i}) \in off .. (off + BatchSize - 1)}

Rows == [id : Ids, name : Names, key : 0 .. MaxUsers]

(* Forms these operators would take in a faulty program; the runs'         *)
(* properties are tested against them.                                     *)
LoadableActiveOnly == {v \in Versions : status[v] = "active"}
UnfinishedIgnored == {}
UnfinishedActive == {v \in Versions : status[v] \in {"active", "retiring"}}
RotatedMistyped(v) == [status EXCEPT ![v] = "retired", ![v + 1] = "active"]
OpenedCompleted == "completed"
MatchingAllRows(r) == Live
WrappingOld == old
CompleteUnchecked == TRUE
EvictingActive(v) == memKeys \ {activeVer}

(* The keys LoadMasterKeys decrypts into the cache.                        *)
Loadable == {v \in Versions : status[v] \in {"active", "retiring"}}

(* The keys resumeIncomplete has to finish.                                *)
Unfinished == {v \in Versions : status[v] = "retiring"}

(* RetireAndCreateMasterKey: both updates, in one transaction.             *)
Rotated(v) == [status EXCEPT ![v] = "retiring", ![v + 1] = "active"]

(* The status CreateKeyRotationLog inserts.                                *)
Opened == "failed"

(* UpdateUserEncryptionKey: the rows its WHERE clause selects.             *)
Matching(r) == {i \in Live : owner[i] = r.name}

(* WrapUserKey: the version a key is wrapped under.                        *)
Wrapping == activeVer

(* verifyComplete.                                                         *)
Complete == OnVersion(old) = {}

(* RemoveMasterKey: what is left in the cache.                             *)
Evicting(v) == memKeys \ {v}

Init ==
  LET n == Len(InitialUsers)
  IN  /\ status = [v \in Versions |-> IF v = 1 /\ n > 0 THEN "active" ELSE "none"]
      /\ log = [v \in Versions |-> "none"]
      /\ owner = [i \in Ids |-> IF i <= n THEN InitialUsers[i] ELSE NoName]
      /\ ver = [i \in Ids |-> IF i <= n THEN 1 ELSE 0]
      /\ key = [i \in Ids |-> IF i <= n THEN i ELSE 0]
      /\ memKeys = {} /\ activeVer = 0
      /\ cachedVer = [m \in Names |-> 0]
      /\ pc = "down"
      /\ old = 0 /\ resuming = FALSE /\ todo = {} /\ page = {} /\ offset = 0
      /\ pending = [m \in Names |-> 0]
      /\ aged = FALSE /\ faults = 0 /\ crashes = 0
      /\ late = {}

----------------------------------------------------------------------------
(* Process start and death.                                                *)

(* LoadMasterKeys, bootstrapping v1 into an empty table.  A failure exits  *)
(* the process again (log.Fatalf), so only the successful start is a step. *)
Boot ==
  /\ pc = "down"
  /\ IF \E v \in Versions : status[v] = "active"
       THEN /\ activeVer' = CHOOSE v \in Versions : status[v] = "active"
            /\ memKeys' = Loadable
            /\ UNCHANGED status
       ELSE /\ status' = [status EXCEPT ![1] = "active"]
            /\ activeVer' = 1
            /\ memKeys' = {1}
  /\ pc' = "resume"
  /\ UNCHANGED <<log, owner, ver, key, cachedVer, jobVars, pending, envVars, late>>

(* Every in-memory value is lost: the key cache, the row cache, the job    *)
(* and the registrations in flight.                                        *)
Crash ==
  /\ Up /\ crashes < MaxCrashes
  /\ crashes' = crashes + 1
  /\ pc' = "down"
  /\ memKeys' = {} /\ activeVer' = 0
  /\ cachedVer' = [m \in Names |-> 0]
  /\ pending' = [m \in Names |-> 0]
  /\ old' = 0 /\ resuming' = FALSE /\ todo' = {} /\ page' = {} /\ offset' = 0
  /\ UNCHANGED <<dbVars, aged, faults, late>>

----------------------------------------------------------------------------
(* The scheduler.                                                          *)

Fault == faults < MaxFaults /\ faults' = faults + 1

(* Where a job that gives up continues: resumeIncomplete moves on to the   *)
(* next retiring key, RotateMasterKey returns to the scheduler's loop.     *)
GiveUp ==
  /\ pc' = IF resuming THEN "next" ELSE "idle"
  /\ page' = {} /\ offset' = 0 /\ old' = 0
  /\ UNCHANGED <<resuming, todo>>

(* resumeIncomplete, the listing of retiring keys.                         *)
ResumeList ==
  /\ pc = "resume"
  /\ todo' = Unfinished
  /\ resuming' = (todo' # {})
  /\ pc' = IF todo' = {} THEN "idle" ELSE "next"
  /\ UNCHANGED <<dbVars, memVars, cachedVer, old, page, offset, pending, envVars, late>>

ResumeListFails ==
  /\ pc = "resume" /\ Fault
  /\ pc' = "idle"
  /\ UNCHANGED <<dbVars, memVars, cachedVer, jobVars, pending, aged, crashes, late>>

(* resumeIncomplete, one iteration: purge at once when nobody is left on   *)
(* the key, re-wrap otherwise.  A count that fails skips the key.          *)
ResumeNext(v) ==
  /\ pc = "next" /\ v \in todo
  /\ todo' = todo \ {v}
  /\ \/ /\ old' = v
        /\ pc' = IF OnVersion(v) = {} THEN "remove" ELSE "list"
        /\ UNCHANGED <<resuming, faults>>
     \/ /\ Fault
        /\ UNCHANGED <<pc, resuming, old>>
  /\ UNCHANGED <<dbVars, memVars, cachedVer, page, offset, pending, aged, crashes, late>>

ResumeDone ==
  /\ pc = "next" /\ todo = {}
  /\ pc' = "idle" /\ resuming' = FALSE
  /\ UNCHANGED <<dbVars, memVars, cachedVer, old, todo, page, offset, pending, envVars, late>>

(* The active key reaches rotationAge.                                     *)
KeyAges ==
  /\ ~aged
  /\ \E v \in Versions : status[v] = "active" /\ v < MaxVersion
  /\ aged' = TRUE
  /\ UNCHANGED <<dbVars, memVars, cachedVer, pc, jobVars, pending, faults, crashes, late>>

(* checkAndRotate, then CreateAndActivateMasterKey: one transaction retires*)
(* the active version and inserts its successor, then the successor is     *)
(* cached.  The transaction can fail, or commit although the client sees   *)
(* an error ("lost"): the database has rotated and memory has not.  A      *)
(* successor that already exists violates the primary key.                 *)
RotateStart ==
  /\ pc = "idle" /\ aged /\ activeVer < MaxVersion
  /\ LET new == activeVer + 1
         rotated == Rotated(activeVer)
     IN  /\ status[new] = "none"
         /\ \/ /\ status' = rotated /\ aged' = FALSE
               /\ memKeys' = memKeys \cup {new} /\ activeVer' = new
               /\ old' = activeVer /\ pc' = "log"
               /\ UNCHANGED faults
            \/ /\ Fault
               /\ \/ status' = rotated /\ aged' = FALSE
                  \/ UNCHANGED <<status, aged>>
               /\ UNCHANGED <<memVars, old, pc>>
  /\ UNCHANGED <<log, owner, ver, key, cachedVer, resuming, todo, page, offset,
                 pending, crashes, late>>

(* CreateKeyRotationLog: the row starts as "failed".  Without it the       *)
(* rotation returns, leaving the old key retiring.                         *)
OpenLog ==
  /\ pc = "log"
  /\ \/ /\ log' = [log EXCEPT ![old] = Opened]
        /\ pc' = "list"
        /\ UNCHANGED <<jobVars, faults>>
     \/ Fault /\ GiveUp /\ UNCHANGED log
  /\ UNCHANGED <<status, owner, ver, key, memVars, cachedVer, pending, aged, crashes, late>>

(* rewrapUsers, one page.                                                  *)
ListPage ==
  /\ pc = "list"
  /\ LET rows == PageAt(old, offset)
     IN  /\ page' = {[id |-> i, name |-> owner[i], key |-> key[i]] : i \in rows}
         /\ pc' = IF rows = {} THEN "verify" ELSE "wrap"
         \* offsetNextToken: only a full page has a successor.
         /\ offset' = IF Cardinality(rows) < BatchSize THEN 0 ELSE offset + BatchSize
  /\ UNCHANGED <<dbVars, memVars, cachedVer, old, resuming, todo, pending, envVars, late>>

(* rewrapBatch, one row, oldest first.  The row was read with the page;    *)
(* UpdateUserEncryptionKey addresses it by username and checks nothing.    *)
(* The row's version is old, so decrypting needs old in the cache.         *)
RewrapUser(r) ==
  /\ pc = "wrap" /\ r \in page
  /\ \A s \in page : r.id <= s.id
  /\ old \in memKeys
  /\ ver' = [i \in Ids |-> IF i \in Matching(r) THEN Wrapping ELSE ver[i]]
  /\ key' = [i \in Ids |-> IF i \in Matching(r) THEN r.key ELSE key[i]]
  /\ page' = page \ {r}
  /\ pc' = IF page' # {} THEN "wrap" ELSE IF offset = 0 THEN "verify" ELSE "list"
  /\ UNCHANGED <<status, log, owner, memVars, cachedVer, old, resuming, todo, offset,
                 pending, envVars, late>>

(* verifyComplete: nobody may be left on the old version.                  *)
Verify ==
  /\ pc = "verify"
  /\ IF Complete
       THEN pc' = "remove" /\ offset' = 0 /\ UNCHANGED <<old, resuming, todo, page>>
       ELSE GiveUp
  /\ UNCHANGED <<dbVars, memVars, cachedVer, pending, envVars, late>>

(* A listing, an update or the verifying count fails.  finaliseLog writes  *)
(* "failed" over "failed".                                                 *)
JobFails ==
  /\ pc \in {"list", "wrap", "verify"} /\ Fault /\ GiveUp
  /\ UNCHANGED <<dbVars, memVars, cachedVer, pending, aged, crashes, late>>

(* RemoveMasterKey: zeroed and dropped from the cache.                     *)
RemoveKey ==
  /\ pc = "remove"
  /\ memKeys' = Evicting(old)
  /\ pc' = "purge"
  /\ UNCHANGED <<dbVars, activeVer, cachedVer, jobVars, pending, envVars, late>>

(* PurgeMasterKey.  A failure is only logged: the row stays "retiring".    *)
PurgeKey ==
  /\ pc = "purge"
  /\ \/ status' = [status EXCEPT ![old] = "deleted"] /\ UNCHANGED faults
     \/ Fault /\ UNCHANGED status
  /\ IF resuming THEN pc' = "next" /\ old' = 0 ELSE pc' = "finalise" /\ UNCHANGED old
  /\ UNCHANGED <<log, owner, ver, key, memVars, cachedVer, resuming, todo, page, offset,
                 pending, aged, crashes, late>>

(* finaliseLog(completed).  A failure is only logged.                      *)
Finalise ==
  /\ pc = "finalise"
  /\ \/ log' = [log EXCEPT ![old] = "completed"] /\ UNCHANGED faults
     \/ Fault /\ UNCHANGED log
  /\ GiveUp
  /\ UNCHANGED <<status, owner, ver, key, memVars, cachedVer, pending, aged, crashes, late>>

----------------------------------------------------------------------------
(* The handlers that race it.                                              *)

(* ProvisionUserKey: a new AES key wrapped under the active version.       *)
Provision(n) ==
  /\ Up /\ n \in Registrants
  /\ pending[n] = 0 /\ ~Taken(n)
  /\ activeVer \in memKeys
  /\ pending' = [pending EXCEPT ![n] = activeVer]
  /\ UNCHANGED <<dbVars, memVars, cachedVer, pc, jobVars, envVars, late>>

(* CreateUser inserts the wrapped key later in the same handler; a taken   *)
(* name violates the primary key.                                          *)
CreateUser(n) ==
  /\ pending[n] # 0
  /\ pending' = [pending EXCEPT ![n] = 0]
  /\ \/ /\ Taken(n)
        /\ UNCHANGED <<owner, ver, key, late>>
     \/ /\ ~Taken(n)
        /\ \E i \in Unborn :
             /\ \A u \in Unborn : i <= u
             /\ owner' = [owner EXCEPT ![i] = n]
             /\ ver' = [ver EXCEPT ![i] = pending[n]]
             /\ key' = [key EXCEPT ![i] = i]
             /\ late' = IF pending[n] = activeVer THEN late ELSE late \cup {i}
  /\ UNCHANGED <<status, log, memVars, cachedVer, pc, jobVars, envVars>>

(* Any step between the two fails (no drive with capacity, a database      *)
(* error) and the handler returns.                                         *)
AbandonRegistration(n) ==
  /\ pending[n] # 0
  /\ pending' = [pending EXCEPT ![n] = 0]
  /\ UNCHANGED <<dbVars, memVars, cachedVer, pc, jobVars, envVars, late>>

(* RenameUser; the new name must be free.                                  *)
RenameUser(i, n) ==
  /\ Up /\ "rename" \in AdminOps
  /\ i \in Live /\ ~Taken(n)
  /\ owner' = [owner EXCEPT ![i] = n]
  /\ UNCHANGED <<status, log, ver, key, memVars, cachedVer, pc, jobVars, pending, envVars, late>>

(* DeleteUserRecord.                                                       *)
DeleteUser(i) ==
  /\ Up /\ "delete" \in AdminOps
  /\ i \in Live
  /\ owner' = [owner EXCEPT ![i] = NoName]
  /\ UNCHANGED <<status, log, ver, key, memVars, cachedVer, pc, jobVars, pending, envVars, late>>

(* FileService.userKey on a cache miss: the row is cached whether or not   *)
(* the unwrap that follows succeeds.  A hit changes nothing.               *)
CacheRow(i) ==
  /\ Up /\ i \in Live /\ owner[i] \in Readers /\ cachedVer[owner[i]] = 0
  /\ cachedVer' = [cachedVer EXCEPT ![owner[i]] = ver[i]]
  /\ UNCHANGED <<dbVars, memVars, pc, jobVars, pending, envVars, late>>

(* userCacheTTL passes.                                                    *)
ExpireRow(n) ==
  /\ cachedVer[n] # 0
  /\ cachedVer' = [cachedVer EXCEPT ![n] = 0]
  /\ UNCHANGED <<dbVars, memVars, pc, jobVars, pending, envVars, late>>

----------------------------------------------------------------------------
SchedulerStep ==
  \/ ResumeList \/ (\E v \in Versions : ResumeNext(v)) \/ ResumeDone
  \/ RotateStart \/ OpenLog \/ ListPage \/ (\E r \in page : RewrapUser(r))
  \/ Verify \/ RemoveKey \/ PurgeKey \/ Finalise

Next ==
  \/ Boot \/ Crash \/ KeyAges
  \/ SchedulerStep \/ ResumeListFails \/ JobFails
  \/ \E n \in Names :
       Provision(n) \/ CreateUser(n) \/ AbandonRegistration(n) \/ ExpireRow(n)
  \/ \E i \in Ids : DeleteUser(i) \/ CacheRow(i) \/ \E n \in Names : RenameUser(i, n)

Spec == Init /\ [][Next]_vars

(* The container is restarted when the process exits, and the scheduler    *)
(* goroutine runs.  Nobody is obliged to register, read or administer.     *)
FairSpec == Spec /\ WF_vars(Boot) /\ WF_vars(SchedulerStep)

----------------------------------------------------------------------------
(* Type invariant of the database rows, the caches and the job.            *)
TypeOK ==
  /\ status \in [Versions -> {"none", "active", "retiring", "deleted"}]
  /\ log \in [Versions -> {"none", "failed", "completed"}]
  /\ owner \in [Ids -> Names \cup {NoName}]
  /\ ver \in [Ids -> 0 .. MaxVersion]
  /\ key \in [Ids -> 0 .. MaxUsers]
  /\ memKeys \subseteq Versions
  /\ activeVer \in 0 .. MaxVersion
  /\ cachedVer \in [Names -> 0 .. MaxVersion]
  /\ pc \in Working \cup {"down", "resume", "next", "idle", "log"}
  /\ old \in 0 .. MaxVersion
  /\ resuming \in BOOLEAN
  /\ todo \subseteq Versions
  /\ page \subseteq Rows
  /\ offset \in Nat
  /\ pending \in [Names -> 0 .. MaxVersion]
  /\ aged \in BOOLEAN
  /\ faults \in Nat
  /\ crashes \in Nat
  /\ late \subseteq Ids

(* While the server is up, the master key of every user - except one whose *)
(* registration outlived its key - is in memory: neither rotation, nor a   *)
(* crash, nor a failed statement in the middle of either makes a user's    *)
(* files unreadable.                                                       *)
KeysHeld == Up => \A i \in Live \ late : ver[i] \in memKeys

(* Key material is destroyed in the database only when no user is left on  *)
(* it, late registrations apart: verifyComplete and resumeIncomplete gate  *)
(* every purge.                                                            *)
StrandedOnlyLate == \A i \in Live : status[ver[i]] = "deleted" => i \in late

(* The key new users are wrapped under is usable and will be there after a *)
(* restart; the partial unique index and the single transaction of         *)
(* RetireAndCreateMasterKey leave exactly one active row.                  *)
ActiveUsable ==
  Up => /\ activeVer \in memKeys
        /\ status[activeVer] \in {"active", "retiring"}
        /\ \E v \in Versions : \A w \in Versions : (status[w] = "active") <=> (w = v)

(* A rotation logged as completed left nobody behind on the old version.   *)
LogHonest == \A v \in Versions : log[v] = "completed" => OnVersion(v) \subseteq late

(* Re-wrapping only moves a user forward: a stale page, a resumed job or a *)
(* job of an earlier rotation never puts a row back on an older version.   *)
NoDowngrade == [][\A i \in Ids : ver[i] <= ver'[i]]_vars

(* "The user key itself does not change, only its wrapping": a row wraps   *)
(* the AES key its files were encrypted with.  rewrapBatch writes by       *)
(* username what it read a page ago, so this needs names that keep their   *)
(* owner.                                                                  *)
OwnKey == \A i \in Live : key[i] = i

(* A read through a cached user row can miss its master key only because   *)
(* the row is stale: nobody who registered in time is on that version any  *)
(* more, so the database row already names a key that is held.             *)
CachedMissIsStale ==
  Up => \A n \in Names :
          \/ cachedVer[n] \in memKeys \cup {0}
          \/ OnVersion(cachedVer[n]) \subseteq late

(* A key that is retiring is eventually destroyed - also when the process  *)
(* dies in the middle - unless the scheduler has gone back to sleep with   *)
(* users still on it.                                                      *)
RetiringResolved ==
  \A v \in Versions :
    status[v] = "retiring" ~>
      \/ status[v] = "deleted"
      \/ pc = "idle" /\ OnVersion(v) # {}

----------------------------------------------------------------------------
(* The inductive invariant behind the safety properties above, in parts.   *)

(* One key is active - or none, before the first start, and then there is  *)
(* nothing else either.  No version is in use beyond the active one.       *)
OneActive ==
  \/ /\ \A v \in Versions : status[v] = "none"
     /\ Live = {} /\ pc = "down"
  \/ \E v \in Versions :
       /\ status[v] = "active"
       /\ \A w \in Versions : w # v => status[w] # "active"
       /\ \A w \in Versions : w > v => status[w] = "none"

(* Memory and database agree on the active key, except when a rotation     *)
(* committed and reported an error; then no job runs until a restart.      *)
ActiveAgrees ==
  /\ ~Up => \A n \in Names : pending[n] = 0
  /\ Up => /\ activeVer \in memKeys
           /\ \/ status[activeVer] = "active"
              \/ /\ pc = "idle" /\ status[activeVer] = "retiring"
                 /\ activeVer + 1 \in Versions /\ status[activeVer + 1] = "active"
  /\ \A n \in Names : pending[n] # 0 => status[pending[n]] # "none"

(* A job works on a retiring key, never on the active one.                 *)
JobOnRetiring ==
  /\ pc \in {"log", "list", "wrap", "verify", "remove", "purge"} =>
       old \in Versions \ todo /\ status[old] = "retiring"
  /\ pc = "finalise" => old \in Versions /\ status[old] \in {"retiring", "deleted"}
  /\ pc \in {"down", "resume", "idle", "log", "finalise"} => ~resuming
  /\ ~resuming => todo = {}
  /\ \A v \in todo : status[v] = "retiring"

(* From the verifying count to the end of the job the old key is unused.   *)
Verified == pc \in {"remove", "purge", "finalise"} => OnVersion(old) \subseteq late

(* Every user but a late one is on a key whose material exists.            *)
RowsUsable ==
  \A i \in Live :
    /\ ver[i] \in Versions /\ status[ver[i]] # "none"
    /\ i \notin late => status[ver[i]] \in {"active", "retiring"}

(* A completed rotation is over for good.                                  *)
CompletedRetired ==
  \A v \in Versions :
    log[v] = "completed" => /\ status[v] \in {"retiring", "deleted"}
                            /\ Up => v # activeVer

Strengthening ==
  /\ OneActive /\ ActiveAgrees /\ JobOnRetiring /\ Verified /\ RowsUsable
  /\ CompletedRetired

(* Without administrative renames and deletions: names identify rows, and  *)
(* a page still describes the rows it was read from.                       *)
NamesKept ==
  /\ \A i, j \in Live : owner[i] = owner[j] => i = j
  /\ \A r \in page : r.id \in Live /\ owner[r.id] = r.name /\ r.key = r.id

----------------------------------------------------------------------------
(* What the comments say, and the code does not do: refuted by a run.      *)

(* key_rotation.go: "Re-wrap all user keys in batches of batchSize."       *)
RewrapCoversAll == pc = "verify" => OnVersion(old) = {}

============================================================================
