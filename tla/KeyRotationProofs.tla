------------------------- MODULE KeyRotationProofs -------------------------
(***************************************************************************)
(* Theorems about KeyRotation, for every set of names, every number of     *)
(* versions, every page size and every number of faults and crashes.       *)
(*                                                                         *)
(* Type correctness comes first; the safety properties follow from the     *)
(* inductive invariant IInv, preserved action by action.                   *)
(***************************************************************************)
EXTENDS KeyRotation, TLAPS

USE DEF Versions, Ids

(* Every reachable state is well typed: the scheduler, the handlers and a  *)
(* crash leave rows, caches and job variables in their domains.            *)
THEOREM TypeCorrect == Spec => []TypeOK
<1>1. Init => TypeOK
  <2> SUFFICES ASSUME Init
               PROVE  TypeOK
    OBVIOUS
  <2>1. /\ MaxUsers \in Nat /\ MaxVersion \in Nat \ {0}
        /\ \A i \in 1 .. Len(InitialUsers) : InitialUsers[i] \in Names
        /\ Len(InitialUsers) \in Nat
    BY KeyRotationAssumption
  <2>2. owner \in [Ids -> Names \cup {NoName}]
    BY <2>1 DEF Init
  <2>3. ver \in [Ids -> 0 .. MaxVersion] /\ key \in [Ids -> 0 .. MaxUsers]
    BY <2>1 DEF Init
  <2>4. /\ status \in [Versions -> {"none", "active", "retiring", "deleted"}]
        /\ log \in [Versions -> {"none", "failed", "completed"}]
    BY <2>1 DEF Init
  <2>5. /\ cachedVer \in [Names -> 0 .. MaxVersion]
        /\ pending \in [Names -> 0 .. MaxVersion]
    BY <2>1 DEF Init
  <2>6. /\ memKeys = {} /\ activeVer = 0 /\ pc = "down" /\ old = 0 /\ resuming = FALSE
        /\ todo = {} /\ page = {} /\ offset = 0 /\ aged = FALSE /\ faults = 0
        /\ crashes = 0 /\ late = {}
    BY DEF Init
  <2>7. /\ memKeys \subseteq Versions /\ todo \subseteq Versions
        /\ page \subseteq Rows /\ late \subseteq Ids
    BY <2>6
  <2>8. /\ activeVer \in 0 .. MaxVersion /\ old \in 0 .. MaxVersion
        /\ offset \in Nat /\ faults \in Nat /\ crashes \in Nat
    BY <2>1, <2>6
  <2>9. QED
    BY <2>2, <2>3, <2>4, <2>5, <2>6, <2>7, <2>8 DEF TypeOK, Working
<1>2. TypeOK /\ [Next]_vars => TypeOK'
  <2> SUFFICES ASSUME TypeOK, [Next]_vars
               PROVE  TypeOK'
    OBVIOUS
  <2>0. MaxUsers \in Nat /\ MaxVersion \in Nat \ {0} /\ BatchSize \in Nat \ {0}
    BY KeyRotationAssumption
  <2> USE <2>0 DEF TypeOK, Working, dbVars, memVars, jobVars, envVars
  <2>1. CASE Boot
    <3>1. status' \in [Versions -> {"none", "active", "retiring", "deleted"}]
      BY <2>1 DEF Boot
    <3>2. activeVer' \in 0 .. MaxVersion /\ memKeys' \subseteq Versions
      <4>1. CASE \E v \in Versions : status[v] = "active"
        <5>1. (CHOOSE v \in Versions : status[v] = "active") \in Versions
          BY <4>1
        <5>2. activeVer' \in Versions
          BY <2>1, <4>1, <5>1 DEF Boot
        <5>3. memKeys' \subseteq Versions
          BY <2>1, <4>1 DEF Boot, Loadable
        <5>4. QED
          BY <5>2, <5>3
      <4>2. CASE ~ \E v \in Versions : status[v] = "active"
        <5>1. activeVer' = 1 /\ memKeys' = {1}
          BY <2>1, <4>2 DEF Boot
        <5>2. QED
          BY <5>1
      <4>3. QED
        BY <4>1, <4>2
    <3>3. /\ pc' = "resume"
          /\ UNCHANGED <<log, owner, ver, key, cachedVer, jobVars, pending, envVars, late>>
      BY <2>1 DEF Boot
    <3>4. QED
      BY <3>1, <3>2, <3>3
  <2>2. CASE Crash
    <3>1. /\ cachedVer' \in [Names -> 0 .. MaxVersion]
          /\ pending' \in [Names -> 0 .. MaxVersion]
      BY <2>2 DEF Crash
    <3>2. /\ crashes' \in Nat /\ pc' = "down" /\ memKeys' = {} /\ activeVer' = 0
          /\ old' = 0 /\ resuming' = FALSE /\ todo' = {} /\ page' = {} /\ offset' = 0
          /\ UNCHANGED <<dbVars, aged, faults, late>>
      BY <2>2 DEF Crash
    <3>3. memKeys' \subseteq Versions /\ todo' \subseteq Versions /\ page' \subseteq Rows
      BY <3>2
    <3>4. activeVer' \in 0 .. MaxVersion /\ old' \in 0 .. MaxVersion
      BY <3>2
    <3>5. resuming' \in BOOLEAN /\ offset' \in Nat
      BY <3>2
    <3>6. QED
      BY <3>1, <3>2, <3>3, <3>4, <3>5
  <2>3. CASE KeyAges
    BY <2>3 DEF KeyAges
  <2>4. CASE ResumeList
    BY <2>4 DEF ResumeList, Unfinished
  <2>5. ASSUME NEW v \in Versions, ResumeNext(v)
        PROVE  TypeOK'
    <3>1. todo' = todo \ {v} /\ v \in Versions
      BY <2>5 DEF ResumeNext
    <3>2. /\ pc' \in {"next", "remove", "list"} /\ old' \in {old, v}
          /\ resuming' = resuming /\ faults' \in {faults, faults + 1}
      BY <2>5 DEF ResumeNext, Fault
    <3>3. UNCHANGED <<dbVars, memVars, cachedVer, page, offset, pending, aged, crashes, late>>
      BY <2>5 DEF ResumeNext
    <3>4. old' \in 0 .. MaxVersion /\ faults' \in Nat /\ todo' \subseteq Versions
      BY <3>1, <3>2
    <3>5. QED
      BY <3>2, <3>3, <3>4
  <2>6. CASE ResumeDone
    BY <2>6 DEF ResumeDone
  <2>7. CASE RotateStart
    <3>1. /\ status' \in [Versions -> {"none", "active", "retiring", "deleted"}]
          /\ aged' \in BOOLEAN
      BY <2>7 DEF RotateStart, Rotated, Fault
    <3>2. /\ pc = "idle"
          /\ \/ /\ memKeys' = memKeys \cup {activeVer + 1} /\ activeVer' = activeVer + 1
                /\ old' = activeVer /\ pc' = "log" /\ faults' = faults
             \/ /\ faults' = faults + 1
                /\ UNCHANGED <<memKeys, activeVer, old, pc>>
      BY <2>7 DEF RotateStart, Fault
    <3>6. activeVer + 1 \in Versions
      BY <2>7 DEF RotateStart
    <3>3. /\ memKeys' \subseteq Versions /\ activeVer' \in 0 .. MaxVersion
          /\ old' \in 0 .. MaxVersion /\ pc' \in {"idle", "log"} /\ faults' \in Nat
      <4>1. memKeys' \subseteq Versions
        BY <3>2, <3>6
      <4>2. activeVer' \in 0 .. MaxVersion /\ old' \in 0 .. MaxVersion
        BY <3>2, <3>6
      <4>3. pc' \in {"idle", "log"}
        BY <3>2
      <4>4. faults' \in Nat
        BY <3>2
      <4>5. QED
        BY <4>1, <4>2, <4>3, <4>4
    <3>4. UNCHANGED <<log, owner, ver, key, cachedVer, resuming, todo, page, offset,
                      pending, crashes, late>>
      BY <2>7 DEF RotateStart
    <3>5. QED
      BY <3>1, <3>3, <3>4
  <2>8. CASE OpenLog
    <3>1. log' \in [Versions -> {"none", "failed", "completed"}] /\ faults' \in Nat
      BY <2>8 DEF OpenLog, Opened, Fault
    <3>2. /\ pc' \in {"next", "idle", "list"} /\ old' \in 0 .. MaxVersion
          /\ page' \subseteq page /\ offset' \in Nat /\ todo' = todo /\ resuming' = resuming
      BY <2>8 DEF OpenLog, GiveUp
    <3>3. UNCHANGED <<status, owner, ver, key, memVars, cachedVer, pending, aged,
                      crashes, late>>
      BY <2>8 DEF OpenLog
    <3>4. QED
      BY <3>1, <3>2, <3>3
  <2>9. CASE ListPage
    <3> DEFINE rows == PageAt(old, offset)
    <3>1. /\ \A i \in rows : i \in Ids /\ owner[i] \in Names /\ key[i] \in 0 .. MaxUsers
      BY DEF PageAt, OnVersion, Live
    <3>2. page' \subseteq Rows
      BY <2>9, <3>1 DEF ListPage, Rows
    <3>3. offset' \in Nat
      BY <2>9 DEF ListPage
    <3>4. QED
      BY <2>9, <3>2, <3>3 DEF ListPage
  <2>10. ASSUME NEW r \in page, RewrapUser(r)
         PROVE  TypeOK'
    <3>1. ver' \in [Ids -> 0 .. MaxVersion] /\ key' \in [Ids -> 0 .. MaxUsers]
      BY <2>10 DEF RewrapUser, Wrapping, Rows
    <3>2. page' \subseteq page /\ pc' \in {"wrap", "verify", "list"}
      BY <2>10 DEF RewrapUser
    <3>3. UNCHANGED <<status, log, owner, memVars, cachedVer, old, resuming, todo,
                      offset, pending, envVars, late>>
      BY <2>10 DEF RewrapUser
    <3>4. QED
      BY <3>1, <3>2, <3>3
  <2>11. CASE Verify
    <3>1. /\ pc' \in {"next", "idle", "remove"} /\ old' \in 0 .. MaxVersion
          /\ page' \subseteq page /\ offset' = 0 /\ todo' = todo /\ resuming' = resuming
      BY <2>11 DEF Verify, GiveUp
    <3>2. UNCHANGED <<dbVars, memVars, cachedVer, pending, envVars, late>>
      BY <2>11 DEF Verify
    <3>3. QED
      BY <3>1, <3>2
  <2>12. CASE RemoveKey
    BY <2>12 DEF RemoveKey, Evicting
  <2>13. CASE PurgeKey
    <3>1. /\ status' \in [Versions -> {"none", "active", "retiring", "deleted"}]
          /\ faults' \in Nat
      <4>1. CASE /\ status' = [status EXCEPT ![old] = "deleted"]
                 /\ UNCHANGED faults
        BY <4>1
      <4>2. CASE Fault /\ UNCHANGED status
        <5>1. faults' = faults + 1
          BY <4>2 DEF Fault
        <5>2. QED
          BY <4>2, <5>1
      <4>3. QED
        BY <2>13, <4>1, <4>2 DEF PurgeKey
    <3>2. pc' \in {"next", "finalise"} /\ old' \in 0 .. MaxVersion
      BY <2>13 DEF PurgeKey
    <3>3. UNCHANGED <<log, owner, ver, key, memVars, cachedVer, resuming, todo, page,
                      offset, pending, aged, crashes, late>>
      BY <2>13 DEF PurgeKey
    <3>4. QED
      BY <3>1, <3>2, <3>3
  <2>14. CASE Finalise
    <3>1. log' \in [Versions -> {"none", "failed", "completed"}] /\ faults' \in Nat
      <4>1. CASE /\ log' = [log EXCEPT ![old] = "completed"]
                 /\ UNCHANGED faults
        BY <4>1
      <4>2. CASE Fault /\ UNCHANGED log
        <5>1. faults' = faults + 1
          BY <4>2 DEF Fault
        <5>2. QED
          BY <4>2, <5>1
      <4>3. QED
        BY <2>14, <4>1, <4>2 DEF Finalise
    <3>2. /\ pc' \in {"next", "idle", "list"} /\ old' \in 0 .. MaxVersion
          /\ page' \subseteq page /\ offset' \in Nat /\ todo' = todo /\ resuming' = resuming
      BY <2>14 DEF Finalise, GiveUp
    <3>3. UNCHANGED <<status, owner, ver, key, memVars, cachedVer, pending, aged,
                      crashes, late>>
      BY <2>14 DEF Finalise
    <3>4. QED
      BY <3>1, <3>2, <3>3
  <2>15. CASE ResumeListFails
    BY <2>15 DEF ResumeListFails, Fault
  <2>16. CASE JobFails
    BY <2>16 DEF JobFails, Fault, GiveUp
  <2>17. ASSUME NEW n \in Names, Provision(n)
         PROVE  TypeOK'
    BY <2>17 DEF Provision
  <2>18. ASSUME NEW n \in Names, CreateUser(n)
         PROVE  TypeOK'
    <3>1. pending' \in [Names -> 0 .. MaxVersion]
      BY <2>18 DEF CreateUser
    <3>2. UNCHANGED <<status, log, memVars, cachedVer, pc, jobVars, envVars>>
      BY <2>18 DEF CreateUser
    <3>3. CASE UNCHANGED <<owner, ver, key, late>>
      BY <3>1, <3>2, <3>3
    <3>4. ASSUME NEW i \in Unborn,
                 owner' = [owner EXCEPT ![i] = n],
                 ver' = [ver EXCEPT ![i] = pending[n]],
                 key' = [key EXCEPT ![i] = i],
                 late' = IF pending[n] = activeVer THEN late ELSE late \cup {i}
          PROVE  TypeOK'
      <4>1. i \in Ids
        BY DEF Unborn
      <4>2. /\ owner' \in [Ids -> Names \cup {NoName}] /\ ver' \in [Ids -> 0 .. MaxVersion]
            /\ key' \in [Ids -> 0 .. MaxUsers]
        BY <4>1, <3>4
      <4>3. late' \subseteq Ids
        BY <4>1, <3>4
      <4>4. QED
        BY <3>1, <3>2, <4>2, <4>3
    <3>5. QED
      BY <2>18, <3>3, <3>4 DEF CreateUser
  <2>19. ASSUME NEW n \in Names, AbandonRegistration(n)
         PROVE  TypeOK'
    BY <2>19, SMTT(30) DEF AbandonRegistration
  <2>20. ASSUME NEW n \in Names, ExpireRow(n)
         PROVE  TypeOK'
    BY <2>20 DEF ExpireRow
  <2>21. ASSUME NEW i \in Ids, DeleteUser(i)
         PROVE  TypeOK'
    BY <2>21 DEF DeleteUser
  <2>22. ASSUME NEW i \in Ids, CacheRow(i)
         PROVE  TypeOK'
    BY <2>22 DEF CacheRow, Live
  <2>23. ASSUME NEW i \in Ids, NEW n \in Names, RenameUser(i, n)
         PROVE  TypeOK'
    BY <2>23 DEF RenameUser
  <2>24. CASE UNCHANGED vars
    BY <2>24 DEF vars
  <2>25. QED
    BY <2>1, <2>2, <2>3, <2>4, <2>5, <2>6, <2>7, <2>8, <2>9, <2>10, <2>11, <2>12,
       <2>13, <2>14, <2>15, <2>16, <2>17, <2>18, <2>19, <2>20, <2>21, <2>22,
       <2>23, <2>24 DEF Next, SchedulerStep
<1>3. QED
  BY <1>1, <1>2, PTL DEF Spec

----------------------------------------------------------------------------
(* The inductive invariant.                                                *)
IInv == TypeOK /\ Strengthening /\ KeysHeld /\ LogHonest

(* The part of IInv that is not typing, and the variables it speaks about. *)
SInv == Strengthening /\ KeysHeld /\ LogHonest
sVars == <<dbVars, memVars, pc, old, resuming, todo, pending, late>>

USE DEF dbVars, memVars, jobVars, envVars

(* A step that leaves those variables alone leaves the invariant alone.    *)
LEMMA Untouched == ASSUME SInv, UNCHANGED sVars PROVE SInv'
  BY DEF SInv, sVars, Strengthening, KeysHeld, LogHonest, OneActive, ActiveAgrees,
         JobOnRetiring, Verified, RowsUsable, CompletedRetired, Up, Live, OnVersion

(* A scheduler step that leaves rows, keys and logs alone preserves the    *)
(* invariant when it preserves the parts about the job.                    *)
LEMMA JobStep ==
  ASSUME SInv, Up, Up', UNCHANGED <<dbVars, memVars, pending, late>>,
         pc # "idle" \/ status[activeVer] = "active",
         JobOnRetiring', Verified'
  PROVE  SInv'
  BY DEF SInv, Strengthening, KeysHeld, LogHonest, OneActive, ActiveAgrees,
         RowsUsable, CompletedRetired, Up, Live, OnVersion

(* A start loads every key a user may need.                                *)
LEMMA BootStep == ASSUME TypeOK, SInv, Boot PROVE SInv'
<1> USE DEF SInv, Strengthening
<1>0. MaxVersion \in Nat \ {0}
  BY KeyRotationAssumption
<1>1. pc = "down" /\ pc' = "resume" /\ Up' /\ ~Up
  BY DEF Boot, Up
<1>2. UNCHANGED <<log, owner, ver, key, cachedVer, jobVars, pending, envVars, late>>
  BY DEF Boot
<1>3. JobOnRetiring' /\ Verified'
  BY <1>1, <1>2 DEF JobOnRetiring, Verified
<1>4. CASE \E v \in Versions : status[v] = "active"
  <2>1. PICK a \in Versions :
          /\ status[a] = "active"
          /\ \A w \in Versions : w # a => status[w] # "active"
          /\ \A w \in Versions : w > a => status[w] = "none"
    BY <1>4 DEF OneActive
  <2>2. activeVer' = a /\ memKeys' = Loadable /\ status' = status
    BY <1>4, <2>1 DEF Boot
  <2>3. OneActive'
    BY <2>1, <2>2 DEF OneActive
  <2>4. ActiveAgrees'
    BY <1>1, <1>2, <2>1, <2>2 DEF ActiveAgrees, Loadable
  <2>5. RowsUsable' /\ LogHonest'
    BY <1>2, <2>2 DEF RowsUsable, LogHonest, Live, OnVersion
  <2>6. CompletedRetired'
    BY <1>2, <2>1, <2>2 DEF CompletedRetired
  <2>7. KeysHeld'
    BY <1>2, <2>2 DEF KeysHeld, RowsUsable, Loadable, Live
  <2>8. QED
    BY <1>3, <2>3, <2>4, <2>5, <2>6, <2>7
<1>5. CASE ~ \E v \in Versions : status[v] = "active"
  <2>1. /\ \A v \in Versions : status[v] = "none"
        /\ Live = {}
    BY <1>5 DEF OneActive
  <2>2. activeVer' = 1 /\ memKeys' = {1} /\ status' = [status EXCEPT ![1] = "active"]
    BY <1>5 DEF Boot
  <2>3. 1 \in Versions /\ status'[1] = "active" /\ Live' = {}
        /\ \A v \in Versions : v # 1 => status'[v] = "none"
    BY <1>0, <1>2, <2>1, <2>2 DEF TypeOK, Live
  <2>4. OneActive'
    BY <2>3 DEF OneActive
  <2>5. \A n \in Names : pending[n] = 0
    BY <1>1 DEF ActiveAgrees
  <2>6. ActiveAgrees'
    BY <1>1, <1>2, <2>2, <2>3, <2>5 DEF ActiveAgrees
  <2>7. RowsUsable' /\ KeysHeld' /\ LogHonest'
    BY <2>3 DEF RowsUsable, KeysHeld, LogHonest, OnVersion
  <2>8. CompletedRetired'
    BY <1>2, <2>1 DEF CompletedRetired
  <2>9. QED
    BY <1>3, <2>4, <2>6, <2>7, <2>8
<1>6. QED
  BY <1>4, <1>5

(* A crash loses memory only; what the rows need is in the database.       *)
LEMMA CrashStep == ASSUME TypeOK, SInv, Crash PROVE SInv'
<1> USE DEF SInv, Strengthening
<1>1. /\ pc' = "down" /\ ~Up' /\ Up /\ ~resuming' /\ todo' = {}
      /\ \A n \in Names : pending'[n] = 0
      /\ UNCHANGED <<dbVars, late>>
  BY DEF Crash, Up
<1>2. OneActive'
  BY <1>1 DEF OneActive, Live, Up
<1>3. ActiveAgrees' /\ KeysHeld'
  BY <1>1 DEF ActiveAgrees, KeysHeld
<1>4. JobOnRetiring' /\ Verified'
  BY <1>1 DEF JobOnRetiring, Verified
<1>5. RowsUsable' /\ LogHonest' /\ CompletedRetired'
  BY <1>1 DEF RowsUsable, LogHonest, CompletedRetired, Live, OnVersion
<1>6. QED
  BY <1>2, <1>3, <1>4, <1>5

(* Listing, skipping, verifying and giving up only move the job.           *)
LEMMA ResumeSteps ==
  ASSUME TypeOK, SInv,
         \/ ResumeList \/ ResumeListFails \/ ResumeDone
         \/ \E v \in Versions : ResumeNext(v)
  PROVE  SInv'
<1> USE DEF SInv, Strengthening
<1>1. /\ pc \in {"resume", "next"} /\ pc' \in {"idle", "next", "remove", "list"}
      /\ Up /\ Up' /\ UNCHANGED <<dbVars, memVars, pending, late>>
  BY DEF ResumeList, ResumeListFails, ResumeDone, ResumeNext, Up
<1>2. JobOnRetiring' /\ Verified'
  <2>1. CASE ResumeList
    BY <2>1, <1>1 DEF ResumeList, Unfinished, JobOnRetiring, Verified
  <2>2. CASE ResumeListFails
    BY <2>2, <1>1 DEF ResumeListFails, JobOnRetiring, Verified
  <2>3. CASE ResumeDone
    BY <2>3, <1>1 DEF ResumeDone, JobOnRetiring, Verified
  <2>4. ASSUME NEW v \in Versions, ResumeNext(v)
        PROVE  JobOnRetiring' /\ Verified'
    <3>1. v \in todo /\ todo' = todo \ {v} /\ resuming' = resuming /\ resuming
      BY <2>4 DEF ResumeNext, JobOnRetiring
    <3>2. \/ old' = v /\ pc' = "remove" /\ OnVersion(v) = {}
          \/ old' = v /\ pc' = "list"
          \/ pc' = "next"
      BY <2>4 DEF ResumeNext
    <3>3. JobOnRetiring'
      BY <1>1, <3>1, <3>2 DEF JobOnRetiring
    <3>4. Verified'
      BY <1>1, <3>2 DEF Verified, OnVersion, Live
    <3>5. QED
      BY <3>3, <3>4
  <2>5. QED
    BY <2>1, <2>2, <2>3, <2>4
<1>3. QED
  BY <1>1, <1>2, JobStep

LEMMA JobSteps == ASSUME TypeOK, SInv, ListPage \/ Verify \/ JobFails PROVE SInv'
<1> USE DEF SInv, Strengthening
<1>1. /\ pc \in {"list", "wrap", "verify"}
      /\ pc' \in {"wrap", "verify", "idle", "next", "remove"}
      /\ Up /\ Up' /\ todo' = todo /\ resuming' = resuming
      /\ UNCHANGED <<dbVars, memVars, pending, late>>
  BY DEF ListPage, Verify, JobFails, GiveUp, Up
<1>2. /\ pc' \in {"wrap", "verify", "remove"} => old' = old
      /\ pc' = "remove" => OnVersion(old) = {}
      /\ pc' = "idle" => ~resuming
  BY DEF ListPage, Verify, JobFails, GiveUp, Complete
<1>3. JobOnRetiring'
  BY <1>1, <1>2 DEF JobOnRetiring
<1>4. Verified'
  BY <1>1, <1>2 DEF Verified, OnVersion, Live
<1>5. QED
  BY <1>1, <1>3, <1>4, JobStep

(* A rotation moves the active key on, in the database and, unless the     *)
(* commit was reported as an error, in memory.                             *)
LEMMA RotateStep == ASSUME TypeOK, SInv, RotateStart PROVE SInv'
<1> USE DEF SInv, Strengthening
<1> DEFINE new == activeVer + 1
<1>0. MaxVersion \in Nat \ {0}
  BY KeyRotationAssumption
<1>1. /\ pc = "idle" /\ Up /\ ~resuming /\ todo = {} /\ activeVer < MaxVersion
      /\ status[new] = "none"
      /\ UNCHANGED <<log, owner, ver, key, resuming, todo, pending, late>>
  BY DEF RotateStart, Up, JobOnRetiring
<1>2. activeVer \in Versions /\ new \in Versions /\ new # activeVer
  BY <1>0, <1>1 DEF ActiveAgrees, TypeOK
<1>3. status[activeVer] = "active"
  BY <1>1, <1>2 DEF ActiveAgrees
<1>4. CASE UNCHANGED <<status, memKeys, activeVer, old, pc>>
  BY <1>1, <1>4, Untouched DEF sVars
<1>5. ASSUME status' = Rotated(activeVer),
             \/ /\ memKeys' = memKeys \cup {new} /\ activeVer' = new
                /\ old' = activeVer /\ pc' = "log"
             \/ UNCHANGED <<memKeys, activeVer, old, pc>>
      PROVE  SInv'
  <2>1. /\ status'[activeVer] = "retiring" /\ status'[new] = "active"
        /\ \A v \in Versions : v # activeVer /\ v # new => status'[v] = status[v]
    BY <1>2, <1>5 DEF Rotated, TypeOK
  <2>2. /\ \A w \in Versions : w # activeVer => status[w] # "active"
        /\ \A w \in Versions : w > activeVer => status[w] = "none"
    BY <1>2, <1>3 DEF OneActive
  <2>3. OneActive'
    <3>1. /\ \A w \in Versions : w # new => status'[w] # "active"
          /\ \A w \in Versions : w > new => status'[w] = "none"
      BY <1>2, <2>1, <2>2
    <3>2. QED
      BY <1>2, <2>1, <3>1 DEF OneActive
  <2>4. ActiveAgrees'
    <3>1. Up'
      BY <1>1, <1>5 DEF Up
    <3>2. /\ activeVer' \in memKeys'
          /\ \/ status'[activeVer'] = "active"
             \/ /\ pc' = "idle" /\ status'[activeVer'] = "retiring"
                /\ activeVer' + 1 \in Versions /\ status'[activeVer' + 1] = "active"
      BY <1>1, <1>2, <1>5, <2>1 DEF ActiveAgrees
    <3>3. \A n \in Names : pending'[n] # 0 => status'[pending'[n]] # "none"
      BY <1>1, <1>2, <2>1 DEF ActiveAgrees, TypeOK
    <3>4. QED
      BY <3>1, <3>2, <3>3 DEF ActiveAgrees
  <2>5. JobOnRetiring'
    BY <1>1, <1>2, <1>5, <2>1 DEF JobOnRetiring
  <2>6. Verified'
    BY <1>1, <1>5 DEF Verified
  <2>7. RowsUsable'
    BY <1>1, <1>2, <1>3, <2>1 DEF RowsUsable, Live
  <2>8. CompletedRetired'
    BY <1>1, <1>2, <1>3, <1>5, <2>1 DEF CompletedRetired
  <2>9. KeysHeld' /\ LogHonest'
    BY <1>1, <1>5 DEF KeysHeld, LogHonest, Live, OnVersion
  <2>10. QED
    BY <2>3, <2>4, <2>5, <2>6, <2>7, <2>8, <2>9
<1>6. QED
  BY <1>4, <1>5 DEF RotateStart

(* Opening the log of a job marks it failed: no completed claim is added.  *)
LEMMA OpenLogStep == ASSUME TypeOK, SInv, OpenLog PROVE SInv'
<1> USE DEF SInv, Strengthening
<1>1. /\ pc = "log" /\ pc' \in {"list", "idle"} /\ Up /\ Up' /\ ~resuming
      /\ UNCHANGED <<status, owner, ver, key, memVars, pending, late, resuming, todo>>
  BY DEF OpenLog, GiveUp, Up, JobOnRetiring
<1>2. pc' = "list" => old' = old
  BY DEF OpenLog, GiveUp, JobOnRetiring
<1>3. \A v \in Versions : log'[v] = "completed" => log[v] = "completed"
  BY DEF OpenLog, Opened, TypeOK
<1>4. OneActive' /\ RowsUsable' /\ KeysHeld'
  BY <1>1 DEF OneActive, RowsUsable, KeysHeld, Live, Up
<1>5. ActiveAgrees'
  BY <1>1 DEF ActiveAgrees
<1>6. JobOnRetiring' /\ Verified'
  BY <1>1, <1>2 DEF JobOnRetiring, Verified
<1>7. LogHonest' /\ CompletedRetired'
  BY <1>1, <1>3 DEF LogHonest, CompletedRetired, OnVersion, Live
<1>8. QED
  BY <1>4, <1>5, <1>6, <1>7

(* Re-wrapping moves rows to the active key and no others.                 *)
LEMMA RewrapStep == ASSUME TypeOK, SInv, NEW r \in page, RewrapUser(r) PROVE SInv'
<1> USE DEF SInv, Strengthening
<1>1. /\ pc = "wrap" /\ pc' \in {"wrap", "verify", "list"} /\ Up /\ Up'
      /\ UNCHANGED <<status, log, owner, memVars, old, pending, late, resuming, todo>>
  BY DEF RewrapUser, Up
<1>2. /\ activeVer \in memKeys /\ activeVer \in Versions /\ status[activeVer] = "active"
  BY <1>1 DEF ActiveAgrees, TypeOK
<1>3. \A i \in Ids : ver'[i] = ver[i] \/ ver'[i] = activeVer
  BY DEF RewrapUser, Wrapping
<1>4. OneActive' /\ ActiveAgrees' /\ CompletedRetired'
  BY <1>1 DEF OneActive, ActiveAgrees, CompletedRetired, Live
<1>5. JobOnRetiring' /\ Verified'
  BY <1>1 DEF JobOnRetiring, Verified
<1>6. RowsUsable' /\ KeysHeld'
  BY <1>1, <1>2, <1>3 DEF RowsUsable, KeysHeld, Live
<1>7. LogHonest'
  BY <1>1, <1>3 DEF LogHonest, CompletedRetired, OnVersion, Live
<1>8. QED
  BY <1>4, <1>5, <1>6, <1>7

(* Destroying a verified key takes nothing a timely user needs.            *)
LEMMA RemoveStep == ASSUME TypeOK, SInv, RemoveKey PROVE SInv'
<1> USE DEF SInv, Strengthening
<1>1. /\ pc = "remove" /\ pc' = "purge" /\ Up /\ Up' /\ memKeys' = memKeys \ {old}
      /\ UNCHANGED <<dbVars, activeVer, old, pending, late, resuming, todo>>
  BY DEF RemoveKey, Evicting, Up
<1>2. old # activeVer
  BY <1>1 DEF JobOnRetiring, ActiveAgrees
<1>3. OneActive' /\ CompletedRetired' /\ RowsUsable' /\ LogHonest'
  BY <1>1 DEF OneActive, CompletedRetired, RowsUsable, LogHonest, Live, OnVersion
<1>4. ActiveAgrees'
  BY <1>1, <1>2 DEF ActiveAgrees
<1>5. JobOnRetiring' /\ Verified'
  BY <1>1 DEF JobOnRetiring, Verified, OnVersion, Live
<1>6. KeysHeld'
  BY <1>1 DEF KeysHeld, Verified, OnVersion, Live
<1>7. QED
  BY <1>3, <1>4, <1>5, <1>6

LEMMA PurgeStep == ASSUME TypeOK, SInv, PurgeKey PROVE SInv'
<1> USE DEF SInv, Strengthening
<1>1. /\ pc = "purge" /\ Up /\ Up'
      /\ \/ pc' = "next" /\ resuming
         \/ pc' = "finalise" /\ ~resuming /\ old' = old
      /\ UNCHANGED <<log, owner, ver, key, memVars, pending, late, resuming, todo>>
  BY DEF PurgeKey, Up, TypeOK
<1>2. /\ old \in Versions /\ status[old] = "retiring" /\ OnVersion(old) \subseteq late
      /\ activeVer \in Versions /\ status[activeVer] = "active"
  BY <1>1 DEF JobOnRetiring, Verified, ActiveAgrees, TypeOK
<1>3. /\ \A v \in Versions : v # old => status'[v] = status[v]
      /\ status'[old] \in {"retiring", "deleted"}
  BY <1>2 DEF PurgeKey, TypeOK
<1>4. OneActive'
  <2>1. /\ \A w \in Versions : w # activeVer => status[w] # "active"
        /\ \A w \in Versions : w > activeVer => status[w] = "none"
    BY <1>2 DEF OneActive
  <2>2. /\ status'[activeVer] = "active"
        /\ \A w \in Versions : w # activeVer => status'[w] # "active"
        /\ \A w \in Versions : w > activeVer => status'[w] = "none"
    BY <1>2, <1>3, <2>1
  <2>3. QED
    BY <1>2, <2>2 DEF OneActive
<1>5. ActiveAgrees'
  <2>1. \A n \in Names : pending[n] # 0 => status'[pending[n]] # "none"
    BY <1>2, <1>3 DEF ActiveAgrees, TypeOK
  <2>2. QED
    BY <1>1, <1>2, <1>3, <2>1 DEF ActiveAgrees
<1>6. JobOnRetiring'
  <2>1. \A v \in todo : status'[v] = "retiring" \/ v = old
    BY <1>3 DEF JobOnRetiring, TypeOK
  <2>2. old \notin todo
    BY <1>1 DEF JobOnRetiring
  <2>3. QED
    BY <1>1, <1>2, <1>3, <2>1, <2>2 DEF JobOnRetiring
<1>7. Verified'
  BY <1>1, <1>2 DEF Verified, OnVersion, Live
<1>8. RowsUsable'
  BY <1>1, <1>2, <1>3 DEF RowsUsable, OnVersion, Live
<1>9. CompletedRetired' /\ KeysHeld' /\ LogHonest'
  BY <1>1, <1>2, <1>3 DEF CompletedRetired, KeysHeld, LogHonest, OnVersion, Live
<1>10. QED
  BY <1>4, <1>5, <1>6, <1>7, <1>8, <1>9

(* The log claims completion only of a key nobody is left on.              *)
LEMMA FinaliseStep == ASSUME TypeOK, SInv, Finalise PROVE SInv'
<1> USE DEF SInv, Strengthening
<1>1. /\ pc = "finalise" /\ pc' = "idle" /\ Up /\ Up' /\ ~resuming
      /\ UNCHANGED <<status, owner, ver, key, memVars, pending, late, resuming, todo>>
  BY DEF Finalise, GiveUp, Up, JobOnRetiring
<1>2. /\ old \in Versions /\ status[old] \in {"retiring", "deleted"}
      /\ OnVersion(old) \subseteq late /\ status[activeVer] = "active"
  BY <1>1 DEF JobOnRetiring, Verified, ActiveAgrees
<1>3. \A v \in Versions : log'[v] = "completed" => log[v] = "completed" \/ v = old
  BY DEF Finalise, TypeOK
<1>4. OneActive' /\ ActiveAgrees' /\ RowsUsable' /\ KeysHeld'
  BY <1>1, <1>2 DEF OneActive, ActiveAgrees, RowsUsable, KeysHeld, Live
<1>5. JobOnRetiring' /\ Verified'
  BY <1>1 DEF JobOnRetiring, Verified
<1>6. LogHonest' /\ CompletedRetired'
  BY <1>1, <1>2, <1>3 DEF LogHonest, CompletedRetired, OnVersion, Live
<1>7. QED
  BY <1>4, <1>5, <1>6

(* Registration: a new row is on the active key or it is late.             *)
LEMMA ProvisionStep ==
  ASSUME TypeOK, SInv, NEW n \in Names, Provision(n) \/ AbandonRegistration(n)
  PROVE  SInv'
<1> USE DEF SInv, Strengthening
<1>1. /\ Up /\ UNCHANGED <<dbVars, memVars, pc, old, resuming, todo, late>>
  BY DEF Provision, AbandonRegistration, ActiveAgrees
<1>2. \A m \in Names : pending'[m] \in {0, pending[m], activeVer}
  BY DEF Provision, AbandonRegistration, TypeOK
<1>3. ActiveAgrees'
  BY <1>1, <1>2 DEF ActiveAgrees, Up
<1>4. OneActive' /\ RowsUsable' /\ KeysHeld' /\ LogHonest' /\ CompletedRetired'
  BY <1>1 DEF OneActive, RowsUsable, KeysHeld, LogHonest, CompletedRetired, Live,
              OnVersion, Up
<1>5. JobOnRetiring' /\ Verified'
  BY <1>1 DEF JobOnRetiring, Verified, OnVersion, Live
<1>6. QED
  BY <1>3, <1>4, <1>5

LEMMA CreateStep == ASSUME TypeOK, SInv, NEW n \in Names, CreateUser(n) PROVE SInv'
<1> USE DEF SInv, Strengthening
<1>0. MaxVersion \in Nat \ {0} /\ NoName \notin Names
  BY KeyRotationAssumption
<1>1. /\ Up /\ Up' /\ pending[n] # 0
      /\ UNCHANGED <<status, log, memVars, pc, old, resuming, todo>>
  BY DEF CreateUser, ActiveAgrees, Up
<1>2. \A m \in Names : pending'[m] \in {0, pending[m]}
  BY DEF CreateUser, TypeOK
<1>3. pending[n] \in Versions /\ status[pending[n]] # "none"
  BY <1>0, <1>1 DEF ActiveAgrees, TypeOK
<1>4. ActiveAgrees'
  BY <1>1, <1>2 DEF ActiveAgrees
<1>5. JobOnRetiring' /\ CompletedRetired'
  BY <1>1 DEF JobOnRetiring, CompletedRetired
<1>6. OneActive'
  BY <1>1 DEF OneActive, Up
<1>7. CASE UNCHANGED <<owner, ver, key, late>>
  BY <1>1, <1>4, <1>5, <1>6, <1>7
     DEF Verified, RowsUsable, KeysHeld, LogHonest, OnVersion, Live
<1>8. ASSUME NEW i \in Unborn,
             owner' = [owner EXCEPT ![i] = n],
             ver' = [ver EXCEPT ![i] = pending[n]],
             late' = IF pending[n] = activeVer THEN late ELSE late \cup {i}
      PROVE  SInv'
  <2>1. i \in Ids /\ ver'[i] = pending[n] /\ owner'[i] = n
    BY <1>8 DEF Unborn, TypeOK
  <2>2. \A j \in Ids : j # i => ver'[j] = ver[j] /\ owner'[j] = owner[j]
    BY <1>8, <2>1 DEF TypeOK
  <2>3. /\ late \subseteq late'
        /\ i \notin late' => pending[n] = activeVer
    BY <1>8
  <2>4. activeVer \in Versions /\ activeVer \in memKeys /\ status[activeVer] \in {"active", "retiring"}
    BY <1>0, <1>1 DEF ActiveAgrees, TypeOK
  <2>5. RowsUsable' /\ KeysHeld'
    BY <1>1, <1>3, <2>1, <2>2, <2>3, <2>4 DEF RowsUsable, KeysHeld, Live
  <2>6. \A v \in Versions : v # activeVer =>
          (OnVersion(v) \subseteq late => OnVersion(v)' \subseteq late')
    BY <2>1, <2>2, <2>3 DEF OnVersion, Live
  <2>7. LogHonest'
    BY <1>1, <2>6 DEF LogHonest, CompletedRetired
  <2>8. pc \in {"remove", "purge", "finalise"} => old \in Versions /\ old # activeVer
    BY <1>1 DEF JobOnRetiring, ActiveAgrees
  <2>9. Verified'
    BY <1>1, <2>6, <2>8 DEF Verified
  <2>10. QED
    BY <1>4, <1>5, <1>6, <2>5, <2>7, <2>9
<1>9. QED
  BY <1>7, <1>8 DEF CreateUser

(* Renaming and deleting do not move rows between keys.                    *)
LEMMA AdminStep ==
  ASSUME TypeOK, SInv, NEW i \in Ids,
         DeleteUser(i) \/ \E n \in Names : RenameUser(i, n)
  PROVE  SInv'
<1> USE DEF SInv, Strengthening
<1>1. /\ Up /\ Up' /\ i \in Live
      /\ UNCHANGED <<status, log, ver, key, memVars, pc, old, resuming, todo, pending, late>>
  BY DEF DeleteUser, RenameUser, Up
<1>2. Live' \subseteq Live
  BY <1>1 DEF DeleteUser, RenameUser, Live, TypeOK
<1>3. OneActive' /\ ActiveAgrees' /\ JobOnRetiring' /\ CompletedRetired'
  BY <1>1 DEF OneActive, ActiveAgrees, JobOnRetiring, CompletedRetired, Up
<1>4. Verified' /\ RowsUsable' /\ KeysHeld' /\ LogHonest'
  BY <1>1, <1>2 DEF Verified, RowsUsable, KeysHeld, LogHonest, OnVersion
<1>5. QED
  BY <1>3, <1>4

(* The invariant holds in every reachable state.                           *)
THEOREM Invariance == Spec => []IInv
<1>1. Init => SInv
  <2> SUFFICES ASSUME Init PROVE SInv
    OBVIOUS
  <2>1. /\ MaxVersion \in Nat \ {0} /\ Len(InitialUsers) \in Nat
        /\ Len(InitialUsers) <= MaxUsers
    BY KeyRotationAssumption
  <2>2. /\ ~Up /\ pc = "down" /\ ~resuming /\ todo = {} /\ late = {}
        /\ \A n \in Names : pending[n] = 0
        /\ \A v \in Versions : log[v] = "none"
    BY DEF Init, Up
  <2>3. ActiveAgrees /\ JobOnRetiring /\ Verified /\ CompletedRetired /\ KeysHeld /\ LogHonest
    BY <2>2 DEF ActiveAgrees, JobOnRetiring, Verified, CompletedRetired, KeysHeld, LogHonest
  <2>4. CASE Len(InitialUsers) = 0
    <3>1. Live = {} /\ \A v \in Versions : status[v] = "none"
      BY <2>1, <2>4 DEF Init, Live
    <3>2. QED
      BY <2>2, <2>3, <3>1 DEF SInv, Strengthening, OneActive, RowsUsable
  <2>5. CASE Len(InitialUsers) > 0
    <3>1. /\ \A v \in Versions : status[v] = IF v = 1 THEN "active" ELSE "none"
          /\ 1 \in Versions
      BY <2>1, <2>5 DEF Init
    <3>2. \A i \in Live : ver[i] = 1
      BY <2>1 DEF Init, Live
    <3>3. OneActive
      BY <3>1 DEF OneActive
    <3>4. RowsUsable
      BY <3>1, <3>2 DEF RowsUsable
    <3>5. QED
      BY <2>3, <3>3, <3>4 DEF SInv, Strengthening
  <2>6. QED
    BY <2>1, <2>4, <2>5
<1>2. TypeOK /\ SInv /\ [Next]_vars => SInv'
  <2> SUFFICES ASSUME TypeOK, SInv, [Next]_vars
               PROVE  SInv'
    OBVIOUS
  <2>1. CASE Boot
    BY <2>1, BootStep
  <2>2. CASE Crash
    BY <2>2, CrashStep
  <2>3. CASE ResumeList \/ ResumeListFails \/ ResumeDone \/ \E v \in Versions : ResumeNext(v)
    BY <2>3, ResumeSteps
  <2>4. CASE ListPage \/ Verify \/ JobFails
    BY <2>4, JobSteps
  <2>5. CASE RotateStart
    BY <2>5, RotateStep
  <2>6. CASE OpenLog
    BY <2>6, OpenLogStep
  <2>7. ASSUME NEW r \in page, RewrapUser(r)
        PROVE  SInv'
    BY <2>7, RewrapStep
  <2>8. CASE RemoveKey
    BY <2>8, RemoveStep
  <2>9. CASE PurgeKey
    BY <2>9, PurgeStep
  <2>10. CASE Finalise
    BY <2>10, FinaliseStep
  <2>11. ASSUME NEW n \in Names, Provision(n) \/ AbandonRegistration(n)
         PROVE  SInv'
    BY <2>11, ProvisionStep
  <2>12. ASSUME NEW n \in Names, CreateUser(n)
         PROVE  SInv'
    BY <2>12, CreateStep
  <2>13. ASSUME NEW i \in Ids, DeleteUser(i) \/ \E n \in Names : RenameUser(i, n)
         PROVE  SInv'
    BY <2>13, AdminStep
  <2>14. ASSUME \/ KeyAges \/ UNCHANGED vars
                \/ \E n \in Names : ExpireRow(n)
                \/ \E i \in Ids : CacheRow(i)
         PROVE  SInv'
    <3>1. UNCHANGED sVars
      BY <2>14 DEF KeyAges, ExpireRow, CacheRow, vars, sVars
    <3>2. QED
      BY <3>1, Untouched
  <2>15. QED
    BY <2>1, <2>2, <2>3, <2>4, <2>5, <2>6, <2>7, <2>8, <2>9, <2>10, <2>11, <2>12,
       <2>13, <2>14 DEF Next, SchedulerStep
<1>3. QED
  BY <1>1, <1>2, TypeCorrect, PTL DEF Spec, IInv, SInv

(* While the server is up, every user who is not a late registration can   *)
(* be decrypted for.                                                       *)
THEOREM KeysAlwaysHeld == Spec => []KeysHeld
BY Invariance, PTL DEF IInv

(* A cached row that names a key which is gone is out of date: whoever     *)
(* registered in time has been moved off that version.                     *)
THEOREM MissesAreStale == Spec => []CachedMissIsStale
<1>1. IInv => CachedMissIsStale
  BY DEF IInv, TypeOK, KeysHeld, CachedMissIsStale, OnVersion
<1>2. QED
  BY <1>1, Invariance, PTL

(* No purge destroys a key a timely user is on.                            *)
THEOREM NoTimelyUserStranded == Spec => []StrandedOnlyLate
<1>1. IInv => StrandedOnlyLate
  BY DEF IInv, Strengthening, RowsUsable, StrandedOnlyLate
<1>2. QED
  BY <1>1, Invariance, PTL

(* The key in use is in memory, undeleted, and one row is active.          *)
THEOREM ActiveAlwaysUsable == Spec => []ActiveUsable
<1>1. IInv => ActiveUsable
  BY DEF IInv, Strengthening, ActiveAgrees, OneActive, ActiveUsable, Up
<1>2. QED
  BY <1>1, Invariance, PTL

(* A completed log entry leaves nobody behind.                             *)
THEOREM LogAlwaysHonest == Spec => []LogHonest
BY Invariance, PTL DEF IInv

(* Re-wrapping never moves a user to an older version.                     *)
THEOREM NeverDowngraded == Spec => NoDowngrade
<1>1. IInv /\ [Next]_vars => [\A i \in Ids : ver[i] <= ver'[i]]_vars
  <2> SUFFICES ASSUME IInv, Next, NEW i \in Ids
               PROVE  ver[i] <= ver'[i]
    OBVIOUS
  <2> USE DEF IInv, Strengthening
  <2>1. ver[i] \in Nat /\ activeVer \in Nat /\ ver[i] <= ver[i]
    BY KeyRotationAssumption DEF TypeOK
  <2>2. ASSUME NEW r \in page, RewrapUser(r)
        PROVE  ver[i] <= ver'[i]
    <3>1. ver'[i] = ver[i] \/ (i \in Live /\ ver'[i] = activeVer)
      BY <2>2 DEF RewrapUser, Matching, Wrapping
    <3>2. activeVer \in Versions /\ status[activeVer] = "active"
      BY <2>2 DEF RewrapUser, ActiveAgrees, Up, TypeOK
    <3>3. i \in Live => ver[i] \in Versions /\ ~(ver[i] > activeVer)
      BY <3>2 DEF RowsUsable, OneActive
    <3>4. QED
      BY <2>1, <3>1, <3>3
  <2>3. ASSUME NEW n \in Names, CreateUser(n)
        PROVE  ver[i] <= ver'[i]
    <3>1. \/ ver' = ver
          \/ \E u \in Unborn : ver' = [ver EXCEPT ![u] = pending[n]]
      BY <2>3 DEF CreateUser
    <3>2. pending[n] \in Nat
      BY KeyRotationAssumption DEF TypeOK
    <3>3. ver'[i] = ver[i] \/ (ver[i] = 0 /\ ver'[i] = pending[n])
      BY <3>1 DEF Unborn, TypeOK
    <3>4. QED
      BY <2>1, <3>2, <3>3
  <2>4. CASE UNCHANGED ver
    BY <2>1, <2>4
  <2>5. QED
    BY <2>2, <2>3, <2>4 DEF Next, SchedulerStep, Boot, Crash, KeyAges, ResumeList,
       ResumeListFails, ResumeNext, ResumeDone, RotateStart, OpenLog, ListPage, Verify,
       JobFails, RemoveKey, PurgeKey, Finalise, Provision, AbandonRegistration,
       ExpireRow, DeleteUser, CacheRow, RenameUser
<1>2. QED
  BY <1>1, Invariance, PTL DEF Spec, NoDowngrade

(* When administrators neither rename nor delete, a user's row wraps the   *)
(* AES key it was created with, whatever rotations, crashes and            *)
(* registrations happen: a page of rows stays true until it is used up.    *)
THEOREM KeysNeverSwapped == ASSUME AdminOps = {} PROVE Spec => []OwnKey
<1> DEFINE K == OwnKey /\ NamesKept
<1>1. Init => K
  <2> SUFFICES ASSUME Init PROVE K
    OBVIOUS
  <2>1. /\ Len(InitialUsers) \in Nat /\ Len(InitialUsers) <= MaxUsers /\ MaxUsers \in Nat
        /\ \A i, j \in 1 .. Len(InitialUsers) : InitialUsers[i] = InitialUsers[j] => i = j
        /\ \A i \in 1 .. Len(InitialUsers) : InitialUsers[i] \in Names
    BY KeyRotationAssumption
  <2>2. \A i \in Live : /\ i \in 1 .. Len(InitialUsers)
                        /\ owner[i] = InitialUsers[i] /\ key[i] = i
    BY <2>1 DEF Init, Live
  <2>3. page = {}
    BY DEF Init
  <2>4. QED
    BY <2>1, <2>2, <2>3 DEF OwnKey, NamesKept
<1>2. TypeOK /\ RowsUsable /\ K /\ [Next]_vars => K'
  <2> SUFFICES ASSUME TypeOK, RowsUsable, K, [Next]_vars
               PROVE  K'
    OBVIOUS
  <2>1. CASE ListPage
    <3>1. UNCHANGED <<owner, key>>
      BY <2>1 DEF ListPage
    <3>2. OwnKey'
      BY <3>1 DEF OwnKey, Live
    <3>3. \A r \in page' : r.id \in Live /\ owner[r.id] = r.name /\ r.key = r.id
      <4>1. page' = {[id |-> i, name |-> owner[i], key |-> key[i]] : i \in PageAt(old, offset)}
        BY <2>1 DEF ListPage
      <4>2. PageAt(old, offset) \subseteq Live
        BY DEF PageAt, OnVersion
      <4>3. QED
        BY <4>1, <4>2 DEF OwnKey
    <3>4. NamesKept'
      BY <3>1, <3>3 DEF NamesKept, Live
    <3>5. QED
      BY <3>2, <3>4
  <2>2. ASSUME NEW r \in page, RewrapUser(r)
        PROVE  K'
    <3>1. /\ owner' = owner /\ page' \subseteq page
          /\ key' = [i \in Ids |-> IF i \in Matching(r) THEN r.key ELSE key[i]]
      BY <2>2 DEF RewrapUser
    <3>2. r.id \in Live /\ owner[r.id] = r.name /\ r.key = r.id
      BY DEF NamesKept
    <3>3. \A i \in Matching(r) : i = r.id
      BY <3>2 DEF Matching, NamesKept
    <3>4. OwnKey'
      BY <3>1, <3>2, <3>3 DEF OwnKey, Live
    <3>5. NamesKept'
      BY <3>1 DEF NamesKept, Live
    <3>6. QED
      BY <3>4, <3>5
  <2>3. ASSUME NEW n \in Names, CreateUser(n)
        PROVE  K'
    <3>1. page' = page
      BY <2>3 DEF CreateUser
    <3>2. CASE UNCHANGED <<owner, key>>
      BY <3>1, <3>2 DEF OwnKey, NamesKept, Live
    <3>3. ASSUME NEW i \in Unborn, ~Taken(n),
                 owner' = [owner EXCEPT ![i] = n], key' = [key EXCEPT ![i] = i]
          PROVE  K'
      <4>1. i \in Ids
        BY DEF Unborn
      <4>2. owner'[i] = n /\ key'[i] = i
        BY <3>3, <4>1 DEF TypeOK
      <4>3. \A j \in Ids : j # i => owner'[j] = owner[j] /\ key'[j] = key[j]
        BY <3>3, <4>1 DEF TypeOK
      <4>4. \A j \in Live : owner[j] # n
        BY <3>3 DEF Taken
      <4>5. OwnKey'
        BY <4>2, <4>3 DEF OwnKey, Live
      <4>6. \A j, k \in Live' : owner'[j] = owner'[k] => j = k
        BY <4>2, <4>3, <4>4 DEF NamesKept, Live
      <4>7. ASSUME NEW r \in page
            PROVE  r.id \in Live' /\ owner'[r.id] = r.name /\ r.key = r.id
        <5>1. r.id \in Live /\ owner[r.id] = r.name /\ r.key = r.id /\ r.name \in Names
          BY DEF NamesKept, TypeOK, Rows
        <5>2. CASE r.id = i
          \* A live row has a version, an unborn one has none.
          BY <5>1, <5>2 DEF Unborn, RowsUsable
        <5>3. CASE r.id # i
          BY <4>3, <5>1, <5>3 DEF Live
        <5>4. QED
          BY <5>2, <5>3
      <4>8. QED
        BY <3>1, <4>5, <4>6, <4>7 DEF NamesKept
    <3>4. QED
      BY <2>3, <3>2, <3>3 DEF CreateUser
  <2>4. CASE UNCHANGED <<owner, key>> /\ page' \subseteq page
    BY <2>4 DEF OwnKey, NamesKept, Live
  <2>5. QED
    BY <2>1, <2>2, <2>3, <2>4 DEF Next, SchedulerStep, Boot, Crash, KeyAges, ResumeList,
       ResumeListFails, ResumeNext, ResumeDone, RotateStart, OpenLog, Verify, GiveUp,
       JobFails, RemoveKey, PurgeKey, Finalise, Provision, AbandonRegistration,
       ExpireRow, DeleteUser, CacheRow, RenameUser, vars
<1>3. QED
  BY <1>1, <1>2, Invariance, PTL DEF Spec, IInv, Strengthening

============================================================================
