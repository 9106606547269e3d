------------------------- MODULE CloudBackupProofs -------------------------
(* Proofs about CloudBackup: what leaves the mailbox is stored, the failed  *)
(* count follows the rows, and the listings end up current, as long as no  *)
(* two runs go on together.                                                 *)
EXTENDS CloudBackup, FiniteSetTheorems, WellFoundedInduction, TLAPS

Stages == {"idle", "folder", "gate", "parked", "item", "upload", "settle", "rollback", "trash", "end"}
Looping == {"gate", "parked", "item", "upload", "settle", "rollback"}
RunFields == {"pc", "todo", "cur", "st", "ctl", "cancelled", "retry", "card", "left"}

(* A run, wherever it stands.                                              *)
RunShape(r) ==
  /\ RunFields \subseteq DOMAIN run[r]
  /\ run[r].pc \in Stages /\ run[r].st \in [Items -> Statuses] /\ run[r].todo \subseteq Items
  /\ run[r].retry \in BOOLEAN
  /\ (run[r].pc \in {"item", "upload"} => run[r].cur \in run[r].todo)
  /\ (run[r].pc # "trash" => \A i \in run[r].todo : run[r].st[i] = "none")
  /\ (run[r].pc \in {"folder", "parked", "rollback"} => ~run[r].retry)
  /\ (run[r].pc = "folder" => run[r].st = NoStatus)
  /\ (run[r].pc = "trash" => kind = "email")
  /\ (run[r].pc = "upload" => kind # "email")

Shape ==
  /\ DOMAIN run = Runs /\ (\A r \in Runs : RunShape(r))
  /\ selected \subseteq Items /\ mine \subseteq Runs /\ ref \in {0} \cup Runs
  /\ stat \in [Items -> Statuses]
  /\ kind \in Kinds /\ (kind = "email" => cleaning = {})
  /\ copies \subseteq Items \X ({0} \cup Runs)

(* Unless two runs went on together, one run goes on at a time.            *)
Alone == ~overlap => \A r, q \in Runs : (Busy(r) /\ Busy(q)) => r = q

(* Mail: what a run counts as backed up is stored, and what it stored      *)
(* itself is still in the mailbox; until it moves to the bin what it       *)
(* counts, while that stays stored.                                        *)
Counted(r) ==
  \A i \in Items :
    /\ (run[r].st[i] = "done" =>
          i \in source /\ (<<i, r>> \in copies \/ (run[r].pc = "rollback" /\ i \notin run[r].left)))
    /\ (run[r].st[i] = "duplicate" => \E q \in ({0} \cup Runs) \ {r} : <<i, q>> \in copies)
    /\ (<<i, r>> \in copies => run[r].st[i] = "done")
MailOf(r) ==
  /\ (run[r].pc = "idle" => \A i \in Items : <<i, r>> \notin copies)
  /\ ((Busy(r) /\ run[r].pc # "trash") => Counted(r))
  /\ (run[r].pc = "trash" => \A i \in run[r].todo : i \in Backing)
MailKept == (kind = "email" /\ ~overlap) => \A r \in Runs : MailOf(r)

(* The result counts the failed rows; a retry under way accounts for those *)
(* it began with.                                                          *)
TakenOn(r) == {i \in Items : run[r].st[i] # "none" \/ i \in run[r].todo}
RetryOf(r) ==
  /\ view = "finished" /\ r \in mine
  /\ (run[r].pc # "trash" =>
        /\ res = Cardinality(TakenOn(r))
        /\ \A i \in Items : stat[i] = "error" <=> (i \in run[r].todo \/ run[r].st[i] = "error")
        /\ (run[r].pc = "settle" => run[r].todo = {}))
  /\ (run[r].pc = "trash" => res = Cardinality(FailedItems))
AccountsOf(r) ==
  Busy(r) =>
    /\ (run[r].retry => RetryOf(r))
    /\ (~run[r].retry => view # "finished")
    /\ ((~run[r].retry /\ r \in mine) =>
          /\ (run[r].pc \in Looping => stat = run[r].st)
          /\ ((run[r].pc = "trash" /\ ~run[r].card) => res = Cardinality(FailedItems)))
Settlement == (view = "finished" /\ ~Retrying) => res = Cardinality(FailedItems)
Accounts == (kind # "phone" /\ ~overlap) => (\A r \in Runs : AccountsOf(r)) /\ Settlement

(* A listing that is out of date has a timer, a run or the closing of the  *)
(* window to come.                                                         *)
Refreshing(r) == run[r].pc \in Looping /\ ~run[r].retry
Listing ==
  (kind # "phone" /\ ~overlap /\ ~fresh /\ ~timer) => (view = "finished" \/ \E r \in Runs : Refreshing(r))

CloudInv == Shape /\ Alone /\ MailKept /\ MailLostOnlyByOverlap /\ Accounts /\ Listing
----------------------------------------------------------------------------
(* A set of items has a least one, which is one of it.                     *)
LEMMA Least == ASSUME NEW S, S \subseteq Nat, S # {}
               PROVE  \E i \in S : \A j \in S : i <= j
<1>1. PICK i \in S : \A j \in S : ~(<<j, i>> \in OpToRel(<, Nat))
  BY NatLessThanWellFounded, WFMin
<1>2. \A j \in S : ~(j < i)
  BY <1>1 DEF OpToRel
<1>. QED
  BY <1>2

LEMMA LeastItem == ASSUME NEW S, S \subseteq Items, S # {} PROVE Min(S) \in S
  BY CloudBackupAssumption, Least DEF Min

LEMMA ItemsCounted == \A S : S \subseteq Items => IsFiniteSet(S) /\ Cardinality(S) \in Nat
  BY CloudBackupAssumption, FS_Subset, FS_CardinalityType

LEMMA RunsAre == 0 \notin Runs
  BY CloudBackupAssumption DEF Runs

LEMMA NewShape ==
  /\ RunFields \subseteq DOMAIN NewRun /\ NewRun.pc = "idle" /\ NewRun.st = NoStatus /\ NewRun.todo = {}
  /\ NewRun.retry = FALSE /\ NewRun.card = FALSE /\ NewRun.left = {}
  BY DEF NewRun, RunFields

LEMMA NoStatusIs == NoStatus \in [Items -> Statuses] /\ \A i \in Items : NoStatus[i] = "none"
  BY DEF NoStatus, Statuses

(* What an ended run leaves.                                               *)
LEMMA EndedIs ==
  ASSUME Shape, NEW r \in Runs
  PROVE  /\ RunFields \subseteq DOMAIN Ended(r) /\ Ended(r).pc = "end" /\ Ended(r).todo = {}
         /\ Ended(r).st \in [Items -> Statuses] /\ Ended(r).retry = FALSE /\ Ended(r).card = FALSE
<1>1. Ended(r).pc = "end" /\ Ended(r).todo = {} /\ DOMAIN Ended(r) = DOMAIN NewRun
      /\ Ended(r).retry = FALSE /\ Ended(r).card = FALSE
  BY DEF Ended, NewRun
<1>2. Ended(r).st = IF kind = "phone" /\ run[r].card THEN run[r].st ELSE NoStatus
  BY DEF Ended, NewRun
<1>. QED
  BY <1>1, <1>2, NewShape, NoStatusIs DEF Shape, RunShape

LEMMA CloudInitially == Init => CloudInv
<1> SUFFICES ASSUME Init PROVE CloudInv
  OBVIOUS
<1>1. run = [r \in Runs |-> NewRun] /\ copies = {} /\ source = Items /\ cleaning = {} /\ view = "closed"
      /\ fresh = TRUE /\ timer = FALSE /\ overlap = FALSE /\ selected = {} /\ mine = {} /\ ref = 0
      /\ stat = NoStatus /\ kind \in Kinds
  BY DEF Init
<1>2. \A r \in Runs : run[r] = NewRun
  BY <1>1
<1>3. \A r \in Runs : RunShape(r)
  BY <1>2, NewShape, NoStatusIs DEF RunShape, Stages
<1>4. fresh
  BY <1>1, Zenon
<1>5. Shape
  BY <1>1, <1>3, <1>4, NoStatusIs DEF Shape
<1>6. \A r \in Runs : ~Busy(r)
  BY <1>2, NewShape DEF Busy
<1>7. MailKept
  BY <1>1, <1>2, <1>6, NewShape DEF MailKept, MailOf
<1>8. Accounts
  BY <1>1, <1>6 DEF Accounts, AccountsOf, Settlement
<1>. QED
  BY <1>1, <1>4, <1>5, <1>6, <1>7, <1>8 DEF CloudInv, Alone, MailLostOnlyByOverlap, Listing

----------------------------------------------------------------------------
(* Steps that touch no run.                                                *)
LEMMA NoRun ==
  ASSUME CloudInv, Shape', UNCHANGED <<kind, run, copies, source>>, overlap => overlap', Accounts', Listing'
  PROVE  CloudInv'
<1>1. Alone'
  BY DEF CloudInv, Alone, Busy
<1>2. MailKept' /\ MailLostOnlyByOverlap'
  BY DEF CloudInv, MailKept, MailOf, Counted, Busy, Backing, MailLostOnlyByOverlap
<1>. QED
  BY <1>1, <1>2 DEF CloudInv

LEMMA RunsSame ==
  ASSUME CloudInv, Shape', UNCHANGED <<kind, run, copies, source, view, res, stat, mine, fresh, timer, overlap>>
  PROVE  CloudInv'
<1>1. Accounts'
  BY DEF CloudInv, Accounts, AccountsOf, RetryOf, Settlement, Busy, Retrying, TakenOn, FailedItems
<1>2. Listing'
  BY DEF CloudInv, Listing, Refreshing
<1>. QED
  BY <1>1, <1>2, NoRun

LEMMA ShapeSame ==
  ASSUME Shape, UNCHANGED <<kind, run, copies, overlap, fresh, timer>>, selected' \subseteq Items,
         mine' \subseteq Runs, ref' \in {0} \cup Runs, stat' \in [Items -> Statuses],
         kind = "email" => cleaning' = {}
  PROVE  Shape'
  BY DEF Shape, RunShape

(* A step that concerns one run, beside which none goes on.                *)
LEMMA OneRun ==
  ASSUME CloudInv, NEW r \in Runs, kind' = kind, DOMAIN run' = Runs, \A q \in Runs \ {r} : run'[q] = run[q],
         RunShape(r)', selected' \subseteq Items, mine' \subseteq Runs, ref' \in {0} \cup Runs,
         stat' \in [Items -> Statuses], kind = "email" => cleaning' = {}, copies' \subseteq Items \X ({0} \cup Runs),
         ~overlap' => ~overlap /\ \A q \in Runs \ {r} : ~Busy(q),
         (kind = "email" /\ ~overlap') =>
            /\ MailOf(r)' /\ (Items \ source \subseteq Backing)'
            /\ \A i \in Items, q \in Runs \ {r} : <<i, q>> \in copies' => <<i, q>> \in copies,
         (kind # "phone" /\ ~overlap') =>
            /\ AccountsOf(r)'
            /\ (view' = "finished" /\ ~(Busy(r)' /\ run'[r].retry)) => res' = Cardinality(FailedItems'),
         (kind # "phone" /\ ~overlap' /\ ~fresh' /\ ~timer') => (view' = "finished" \/ Refreshing(r)')
  PROVE  CloudInv'
<1>1. \A q \in Runs \ {r} : RunShape(q)'
  BY DEF CloudInv, Shape, RunShape
<1>2. Shape'
  BY <1>1 DEF CloudInv, Shape
<1>3. \A q \in Runs \ {r} : Busy(q)' <=> Busy(q)
  BY DEF Busy
<1>4. Alone'
  BY <1>3 DEF Alone
<1>5. MailKept'
  <2> SUFFICES ASSUME kind = "email", ~overlap', NEW q \in Runs PROVE MailOf(q)'
    BY DEF MailKept
  <2>1. CASE q = r
    BY <2>1
  <2>2. CASE q # r
    <3>1. ~Busy(q) /\ run'[q] = run[q] /\ MailOf(q)
      BY <2>2 DEF CloudInv, MailKept
    <3>. QED
      BY <2>2, <3>1, <1>3 DEF MailOf, Busy
  <2>. QED
    BY <2>1, <2>2
<1>6. MailLostOnlyByOverlap'
  BY DEF MailLostOnlyByOverlap
<1>7. Accounts'
  <2> SUFFICES ASSUME kind # "phone", ~overlap' PROVE (\A q \in Runs : AccountsOf(q)') /\ Settlement'
    BY DEF Accounts
  <2>1. \A q \in Runs \ {r} : ~Busy(q)'
    BY <1>3
  <2>2. \A q \in Runs : AccountsOf(q)'
    BY <2>1 DEF AccountsOf
  <2>3. Settlement'
    BY DEF Settlement, Retrying
  <2>. QED
    BY <2>2, <2>3
<1>8. Listing'
  BY DEF Listing
<1>. QED
  BY <1>2, <1>4, <1>5, <1>6, <1>7, <1>8 DEF CloudInv

LEMMA OthersRest ==
  ASSUME CloudInv, NEW r \in Runs, Busy(r), ~overlap
  PROVE  \A q \in Runs \ {r} : ~Busy(q)
  BY DEF CloudInv, Alone

(* A step of a run that goes on, the window and the control left alone.    *)
LEMMA RunGoesOn ==
  ASSUME CloudInv, NEW r \in Runs, Busy(r), DOMAIN run' = Runs, \A q \in Runs \ {r} : run'[q] = run[q],
         RunShape(r)', UNCHANGED <<kind, selected, mine, ref, stat, cleaning, source, view, res, overlap>>,
         UNCHANGED <<copies, fresh, timer>>,
         run'[r].retry = run[r].retry, run'[r].card = run[r].card, run'[r].st = run[r].st, run'[r].todo = run[r].todo,
         run'[r].left = run[r].left,
         run[r].pc \in Looping, run'[r].pc \in Looping, run[r].pc = "rollback" => run'[r].pc = "rollback",
         (run'[r].pc = "settle" /\ run[r].retry) => run[r].todo = {}
  PROVE  CloudInv'
<1>1. run[r].pc # "trash" /\ run'[r].pc # "trash" /\ Busy(r)' /\ run'[r].pc # "idle" /\ Shape
  BY DEF Looping, Busy, CloudInv
<1>2. (kind = "email" /\ ~overlap) => (MailOf(r)' /\ (Items \ source \subseteq Backing)')
  <2> SUFFICES ASSUME kind = "email", ~overlap PROVE MailOf(r)' /\ (Items \ source \subseteq Backing)'
    OBVIOUS
  <2>1. Counted(r) /\ (Items \ source \subseteq Backing)
    BY <1>1 DEF CloudInv, MailKept, MailOf, MailLostOnlyByOverlap
  <2>2. Counted(r)'
    BY <2>1 DEF Counted
  <2>. QED
    BY <1>1, <2>1, <2>2 DEF MailOf, Backing
<1>3. (kind # "phone" /\ ~overlap) => AccountsOf(r)
  BY DEF CloudInv, Accounts
<1>4. (kind # "phone" /\ ~overlap) => AccountsOf(r)'
  BY <1>1, <1>3 DEF AccountsOf, RetryOf, TakenOn, FailedItems
<1>5. (kind # "phone" /\ ~overlap /\ view' = "finished") => run'[r].retry
  BY <1>3, <1>1 DEF AccountsOf
<1>6. (kind # "phone" /\ ~overlap) => (view' = "finished" \/ Refreshing(r)')
  BY <1>3, <1>1 DEF AccountsOf, RetryOf, Refreshing
<1>. QED
  BY <1>1, <1>2, <1>4, <1>5, <1>6, OneRun, OthersRest DEF Shape

LEMMA RunKept ==
  ASSUME CloudInv, NEW r \in Runs, Busy(r), ~overlap
  PROVE  /\ kind = "email" => MailOf(r) /\ Items \ source \subseteq Backing
         /\ kind # "phone" => AccountsOf(r) /\ Settlement /\ Listing
         /\ \A q \in Runs : Refreshing(q) => q = r
  BY DEF CloudInv, MailKept, MailLostOnlyByOverlap, Accounts, Alone, Refreshing, Busy, Looping

----------------------------------------------------------------------------
(* The control changes what the gate does next, and wakes a parked run.    *)
LEMMA ControlKeeps ==
  ASSUME CloudInv, NEW n, Control(n),
         UNCHANGED <<kind, selected, mine, ref, stat, cleaning, source, view, res, overlap, copies, fresh, timer>>
  PROVE  CloudInv'
<1>1. CASE ref = 0
  BY <1>1, RunsSame, ShapeSame DEF Control, CloudInv, Shape
<1>2. CASE ref # 0
  <2>1. ref \in Runs /\ Shape /\ RunShape(ref)
    BY <1>2 DEF CloudInv, Shape
  <2> DEFINE c == SetControl(run[ref].ctl, n)
             p == Woken(run[ref].pc, c)
  <2>2. run' = [run EXCEPT ![ref] = [run[ref] EXCEPT !.ctl = c, !.pc = p]]
    BY <1>2 DEF Control
  <2>3. p \in {run[ref].pc, "gate"} /\ (p # run[ref].pc => run[ref].pc = "parked")
    BY DEF Woken
  <2>. HIDE DEF c, p
  <2>4. /\ DOMAIN run' = Runs /\ \A q \in Runs \ {ref} : run'[q] = run[q]
        /\ run'[ref] = [run[ref] EXCEPT !.ctl = c, !.pc = p]
    BY <2>1, <2>2 DEF Shape
  <2>5. /\ DOMAIN run'[ref] = DOMAIN run[ref] /\ run'[ref].pc = p
        /\ run'[ref].todo = run[ref].todo /\ run'[ref].st = run[ref].st /\ run'[ref].left = run[ref].left
        /\ run'[ref].retry = run[ref].retry /\ run'[ref].card = run[ref].card /\ run'[ref].cur = run[ref].cur
    BY <2>1, <2>4 DEF RunShape, RunFields
  <2>6. RunShape(ref)'
    BY <2>1, <2>3, <2>5 DEF RunShape, Stages
  <2>7. CASE p # run[ref].pc
    <3>1. p = "gate" /\ run[ref].pc = "parked"
      BY <2>3, <2>7
    <3>. QED
      BY <2>1, <2>4, <2>5, <2>6, <3>1, RunGoesOn DEF Busy, Looping
  <2>8. CASE p = run[ref].pc
    <3>1. \A q \in Runs : /\ run'[q].pc = run[q].pc /\ run'[q].todo = run[q].todo /\ run'[q].st = run[q].st
                          /\ run'[q].left = run[q].left /\ run'[q].retry = run[q].retry /\ run'[q].card = run[q].card
      BY <2>4, <2>5, <2>8
    <3>2. \A q \in Runs \ {ref} : RunShape(q)'
      BY <2>1, <2>4 DEF Shape, RunShape
    <3>3. Shape'
      BY <2>1, <2>4, <2>6, <3>2 DEF Shape
    <3>4. Alone'
      BY <3>1 DEF CloudInv, Alone, Busy
    <3>5. MailKept' /\ MailLostOnlyByOverlap'
      BY <3>1 DEF CloudInv, MailKept, MailOf, Counted, Busy, Backing, MailLostOnlyByOverlap
    <3>6. Accounts'
      <4>1. \A q \in Runs : AccountsOf(q) => AccountsOf(q)'
        BY <3>1, ZenonT(60) DEF AccountsOf, RetryOf, TakenOn, FailedItems, Busy
      <4>2. Settlement => Settlement'
        BY <3>1 DEF Settlement, Busy, Retrying, FailedItems
      <4>. QED
        BY <4>1, <4>2 DEF CloudInv, Accounts
    <3>7. Listing'
      BY <3>1 DEF CloudInv, Listing, Refreshing
    <3>. QED
      BY <3>3, <3>4, <3>5, <3>6, <3>7 DEF CloudInv
  <2>. QED
    BY <2>7, <2>8
<1>. QED
  BY <1>1, <1>2

LEMMA UserControls ==
  ASSUME CloudInv, TogglePause \/ RequestCancel \/ ResumeFromPrompt \/ \E a \in {"keep", "remove"} : ResolveCancel(a)
  PROVE  CloudInv'
<1>1. CASE TogglePause
  BY <1>1, ControlKeeps DEF TogglePause, set, ui, host, tidy, seen
<1>2. CASE RequestCancel
  BY <1>2, ControlKeeps DEF RequestCancel, set, ui, tidy, seen
<1>3. CASE ResumeFromPrompt
  BY <1>3, ControlKeeps DEF ResumeFromPrompt, set, ui, tidy, seen
<1>4. ASSUME NEW a \in {"keep", "remove"}, ResolveCancel(a) PROVE CloudInv'
  BY <1>4, ControlKeeps DEF ResolveCancel, set, ui, tidy, seen
<1>. QED
  BY <1>1, <1>2, <1>3, <1>4

(* The window: what it opens, picks, closes; the page; the clean-up.       *)
LEMMA WindowKeeps ==
  ASSUME CloudInv, Pick \/ OpenOverlay \/ CloseOverlay \/ Switch \/ Dismiss \/ Cleanup \/ CleanupPhone
  PROVE  CloudInv'
<1>1. UNCHANGED <<kind, run, copies, source, view, res, stat, mine, fresh, timer, overlap, ref>>
  BY DEF Pick, OpenOverlay, CloseOverlay, Switch, SwitchGoogle, SwitchPhone, SwitchEmail, Dismiss, Cleanup,
         CleanupPhone, set, ui, host, tidy, seen
<1>2. selected' \subseteq Items
  <2>1. CASE Pick
    <3>1. selected \subseteq Items /\ (PickRow \/ PickGroup \/ PickMail)
      BY <2>1 DEF Pick, CloudInv, Shape
    <3>2. CASE PickRow
      <4>1. PICK i \in Items : selected' = (selected \ {i}) \cup ({i} \ selected)
        BY <3>2 DEF PickRow, ToggleItem
      <4>. QED
        BY <3>1, <4>1
    <3>3. CASE PickGroup
      BY <3>1, <3>3, CloudBackupAssumption DEF PickGroup, ToggleGroup, Groups
    <3>4. CASE PickMail
      BY <3>1, <3>4 DEF PickMail, Filters, ToggleAllVisible, DeselectHidden, Listed
    <3>. QED
      BY <3>1, <3>2, <3>3, <3>4
  <2>2. CASE ~Pick
    BY <2>2 DEF OpenOverlay, CloseOverlay, Switch, Dismiss, Cleanup, CleanupPhone, ui, CloudInv, Shape
  <2>. QED
    BY <2>1, <2>2
<1>3. kind = "email" => cleaning' = {}
  BY DEF Pick, OpenOverlay, CloseOverlay, Switch, Dismiss, Cleanup, CleanupPhone, tidy, CloudInv, Shape
<1>. QED
  BY <1>1, <1>2, <1>3, RunsSame, ShapeSame DEF CloudInv, Shape

LEMMA OpenKeeps == ASSUME CloudInv, Open PROVE CloudInv'
<1>1. /\ UNCHANGED <<kind, run, copies, source, fresh, timer, overlap, ref, cleaning>>
      /\ view = "closed" /\ view' = "pick" /\ selected' = Items /\ mine' = {} /\ stat' = NoStatus
  BY DEF Open, Reset, ResetPhone, ResetEmail, set, host, seen
<1>2. Shape'
  BY <1>1, ShapeSame, NoStatusIs DEF CloudInv, Shape
<1>3. Accounts'
  BY <1>1 DEF CloudInv, Accounts, AccountsOf, RetryOf, Settlement, Busy
<1>4. Listing'
  BY <1>1 DEF CloudInv, Listing, Refreshing
<1>. QED
  BY <1>1, <1>2, <1>3, <1>4, NoRun

LEMMA CloseKeeps == ASSUME CloudInv, Close PROVE CloudInv'
<1>1. /\ UNCHANGED <<kind, run, copies, source, timer, overlap, ref, cleaning>>
      /\ view' = "closed" /\ selected' = {} /\ mine' = {} /\ stat' = NoStatus
  BY DEF Close, Unmounted, set, host, tidy
<1>2. kind # "phone" => view = "pick" \/ (view = "finished" /\ ~Retrying)
  BY DEF Close, CloseOffered
<1>3. fresh' = (fresh \/ view = "finished")
  BY DEF Close
<1>4. Shape'
  BY <1>1, NoStatusIs DEF CloudInv, Shape, RunShape
<1>5. Accounts'
  BY <1>1, <1>2 DEF CloudInv, Accounts, AccountsOf, RetryOf, Settlement, Busy, Retrying
<1>6. ~fresh' => ~fresh /\ view # "finished"
  BY <1>3, Zenon
<1>7. Listing'
  BY <1>1, <1>6 DEF CloudInv, Listing, Refreshing
<1>. QED
  BY <1>1, <1>4, <1>5, <1>7, NoRun

LEMMA PageKeeps == ASSUME CloudInv, LeavePage \/ TimerFires PROVE CloudInv'
<1>1. /\ UNCHANGED <<kind, run, copies, source, view, res, stat, mine, selected, cleaning>>
      /\ ref' \in {0, ref} /\ fresh' = TRUE
  BY DEF LeavePage, TimerFires, LiveFinish, set, ui, host, tidy
<1>2. overlap' = overlap \/ overlap' = (overlap \/ Over)
  BY DEF LeavePage, TimerFires
<1>3. (overlap => overlap') /\ (~overlap' => ~overlap) /\ fresh'
  <2>1. CASE overlap' = overlap
    BY <1>1, <2>1, Zenon
  <2>2. CASE overlap' = (overlap \/ Over)
    BY <1>1, <2>2, Zenon
  <2>. QED
    BY <1>2, <2>1, <2>2
<1>4. Shape'
  BY <1>1 DEF CloudInv, Shape, RunShape
<1>5. Accounts'
  BY <1>1, <1>3 DEF CloudInv, Accounts, AccountsOf, RetryOf, Settlement, Busy, Retrying, TakenOn, FailedItems
<1>6. Listing'
  BY <1>3 DEF Listing
<1>. QED
  BY <1>1, <1>3, <1>4, <1>5, <1>6, NoRun

LEMMA CleanKeeps == ASSUME CloudInv, CleanOne PROVE CloudInv'
<1>1. /\ UNCHANGED <<kind, run, copies, view, res, stat, mine, selected, ref, overlap, fresh, timer>>
      /\ cleaning # {}
  BY DEF CleanOne, set, ui, host, seen
<1>2. kind # "email"
  BY <1>1 DEF CloudInv, Shape
<1>3. Shape'
  BY <1>1, <1>2 DEF CloudInv, Shape, RunShape
<1>4. Alone' /\ MailKept' /\ MailLostOnlyByOverlap'
  BY <1>1, <1>2 DEF CloudInv, Alone, Busy, MailKept, MailLostOnlyByOverlap
<1>5. Accounts'
  BY <1>1 DEF CloudInv, Accounts, AccountsOf, RetryOf, Settlement, Busy, Retrying, TakenOn, FailedItems
<1>6. Listing'
  BY <1>1 DEF CloudInv, Listing, Refreshing
<1>. QED
  BY <1>3, <1>4, <1>5, <1>6 DEF CloudInv

----------------------------------------------------------------------------
(* Starting a run: with no other going on, unless the step is an overlap.  *)
LEMMA StartKeeps ==
  ASSUME CloudInv, NEW r \in Runs, Fresh(r), UNCHANGED <<kind, copies, source, cleaning, fresh, timer>>,
         overlap' = (overlap \/ Over), DOMAIN run' = Runs, \A q \in Runs \ {r} : run'[q] = run[q],
         RunShape(r)', run'[r].pc \in {"folder", "gate"}, run'[r].st = NoStatus,
         selected' \subseteq Items, mine' \subseteq Runs, ref' \in {0} \cup Runs, stat' \in [Items -> Statuses],
         (kind # "phone" /\ ~overlap') =>
            /\ AccountsOf(r)' /\ (view' = "finished" => run'[r].retry)
            /\ (view' = "finished" \/ view # "finished")
  PROVE  CloudInv'
<1>1. ~overlap' => ~overlap /\ ~Over
  BY Zenon
<1>2. run[r].pc = "idle" /\ Busy(r)' /\ run'[r].pc # "trash" /\ run'[r].pc # "idle"
  BY DEF Fresh, Busy
<1>3. ~overlap' => ~overlap /\ \A q \in Runs : ~Busy(q)
  BY <1>1 DEF Over
<1>4. (kind = "email" /\ ~overlap') => (MailOf(r)' /\ (Items \ source \subseteq Backing)')
  <2> SUFFICES ASSUME kind = "email", ~overlap' PROVE MailOf(r)' /\ (Items \ source \subseteq Backing)'
    OBVIOUS
  <2>1. MailOf(r) /\ Items \ source \subseteq Backing
    BY <1>3 DEF CloudInv, MailKept, MailLostOnlyByOverlap
  <2>2. \A i \in Items : <<i, r>> \notin copies'
    BY <2>1, <1>2 DEF MailOf
  <2>3. Counted(r)'
    BY <2>2, NoStatusIs DEF Counted
  <2>. QED
    BY <1>2, <2>1, <2>3 DEF MailOf, Backing
<1>5. (kind # "phone" /\ ~overlap' /\ ~fresh' /\ ~timer') => view' = "finished"
  <2> SUFFICES ASSUME kind # "phone", ~overlap', ~fresh', ~timer' PROVE view' = "finished"
    OBVIOUS
  <2>1. \A q \in Runs : ~Refreshing(q)
    BY <1>3 DEF Refreshing, Busy, Looping
  <2>2. view = "finished"
    BY <2>1, <1>3 DEF CloudInv, Listing
  <2>. QED
    BY <2>2
<1>. QED
  BY <1>2, <1>3, <1>4, <1>5, OneRun DEF CloudInv, Shape

LEMMA BeginKeeps ==
  ASSUME CloudInv, NEW r \in Runs, BackUpGoogle(r) \/ BackUpPhone(r)
  PROVE  CloudInv'
<1>1. /\ Fresh(r) /\ UNCHANGED <<kind, copies, source, cleaning, fresh, timer>>
      /\ overlap' = (overlap \/ Over) /\ view = "pick" /\ kind \in {"google", "phone"} /\ Shape
  BY DEF BackUpGoogle, BackUpPhone, set, tidy, seen, CanBackUp, CanBackUpPhone, CloudInv
<1>2. PICK b : run' = [run EXCEPT ![r] = Begun(r, b)]
  BY DEF BackUpGoogle, BackUpPhone, StartBackground, StartCard, StartWindow
<1>3. DOMAIN run' = Runs /\ (\A q \in Runs \ {r} : run'[q] = run[q]) /\ run'[r] = Begun(r, b)
  BY <1>1, <1>2 DEF Shape
<1>4. /\ RunFields \subseteq DOMAIN run'[r] /\ run'[r].pc = "gate" /\ run'[r].todo = selected
      /\ run'[r].st = NoStatus /\ run'[r].retry = FALSE
  BY <1>3 DEF Begun, NewRun, RunFields
<1>5. RunShape(r)'
  BY <1>1, <1>4, NoStatusIs DEF RunShape, Stages, Shape
<1>6. /\ selected' \in {{}, selected} /\ mine' \in {{}, mine \cup {r}} /\ ref' \in {ref, r}
      /\ stat' = NoStatus /\ view' # "finished"
  <2>1. CASE BackUpGoogle(r) /\ bg
    BY <2>1 DEF BackUpGoogle, StartBackground, StartCard, Unmounted
  <2>2. CASE BackUpGoogle(r) /\ ~bg
    BY <2>2 DEF BackUpGoogle, StartWindow
  <2>3. CASE BackUpPhone(r)
    BY <2>3 DEF BackUpPhone, Unmounted, host
  <2>. QED
    BY <2>1, <2>2, <2>3
<1>7. AccountsOf(r)'
  <2>1. ~run'[r].retry
    BY <1>4, Zenon
  <2>. QED
    BY <1>4, <1>6, <2>1 DEF AccountsOf
<1>. QED
  BY <1>1, <1>3, <1>4, <1>5, <1>6, <1>7, NoStatusIs, StartKeeps DEF Shape

LEMMA MailBegins ==
  ASSUME CloudInv, NEW r \in Runs, BackUpEmail(r)
  PROVE  CloudInv'
<1>1. /\ Fresh(r) /\ UNCHANGED <<kind, copies, source, cleaning, fresh, timer, ref, stat, selected, view>>
      /\ overlap' = (overlap \/ Over) /\ view = "pick" /\ Shape /\ kind = "email"
      /\ mine' \in {mine, mine \cup {r}}
  BY DEF BackUpEmail, set, tidy, seen, host, CanBackUp, CanBackUpEmail, CloudInv
<1>2. run'[r] = [NewRun EXCEPT !.pc = "folder", !.todo = selected, !.card = bg]
      /\ DOMAIN run' = Runs /\ (\A q \in Runs \ {r} : run'[q] = run[q])
  BY <1>1 DEF Shape, BackUpEmail
<1>3. /\ RunFields \subseteq DOMAIN run'[r] /\ run'[r].pc = "folder" /\ run'[r].todo = selected
      /\ run'[r].st = NoStatus /\ run'[r].retry = FALSE /\ run'[r].card = bg
  BY <1>2 DEF NewRun, RunFields
<1>5. RunShape(r)'
  BY <1>1, <1>3, NoStatusIs DEF RunShape, Stages, Shape
<1>6. AccountsOf(r)'
  <2>1. ~run'[r].retry
    BY <1>3, Zenon
  <2>. QED
    BY <1>1, <1>3, <2>1 DEF AccountsOf, Looping
<1>. QED
  BY <1>1, <1>2, <1>3, <1>5, <1>6, StartKeeps DEF Shape

LEMMA RetryBegins ==
  ASSUME CloudInv, NEW r \in Runs, RetryFailed(r)
  PROVE  CloudInv'
<1>1. /\ Fresh(r) /\ UNCHANGED <<kind, copies, source, cleaning, fresh, timer, ref, stat, selected, view, res>>
      /\ overlap' = (overlap \/ Over) /\ view = "finished" /\ Shape /\ kind # "phone" /\ ~Retrying
      /\ mine' = mine \cup {r}
  BY DEF RetryFailed, RetryOffered, set, tidy, seen, host, CloudInv
<1>2. run'[r] = [NewRun EXCEPT !.pc = "gate", !.todo = FailedItems, !.retry = TRUE]
      /\ DOMAIN run' = Runs /\ (\A q \in Runs \ {r} : run'[q] = run[q])
  BY <1>1 DEF Shape, RetryFailed
<1>3. /\ RunFields \subseteq DOMAIN run'[r] /\ run'[r].pc = "gate" /\ run'[r].todo = FailedItems
      /\ run'[r].st = NoStatus /\ run'[r].retry = TRUE /\ run'[r].card = FALSE
  BY <1>2 DEF NewRun, RunFields
<1>4. run'[r].retry
  BY <1>3, Zenon
<1>5. FailedItems \subseteq Items
  BY DEF FailedItems
<1>6. RunShape(r)'
  BY <1>1, <1>3, <1>5, NoStatusIs DEF RunShape, Stages, Shape
<1>7. (~overlap') => AccountsOf(r)'
  <2> SUFFICES ASSUME ~overlap' PROVE AccountsOf(r)'
    OBVIOUS
  <2>1. ~overlap
    BY <1>1, Zenon
  <2>2. res = Cardinality(FailedItems)
    BY <1>1, <2>1 DEF CloudInv, Accounts, Settlement
  <2>3. TakenOn(r)' = FailedItems
    BY <1>3, <1>5, NoStatusIs DEF TakenOn
  <2>4. RetryOf(r)'
    BY <1>1, <1>3, <2>2, <2>3, NoStatusIs DEF RetryOf, FailedItems
  <2>. QED
    BY <1>4, <2>4 DEF AccountsOf
<1>. QED
  BY <1>1, <1>2, <1>3, <1>4, <1>6, <1>7, StartKeeps DEF Shape

----------------------------------------------------------------------------
(* The loop.                                                               *)
LEMMA FolderKeeps ==
  ASSUME CloudInv, NEW r \in Runs, FolderReady(r)
  PROVE  CloudInv'
<1>1. /\ UNCHANGED <<kind, copies, source, cleaning, fresh, timer, overlap>>
      /\ Shape /\ RunShape(r) /\ run[r].pc = "folder" /\ run[r].st = NoStatus /\ ~run[r].retry
  BY DEF FolderReady, set, tidy, seen, CloudInv, Shape, RunShape
<1>2. run'[r] = [run[r] EXCEPT !.pc = "gate"] /\ DOMAIN run' = Runs /\ (\A q \in Runs \ {r} : run'[q] = run[q])
  BY <1>1 DEF Shape, FolderReady
<1>3. /\ RunFields \subseteq DOMAIN run'[r] /\ run'[r].pc = "gate" /\ run'[r].todo = run[r].todo
      /\ run'[r].st = NoStatus /\ run'[r].retry = run[r].retry /\ run'[r].left = run[r].left
      /\ run'[r].card = run[r].card
  BY <1>1, <1>2 DEF RunShape, RunFields
<1>4. RunShape(r)'
  BY <1>1, <1>3, NoStatusIs DEF RunShape, Stages
<1>5. /\ selected' \in {{}, selected} /\ mine' \in {{}, mine} /\ ref' = r
      /\ stat' \in {stat, NoStatus} /\ view' \in {view, "closed", "uploading"}
      /\ (r \in mine' => stat' = NoStatus)
  <2>1. CASE run[r].card
    BY <2>1 DEF FolderReady, Unmounted
  <2>2. CASE ~run[r].card
    BY <2>2 DEF FolderReady
  <2>. QED
    BY <2>1, <2>2
<1>6. Busy(r) /\ run'[r].pc # "trash" /\ run'[r].pc # "idle"
  BY <1>1, <1>3 DEF Busy
<1>7. (kind = "email" /\ ~overlap) => (MailOf(r)' /\ (Items \ source \subseteq Backing)')
  <2> SUFFICES ASSUME kind = "email", ~overlap PROVE MailOf(r)' /\ (Items \ source \subseteq Backing)'
    OBVIOUS
  <2>1. Counted(r) /\ (Items \ source \subseteq Backing)
    BY <1>1, <1>6, RunKept DEF MailOf
  <2>2. Counted(r)'
    BY <1>1, <1>3, <2>1 DEF Counted
  <2>. QED
    BY <1>1, <1>6, <2>1, <2>2 DEF MailOf, Backing
<1>8. (kind # "phone" /\ ~overlap) => view # "finished"
  BY <1>1, <1>6, RunKept DEF AccountsOf
<1>9. ((kind # "phone" /\ ~overlap) => (AccountsOf(r)' /\ view' # "finished")) /\ Refreshing(r)'
  BY <1>1, <1>3, <1>5, <1>8 DEF AccountsOf, Refreshing, Looping
<1>. QED
  BY <1>1, <1>2, <1>4, <1>5, <1>6, <1>7, <1>9, NoStatusIs, OneRun, OthersRest DEF Shape

LEMMA FolderFailsKeeps ==
  ASSUME CloudInv, NEW r \in Runs, FolderFails(r)
  PROVE  CloudInv'
<1>1. /\ UNCHANGED <<kind, copies, source, cleaning, fresh, timer, overlap, selected, mine, ref, stat, view, res>>
      /\ Shape /\ RunShape(r) /\ run[r].pc = "folder" /\ ~run[r].retry
  BY DEF FolderFails, set, tidy, seen, ui, host, CloudInv, Shape, RunShape
<1>2. run'[r] = Ended(r) /\ DOMAIN run' = Runs /\ (\A q \in Runs \ {r} : run'[q] = run[q])
  BY <1>1 DEF Shape, FolderFails
<1>3. run'[r].pc = "end" /\ RunShape(r)'
  BY <1>1, <1>2, EndedIs DEF RunShape, Stages
<1>4. Busy(r) /\ ~Busy(r)' /\ ~Refreshing(r)
  BY <1>1, <1>3 DEF Busy, Refreshing, Looping
<1>5. (kind = "email" /\ ~overlap) => (MailOf(r)' /\ (Items \ source \subseteq Backing)')
  BY <1>1, <1>3, <1>4, RunKept DEF MailOf, Backing
<1>6. (kind # "phone" /\ ~overlap) => (AccountsOf(r)' /\ view' # "finished" /\ Listing)
  BY <1>1, <1>4, RunKept DEF AccountsOf
<1>7. (kind # "phone" /\ ~overlap) => (fresh' \/ timer')
  BY <1>1, <1>4, <1>6, RunKept DEF Listing
<1>. QED
  BY <1>1, <1>2, <1>3, <1>4, <1>5, <1>6, <1>7, OneRun, OthersRest DEF Shape

LEMMA GateKeeps ==
  ASSUME CloudInv, NEW r \in Runs, Gate(r) \/ Settle(r)
  PROVE  CloudInv'
<1>1. /\ UNCHANGED <<kind, selected, mine, ref, stat, cleaning, source, view, res, overlap, copies, fresh, timer>>
      /\ Shape /\ RunShape(r) /\ run[r].pc \in {"gate", "settle"}
  BY DEF Gate, Settle, set, tidy, seen, ui, host, CloudInv, Shape
<1>2. DOMAIN run' = Runs /\ (\A q \in Runs \ {r} : run'[q] = run[q])
  BY <1>1 DEF Shape, Gate, Settle
<1>3. \/ run'[r] = [run[r] EXCEPT !.pc = "settle"] /\ Done(r)
      \/ run'[r] = [run[r] EXCEPT !.pc = "item", !.cur = Min(run[r].todo)] /\ ~Done(r)
      \/ run'[r] = [run[r] EXCEPT !.pc = "parked"] /\ ~run[r].retry
      \/ run'[r] = [run[r] EXCEPT !.pc = "settle", !.cancelled = TRUE] /\ ~run[r].retry
      \/ run'[r] = [run[r] EXCEPT !.pc = "rollback"] /\ ~run[r].retry
  <2>1. CASE Gate(r)
    BY <1>1, <2>1 DEF Gate, Shape
  <2>2. CASE Settle(r)
    BY <1>1, <2>2 DEF Settle, Shape
  <2>. QED
    BY <2>1, <2>2
<1>4. /\ RunFields \subseteq DOMAIN run'[r] /\ run'[r].pc \in {"settle", "item", "parked", "rollback"}
      /\ run'[r].retry = run[r].retry /\ run'[r].card = run[r].card /\ run'[r].st = run[r].st
      /\ run'[r].todo = run[r].todo /\ run'[r].left = run[r].left
      /\ (run'[r].pc = "item" => run[r].todo # {} /\ run'[r].cur = Min(run[r].todo))
      /\ (run'[r].pc \in {"parked", "rollback"} => ~run[r].retry)
      /\ ((run'[r].pc = "settle" /\ run[r].retry) => run[r].todo = {})
  <2>1. CASE run'[r] = [run[r] EXCEPT !.pc = "settle"] /\ Done(r)
    BY <1>1, <2>1 DEF RunShape, RunFields, Done
  <2>2. CASE run'[r] = [run[r] EXCEPT !.pc = "item", !.cur = Min(run[r].todo)] /\ ~Done(r)
    BY <1>1, <2>2 DEF RunShape, RunFields, Done
  <2>3. CASE run'[r] = [run[r] EXCEPT !.pc = "parked"] /\ ~run[r].retry
    BY <1>1, <2>3 DEF RunShape, RunFields
  <2>4. CASE run'[r] = [run[r] EXCEPT !.pc = "settle", !.cancelled = TRUE] /\ ~run[r].retry
    BY <1>1, <2>4 DEF RunShape, RunFields
  <2>5. CASE run'[r] = [run[r] EXCEPT !.pc = "rollback"] /\ ~run[r].retry
    BY <1>1, <2>5 DEF RunShape, RunFields
  <2>. QED
    BY <1>3, <2>1, <2>2, <2>3, <2>4, <2>5
<1>5. run'[r].pc = "item" => run'[r].cur \in run[r].todo
  BY <1>1, <1>4, LeastItem DEF RunShape
<1>6. RunShape(r)'
  BY <1>1, <1>4, <1>5 DEF RunShape, Stages
<1>. QED
  BY <1>1, <1>2, <1>4, <1>6, RunGoesOn DEF Busy, Looping

(* An item is settled, with what it left in the store.                     *)
LEMMA SettledKeeps ==
  ASSUME CloudInv, NEW r \in Runs, NEW s \in {"done", "duplicate", "error"}, Settled(r, s),
         run[r].pc \in {"item", "upload"},
         UNCHANGED <<kind, cleaning, selected, mine, ref, source, view, res, overlap>>,
         copies \subseteq copies', copies' \subseteq Items \X ({0} \cup Runs),
         \A i \in Items, q \in Runs \ {r} : <<i, q>> \in copies' => <<i, q>> \in copies,
         \A i \in Items : <<i, r>> \in copies' => (<<i, r>> \in copies \/ (i = run[r].cur /\ s = "done")),
         (kind = "email" /\ s = "done") => (run[r].cur \in source /\ <<run[r].cur, r>> \in copies'),
         (kind = "email" /\ s = "duplicate") => Held(r)
  PROVE  CloudInv'
<1> DEFINE c == run[r].cur
<1>1. Shape /\ RunShape(r) /\ c \in run[r].todo /\ c \in Items /\ run[r].st[c] = "none" /\ Busy(r) /\ run[r].pc # "trash"
      /\ run[r].todo \subseteq Items /\ run[r].st \in [Items -> Statuses]
  BY DEF CloudInv, Shape, RunShape, Busy
<1>2. DOMAIN run' = Runs /\ (\A q \in Runs \ {r} : run'[q] = run[q])
  BY <1>1 DEF Shape, Settled
<1>3. run' = [run EXCEPT ![r] = [run[r] EXCEPT !.pc = "gate", !.todo = run[r].todo \ {c},
                                               !.st = [run[r].st EXCEPT ![c] = s], !.cur = 0]]
  BY <1>1 DEF Settled, Rest, Shape, RunShape, RunFields
<1>. HIDE DEF c
<1>4. run'[r] = [run[r] EXCEPT !.pc = "gate", !.todo = run[r].todo \ {c}, !.st = [run[r].st EXCEPT ![c] = s], !.cur = 0]
  BY <1>1, <1>3 DEF Shape
<1>5. /\ RunFields \subseteq DOMAIN run'[r] /\ run'[r].pc = "gate" /\ run'[r].todo = run[r].todo \ {c}
      /\ run'[r].st = [run[r].st EXCEPT ![c] = s] /\ run'[r].retry = run[r].retry
      /\ run'[r].card = run[r].card /\ run'[r].left = run[r].left
  BY <1>1, <1>4 DEF RunShape, RunFields
<1>6. /\ run'[r].st \in [Items -> Statuses] /\ run'[r].st[c] = s
      /\ \A i \in Items : i # c => run'[r].st[i] = run[r].st[i]
  BY <1>1, <1>5 DEF Statuses
<1>7. RunShape(r)'
  BY <1>1, <1>5, <1>6 DEF RunShape, Stages
<1>8. stat' = (IF r \notin mine THEN stat ELSE [stat EXCEPT ![c] = s]) /\ stat' \in [Items -> Statuses]
  BY <1>1 DEF Settled, c, Shape, Statuses
<1>9. (kind = "email" /\ ~overlap) => (MailOf(r)' /\ (Items \ source \subseteq Backing)')
  <2> SUFFICES ASSUME kind = "email", ~overlap PROVE MailOf(r)' /\ (Items \ source \subseteq Backing)'
    OBVIOUS
  <2>1. Counted(r) /\ (Items \ source \subseteq Backing)
    BY <1>1, RunKept DEF MailOf
  <2>2. ASSUME NEW i \in Items
        PROVE  /\ (run'[r].st[i] = "done" => i \in source' /\ <<i, r>> \in copies')
               /\ (run'[r].st[i] = "duplicate" => \E q \in ({0} \cup Runs) \ {r} : <<i, q>> \in copies')
               /\ (<<i, r>> \in copies' => run'[r].st[i] = "done")
    <3>1. CASE i # c
      <4>1. run'[r].st[i] = run[r].st[i] /\ run[r].pc # "rollback"
        BY <1>6, <3>1
      <4>2. run[r].st[i] = "duplicate" => \E q \in ({0} \cup Runs) \ {r} : <<i, q>> \in copies'
        BY <2>1 DEF Counted
      <4>3. (run[r].st[i] = "done" => (i \in source' /\ <<i, r>> \in copies')) /\ (<<i, r>> \in copies => run[r].st[i] = "done")
        BY <2>1, <4>1 DEF Counted
      <4>. QED
        BY <3>1, <4>1, <4>2, <4>3 DEF c
    <3>2. CASE i = c
      <4>1. <<c, r>> \notin copies
        BY <1>1, <2>1 DEF Counted
      <4>2. s = "duplicate" => \E q \in ({0} \cup Runs) \ {r} : <<c, q>> \in copies
        BY <4>1, CloudBackupAssumption DEF Held, Backing, c, Runs
      <4>3. s = "done" => c \in source' /\ <<c, r>> \in copies'
        BY DEF c
      <4>. QED
        BY <1>6, <3>2, <4>1, <4>2, <4>3
    <3>. QED
      BY <3>1, <3>2
  <2>3. Counted(r)'
    BY <2>2 DEF Counted
  <2>. QED
    BY <1>5, <2>1, <2>3 DEF MailOf, Backing
<1>10. (kind # "phone" /\ ~overlap) => AccountsOf(r)'
  <2> SUFFICES ASSUME kind # "phone", ~overlap PROVE AccountsOf(r)'
    OBVIOUS
  <2>1. AccountsOf(r)
    BY <1>1, RunKept
  <2>2. CASE run[r].retry
    <3>1. RetryOf(r)
      BY <1>1, <2>1, <2>2 DEF AccountsOf
    <3>2. TakenOn(r)' = TakenOn(r)
      BY <1>1, <1>5, <1>6 DEF TakenOn
    <3>3. stat' = [stat EXCEPT ![c] = s] /\ stat \in [Items -> Statuses]
      BY <1>1, <1>8, <3>1 DEF RetryOf, Shape
    <3>4. \A i \in Items : stat'[i] = "error" <=> (i \in run'[r].todo \/ run'[r].st[i] = "error")
      BY <1>1, <1>5, <1>6, <3>1, <3>3 DEF RetryOf
    <3>5. RetryOf(r)'
      BY <1>1, <1>5, <3>1, <3>2, <3>4 DEF RetryOf
    <3>. QED
      BY <1>5, <2>2, <3>5 DEF AccountsOf
  <2>3. CASE ~run[r].retry
    <3>1. view # "finished" /\ (r \in mine => stat = run[r].st)
      BY <1>1, <2>1, <2>3 DEF AccountsOf, Looping
    <3>. QED
      BY <1>5, <1>8, <2>3, <3>1 DEF AccountsOf
  <2>. QED
    BY <2>2, <2>3
<1>11. (kind # "phone" /\ ~overlap) => (view = "finished" <=> run[r].retry)
  BY <1>1, RunKept DEF AccountsOf, RetryOf
<1>12. Busy(r)' /\ ((kind # "phone" /\ ~overlap) => (view' = "finished" \/ Refreshing(r)'))
  BY <1>5, <1>11 DEF Busy, Refreshing, Looping
<1>. QED
  BY <1>1, <1>2, <1>5, <1>7, <1>8, <1>9, <1>10, <1>11, <1>12, OneRun, OthersRest DEF Shape

(* The three ways an upload or a request ends, and the hash check.         *)
LEMMA CreditKeeps ==
  ASSUME CloudInv, NEW r \in Runs, Credit(r), run[r].pc \in {"item", "upload"},
         UNCHANGED <<kind, cleaning, selected, mine, ref, source, view, res, overlap>>,
         kind = "email" => run[r].cur \in source
  PROVE  CloudInv'
<1>1. /\ Settled(r, "done") /\ copies' = copies \cup {<<run[r].cur, r>>}
      /\ run[r].cur \in Items /\ copies \subseteq Items \X ({0} \cup Runs)
  BY DEF Credit, CloudInv, Shape, RunShape
<1>2. \A i \in Items, q \in Runs : <<i, q>> \in copies' => (<<i, q>> \in copies \/ (i = run[r].cur /\ q = r))
  BY <1>1
<1>3. copies \subseteq copies' /\ copies' \subseteq Items \X ({0} \cup Runs) /\ <<run[r].cur, r>> \in copies'
  BY <1>1
<1>. QED
  BY <1>1, <1>2, <1>3, SettledKeeps

LEMMA UnansweredKeeps ==
  ASSUME CloudInv, NEW r \in Runs, Unanswered(r), run[r].pc \in {"item", "upload"},
         UNCHANGED <<kind, cleaning, selected, mine, ref, source, view, res, overlap>>
  PROVE  CloudInv'
<1>1. /\ Settled(r, "error") /\ copies' = copies \cup {<<run[r].cur, 0>>}
      /\ run[r].cur \in Items /\ copies \subseteq Items \X ({0} \cup Runs)
  BY DEF Unanswered, CloudInv, Shape, RunShape
<1>2. \A i \in Items, q \in Runs : <<i, q>> \in copies' => <<i, q>> \in copies
  BY <1>1, RunsAre
<1>3. copies \subseteq copies' /\ copies' \subseteq Items \X ({0} \cup Runs)
  BY <1>1
<1>. QED
  BY <1>1, <1>2, <1>3, SettledKeeps

LEMMA NothingStored ==
  ASSUME CloudInv, NEW r \in Runs, NEW s \in {"duplicate", "error"}, Settled(r, s), run[r].pc \in {"item", "upload"},
         UNCHANGED <<kind, cleaning, selected, mine, ref, source, view, res, overlap, copies>>,
         s = "duplicate" => Held(r)
  PROVE  CloudInv'
<1>1. copies' \subseteq Items \X ({0} \cup Runs)
  BY DEF CloudInv, Shape
<1>. QED
  BY <1>1, SettledKeeps

LEMMA ItemKeeps ==
  ASSUME CloudInv, NEW r \in Runs, CheckHash(r) \/ Upload(r) \/ DownloadFails(r) \/ StoreMessage(r)
  PROVE  CloudInv'
<1>1. /\ UNCHANGED <<kind, cleaning, selected, mine, ref, source, view, res, overlap>>
      /\ run[r].pc \in {"item", "upload"} /\ Shape /\ RunShape(r)
  BY DEF CheckHash, Upload, DownloadFails, StoreMessage, set, tidy, seen, ui, host, CloudInv, Shape
<1>2. CASE CheckHash(r)
  <2>1. kind # "email" /\ run[r].pc = "item" /\ UNCHANGED <<copies, fresh, timer>>
    BY <1>2 DEF CheckHash, seen
  <2>2. CASE Held(r) /\ Settled(r, "duplicate")
    BY <1>1, <2>1, <2>2, NothingStored
  <2>3. CASE run' = [run EXCEPT ![r].pc = "upload"] /\ UNCHANGED stat
    <3>1. run'[r] = [run[r] EXCEPT !.pc = "upload"] /\ DOMAIN run' = Runs /\ (\A q \in Runs \ {r} : run'[q] = run[q])
      BY <1>1, <2>3 DEF Shape
    <3>2. /\ RunFields \subseteq DOMAIN run'[r] /\ run'[r].pc = "upload" /\ run'[r].todo = run[r].todo
          /\ run'[r].st = run[r].st /\ run'[r].retry = run[r].retry /\ run'[r].left = run[r].left
          /\ run'[r].card = run[r].card /\ run'[r].cur = run[r].cur
      BY <1>1, <3>1 DEF RunShape, RunFields
    <3>3. RunShape(r)'
      BY <1>1, <2>1, <3>2 DEF RunShape, Stages
    <3>. QED
      BY <1>1, <2>1, <2>3, <3>1, <3>2, <3>3, RunGoesOn DEF Busy, Looping
  <2>. QED
    BY <1>2, <2>2, <2>3 DEF CheckHash
<1>3. CASE Upload(r)
  <2>1. run[r].pc = "upload" /\ kind # "email"
    BY <1>1, <1>3 DEF Upload, RunShape
  <2>2. CASE Credit(r)
    BY <1>1, <2>1, <2>2, CreditKeeps
  <2>3. CASE Unanswered(r)
    BY <1>1, <2>3, UnansweredKeeps
  <2>4. CASE Failed(r)
    BY <1>1, <2>4, NothingStored DEF Failed
  <2>. QED
    BY <1>3, <2>2, <2>3, <2>4 DEF Upload
<1>4. CASE DownloadFails(r)
  <2>1. Settled(r, "error") /\ UNCHANGED copies
    BY <1>4 DEF DownloadFails, Failed
  <2>. QED
    BY <1>1, <2>1, NothingStored
<1>5. CASE StoreMessage(r)
  <2>1. run[r].cur \in source
    BY <1>5 DEF StoreMessage
  <2>2. CASE Held(r) /\ Settled(r, "duplicate") /\ UNCHANGED copies
    BY <1>1, <2>2, NothingStored
  <2>3. CASE Credit(r)
    BY <1>1, <2>1, <2>3, CreditKeeps
  <2>4. CASE Unanswered(r)
    BY <1>1, <2>4, UnansweredKeeps
  <2>. QED
    BY <1>5, <2>2, <2>3, <2>4 DEF StoreMessage
<1>. QED
  BY <1>2, <1>3, <1>4, <1>5

----------------------------------------------------------------------------
(* The rollback.                                                           *)
LEMMA RemoveKeeps ==
  ASSUME CloudInv, NEW r \in Runs, RemoveOne(r)
  PROVE  CloudInv'
<1> DEFINE i == Min(Own(r))
<1>1. /\ UNCHANGED <<kind, cleaning, selected, mine, ref, stat, source, view, res, overlap, timer>>
      /\ run[r].pc = "rollback" /\ Shape /\ RunShape(r) /\ Own(r) # {}
  BY DEF RemoveOne, set, tidy, ui, host, CloudInv, Shape
<1>2. i \in Own(r)
  BY <1>1, LeastItem DEF Own
<1>3. i \in Items /\ run[r].st[i] = "done" /\ i \notin run[r].left /\ <<i, r>> \in copies
  BY <1>2 DEF Own
<1>. HIDE DEF i
<1>4. CASE run' = [run EXCEPT ![r].left = @ \cup {i}] /\ UNCHANGED <<copies, fresh>>
  <2>1. /\ run'[r] = [run[r] EXCEPT !.left = run[r].left \cup {i}]
        /\ DOMAIN run' = Runs /\ (\A q \in Runs \ {r} : run'[q] = run[q])
    BY <1>1, <1>4 DEF Shape
  <2>2. /\ RunFields \subseteq DOMAIN run'[r] /\ run'[r].pc = run[r].pc /\ run'[r].todo = run[r].todo
        /\ run'[r].st = run[r].st /\ run'[r].retry = run[r].retry /\ run'[r].left = run[r].left \cup {i}
        /\ run'[r].card = run[r].card /\ run'[r].cur = run[r].cur
    BY <1>1, <2>1 DEF RunShape, RunFields
  <2>3. RunShape(r)' /\ Busy(r) /\ ~run[r].retry
    BY <1>1, <2>2 DEF RunShape, Stages, Busy
  <2>4. (kind = "email" /\ ~overlap) => (MailOf(r)' /\ (Items \ source \subseteq Backing)')
    <3> SUFFICES ASSUME kind = "email", ~overlap PROVE MailOf(r)' /\ (Items \ source \subseteq Backing)'
      OBVIOUS
    <3>1. Counted(r) /\ (Items \ source \subseteq Backing)
      BY <1>1, <2>3, RunKept DEF MailOf
    <3>2. Counted(r)'
      BY <1>3, <1>4, <1>1, <2>2, <3>1 DEF Counted
    <3>. QED
      BY <1>1, <1>4, <2>2, <3>1, <3>2 DEF MailOf, Backing
  <2>5. (kind # "phone" /\ ~overlap) => (AccountsOf(r)' /\ view' # "finished")
    BY <1>1, <2>2, <2>3, RunKept DEF AccountsOf, Looping, Busy
  <2>6. Refreshing(r)'
    BY <1>1, <2>2, <2>3 DEF Refreshing, Looping
  <2>. QED
    BY <1>1, <1>4, <2>1, <2>3, <2>4, <2>5, <2>6, OneRun, OthersRest DEF Shape
<1>5. CASE copies' = copies \ {<<i, r>>} /\ run' = run
  <2>1. Busy(r) /\ ~run[r].retry /\ run[r].pc # "trash"
    BY <1>1 DEF RunShape, Busy
  <2>2. (kind = "email" /\ ~overlap) => (MailOf(r)' /\ (Items \ source \subseteq Backing)')
    <3> SUFFICES ASSUME kind = "email", ~overlap PROVE MailOf(r)' /\ (Items \ source \subseteq Backing)'
      OBVIOUS
    <3>1. Counted(r) /\ (Items \ source \subseteq Backing) /\ i \in source
      BY <1>1, <1>3, <2>1, RunKept DEF MailOf, Counted
    <3>2. \A j \in Items, q \in {0} \cup Runs : (j # i \/ q # r) => (<<j, q>> \in copies' <=> <<j, q>> \in copies)
      BY <1>5
    <3>3. ASSUME NEW j \in Items
          PROVE  /\ (run[r].st[j] = "done" => (j \in source /\ (<<j, r>> \in copies' \/ j \notin run[r].left)))
                 /\ (run[r].st[j] = "duplicate" => \E q \in ({0} \cup Runs) \ {r} : <<j, q>> \in copies')
                 /\ (<<j, r>> \in copies' => run[r].st[j] = "done")
      <4>1. /\ (run[r].st[j] = "done" => (j \in source /\ (<<j, r>> \in copies \/ j \notin run[r].left)))
            /\ (run[r].st[j] = "duplicate" => \E q \in ({0} \cup Runs) \ {r} : <<j, q>> \in copies)
            /\ (<<j, r>> \in copies => run[r].st[j] = "done")
        BY <3>1 DEF Counted
      <4>. QED
        BY <1>3, <1>5, <4>1, <3>2
    <3>4. Counted(r)'
      BY <1>1, <1>5, <3>3 DEF Counted
    <3>5. \A j \in Items \ source : j \in Backing'
      BY <3>1, <3>2, CloudBackupAssumption DEF Backing, Runs
    <3>. QED
      BY <1>1, <1>5, <2>1, <3>4, <3>5 DEF MailOf
  <2>3. (kind # "phone" /\ ~overlap) => (AccountsOf(r)' /\ view' # "finished")
    BY <1>1, <1>5, <2>1, RunKept DEF AccountsOf, Busy
  <2>4. Refreshing(r)'
    BY <1>1, <1>5, <2>1 DEF Refreshing, Looping
  <2>5. RunShape(r)' /\ copies' \subseteq Items \X ({0} \cup Runs) /\ DOMAIN run' = Runs
    BY <1>1, <1>5 DEF Shape, RunShape
  <2>. QED
    BY <1>1, <1>5, <2>1, <2>2, <2>3, <2>4, <2>5, OneRun, OthersRest DEF Shape
<1>. QED
  BY <1>4, <1>5 DEF RemoveOne, i

----------------------------------------------------------------------------
(* The end of a run, and the deletions that may follow it.                 *)
LEMMA AfterRunIs ==
  ASSUME Shape, NEW r \in Runs, AfterRun(r), kind' = kind
  PROVE  /\ DOMAIN run' = Runs /\ (\A q \in Runs \ {r} : run'[q] = run[q]) /\ RunShape(r)'
         /\ (DeleteAfter(r) => /\ run'[r].pc = "trash" /\ run'[r].todo = BackedUp(r) /\ run'[r].st = run[r].st
                               /\ run'[r].retry = run[r].retry /\ run'[r].card = run[r].card)
         /\ (~DeleteAfter(r) => run'[r].pc = "end")
<1>1. RunShape(r) /\ DOMAIN run = Runs
  BY DEF Shape
<1>2. DOMAIN run' = Runs /\ (\A q \in Runs \ {r} : run'[q] = run[q])
  BY <1>1 DEF AfterRun
<1>3. CASE DeleteAfter(r)
  <2>1. run'[r] = [run[r] EXCEPT !.pc = "trash", !.todo = BackedUp(r)]
    BY <1>1, <1>3 DEF AfterRun
  <2>2. /\ RunFields \subseteq DOMAIN run'[r] /\ run'[r].pc = "trash" /\ run'[r].todo = BackedUp(r)
        /\ run'[r].st = run[r].st /\ run'[r].retry = run[r].retry /\ run'[r].card = run[r].card
    BY <1>1, <2>1 DEF RunShape, RunFields
  <2>3. kind = "email" /\ BackedUp(r) \subseteq Items
    BY <1>3 DEF DeleteAfter, BackedUp
  <2>4. RunShape(r)'
    BY <1>1, <2>2, <2>3 DEF RunShape, Stages
  <2>. QED
    BY <1>2, <1>3, <2>2, <2>4
<1>4. CASE ~DeleteAfter(r)
  <2>1. run'[r] = Ended(r)
    BY <1>1, <1>4 DEF AfterRun
  <2>2. run'[r].pc = "end" /\ RunShape(r)'
    BY <2>1, EndedIs DEF RunShape, Stages
  <2>. QED
    BY <1>2, <1>4, <2>2
<1>. QED
  BY <1>3, <1>4

LEMMA AfterRunMail ==
  ASSUME CloudInv, NEW r \in Runs, AfterRun(r), UNCHANGED <<kind, copies, source>>,
         run[r].pc \in {"settle", "rollback"}, kind = "email", ~overlap
  PROVE  MailOf(r)' /\ (Items \ source \subseteq Backing)'
<1>1. Shape /\ Busy(r) /\ run[r].pc # "trash"
  BY DEF CloudInv, Busy
<1>2. Counted(r) /\ (Items \ source \subseteq Backing)
  BY <1>1, RunKept DEF MailOf
<1>3. CASE DeleteAfter(r)
  <2>1. run'[r].pc = "trash" /\ run'[r].todo = BackedUp(r)
    BY <1>1, <1>3, AfterRunIs
  <2>2. ASSUME NEW i \in BackedUp(r) PROVE i \in Backing
    <3>1. i \in Items /\ run[r].st[i] \in {"done", "duplicate"}
      BY <2>2 DEF BackedUp
    <3>2. CASE run[r].st[i] = "done"
      <4>1. <<i, r>> \in copies
        BY <1>2, <1>3, <3>1, <3>2 DEF Counted, DeleteAfter, Removed
      <4>. QED
        BY <3>1, <4>1, CloudBackupAssumption DEF Backing, Runs
    <3>3. CASE run[r].st[i] = "duplicate"
      BY <1>2, <3>1, <3>3, CloudBackupAssumption DEF Counted, Backing, Runs
    <3>. QED
      BY <3>1, <3>2, <3>3
  <2>3. \A i \in BackedUp(r) : i \in Backing'
    BY <2>2 DEF Backing
  <2>. QED
    BY <1>2, <2>1, <2>3 DEF MailOf, Backing
<1>4. CASE ~DeleteAfter(r)
  <2>1. run'[r].pc = "end"
    BY <1>1, <1>4, AfterRunIs
  <2>. QED
    BY <1>2, <2>1 DEF MailOf, Backing, Busy
<1>. QED
  BY <1>3, <1>4

LEMMA FinishKeeps ==
  ASSUME CloudInv, NEW r \in Runs, FinishCard(r) \/ FinishGoogle(r) \/ FinishEmail(r)
  PROVE  CloudInv'
<1>1. /\ UNCHANGED <<kind, copies, source, cleaning, selected, mine, stat, overlap>>
      /\ AfterRun(r) /\ Ending(r) /\ ref' = 0 /\ kind # "phone" /\ fresh' = TRUE
      /\ Shape /\ RunShape(r)
  BY DEF FinishCard, FinishGoogle, FinishEmail, LiveFinish, set, tidy, ui, CloudInv, Shape
<1>2. run[r].pc \in {"settle", "rollback"} /\ ~run[r].retry /\ Busy(r) /\ run[r].pc \in Looping /\ fresh'
  <2>1. fresh'
    BY <1>1, Zenon
  <2>. QED
    BY <1>1, <2>1 DEF Ending, Busy, Looping
<1>3. ~overlap => view # "finished" /\ (r \in mine => stat = run[r].st)
  BY <1>1, <1>2, RunKept DEF AccountsOf
<1>4. \/ UNCHANGED <<view, res>> /\ run[r].card
      \/ /\ res' = (IF r \in mine THEN Errors(r) ELSE res)
         /\ view' \in {view, "finished"} /\ (view' # view => r \in mine)
  <2>1. CASE FinishCard(r)
    BY <2>1 DEF FinishCard, ui
  <2>2. CASE FinishGoogle(r)
    BY <2>2 DEF FinishGoogle, ShowFinished
  <2>3. CASE FinishEmail(r)
    BY <2>3 DEF FinishEmail, ShowFinished
  <2>. QED
    BY <2>1, <2>2, <2>3
<1>5. DeleteAfter(r) => (kind = "email" /\ view' = view)
  <2>1. CASE FinishCard(r)
    BY <2>1 DEF FinishCard, ui, DeleteAfter
  <2>2. CASE FinishGoogle(r)
    BY <2>2 DEF FinishGoogle, DeleteAfter
  <2>3. CASE FinishEmail(r)
    BY <2>3 DEF FinishEmail, DeleteAfter
  <2>. QED
    BY <2>1, <2>2, <2>3
<1>6. (~overlap /\ r \in mine) => Errors(r) = Cardinality(FailedItems')
  BY <1>1, <1>3 DEF Errors, FailedItems
<1>7. ~overlap => AccountsOf(r)' /\ (view' = "finished" => res' = Cardinality(FailedItems'))
  <2> SUFFICES ASSUME ~overlap PROVE AccountsOf(r)' /\ (view' = "finished" => res' = Cardinality(FailedItems'))
    OBVIOUS
  <2>1. view' = "finished" => res' = Cardinality(FailedItems')
    BY <1>3, <1>4, <1>6
  <2>2. CASE DeleteAfter(r)
    <3>1. run'[r].pc = "trash" /\ run'[r].retry = run[r].retry /\ run'[r].card = run[r].card
      BY <1>1, <2>2, AfterRunIs
    <3>2. (r \in mine /\ ~run[r].card) => res' = Cardinality(FailedItems')
      BY <1>4, <1>6
    <3>. QED
      BY <1>1, <1>2, <1>3, <1>5, <2>1, <2>2, <3>1, <3>2 DEF AccountsOf, Looping
  <2>3. CASE ~DeleteAfter(r)
    <3>1. run'[r].pc = "end"
      BY <1>1, <2>3, AfterRunIs
    <3>. QED
      BY <2>1, <3>1 DEF AccountsOf, Busy
  <2>. QED
    BY <2>2, <2>3
<1>8. (kind = "email" /\ ~overlap) => (MailOf(r)' /\ (Items \ source \subseteq Backing)')
  BY <1>1, <1>2, AfterRunMail
<1>9. DOMAIN run' = Runs /\ (\A q \in Runs \ {r} : run'[q] = run[q]) /\ RunShape(r)'
  BY <1>1, AfterRunIs
<1>. QED
  BY <1>1, <1>2, <1>7, <1>8, <1>9, OneRun, OthersRest DEF Shape

LEMMA FinishPhoneKeeps ==
  ASSUME CloudInv, NEW r \in Runs, FinishPhone(r)
  PROVE  CloudInv'
<1>1. /\ UNCHANGED <<kind, copies, source, cleaning, selected, mine, stat, overlap, ref>>
      /\ AfterRun(r) /\ Ending(r) /\ kind = "phone" /\ Shape /\ Busy(r)
  BY DEF FinishPhone, Ending, Busy, host, set, tidy, CloudInv
<1>2. DOMAIN run' = Runs /\ (\A q \in Runs \ {r} : run'[q] = run[q]) /\ RunShape(r)'
  BY <1>1, AfterRunIs
<1>. QED
  BY <1>1, <1>2, OneRun, OthersRest DEF Shape

LEMMA RetryDoneKeeps ==
  ASSUME CloudInv, NEW r \in Runs, RetryDone(r)
  PROVE  CloudInv'
<1>1. /\ UNCHANGED <<kind, copies, source, cleaning, selected, mine, stat, overlap, view, ref>>
      /\ AfterRun(r) /\ run[r].pc = "settle" /\ run[r].retry /\ (r \in mine => res' = Merged(r))
      /\ Shape /\ RunShape(r) /\ Busy(r)
  BY DEF RetryDone, Busy, set, tidy, ui, host, CloudInv, Shape
<1>2. (kind # "phone" /\ ~overlap) =>
        /\ view = "finished" /\ r \in mine /\ run[r].todo = {} /\ res = Cardinality(TakenOn(r))
        /\ \A i \in Items : stat[i] = "error" <=> (i \in run[r].todo \/ run[r].st[i] = "error")
  BY <1>1, RunKept DEF AccountsOf, RetryOf
<1>3. (kind # "phone" /\ ~overlap) => res' = Cardinality(FailedItems')
  <2> SUFFICES ASSUME kind # "phone", ~overlap PROVE res' = Cardinality(FailedItems')
    OBVIOUS
  <2> DEFINE T == {i \in Items : run[r].st[i] # "none"}
             E == {i \in Items : run[r].st[i] = "error"}
  <2>1. TakenOn(r) = T
    BY <1>2 DEF TakenOn
  <2>2. FailedItems' = E
    BY <1>1, <1>2 DEF FailedItems
  <2>3. Cardinality(T) \in Nat /\ Cardinality(E) \in Nat
    BY ItemsCounted
  <2>4. res' = res - Cardinality(T) + Cardinality(E)
    BY <1>1, <1>2 DEF Merged, Retried, Errors
  <2>5. res = Cardinality(T)
    BY <1>2, <2>1
  <2>. HIDE DEF T, E
  <2>. QED
    BY <2>2, <2>3, <2>4, <2>5
<1>4. (kind # "phone" /\ ~overlap) => AccountsOf(r)'
  <2> SUFFICES ASSUME kind # "phone", ~overlap PROVE AccountsOf(r)'
    OBVIOUS
  <2>1. CASE DeleteAfter(r)
    <3>1. run'[r].pc = "trash" /\ run'[r].retry = run[r].retry
      BY <1>1, <2>1, AfterRunIs
    <3>2. RetryOf(r)'
      BY <1>1, <1>2, <1>3, <3>1 DEF RetryOf
    <3>. QED
      BY <1>1, <3>1, <3>2 DEF AccountsOf
  <2>2. CASE ~DeleteAfter(r)
    <3>1. run'[r].pc = "end"
      BY <1>1, <2>2, AfterRunIs
    <3>. QED
      BY <3>1 DEF AccountsOf, Busy
  <2>. QED
    BY <2>1, <2>2
<1>5. (kind = "email" /\ ~overlap) => (MailOf(r)' /\ (Items \ source \subseteq Backing)')
  BY <1>1, AfterRunMail
<1>6. DOMAIN run' = Runs /\ (\A q \in Runs \ {r} : run'[q] = run[q]) /\ RunShape(r)'
  BY <1>1, AfterRunIs
<1>. QED
  BY <1>1, <1>2, <1>3, <1>4, <1>5, <1>6, OneRun, OthersRest DEF Shape

LEMMA TrashKeeps ==
  ASSUME CloudInv, NEW r \in Runs, TrashOne(r)
  PROVE  CloudInv'
<1> DEFINE i == Min(run[r].todo)
<1>1. /\ UNCHANGED <<kind, copies, cleaning, selected, mine, stat, overlap, view, res, ref, fresh, timer>>
      /\ run[r].pc = "trash" /\ run[r].todo # {} /\ Shape /\ RunShape(r) /\ Busy(r) /\ kind = "email"
  BY DEF TrashOne, Busy, set, ui, host, seen, CloudInv, Shape, RunShape
<1>2. i \in run[r].todo
  BY <1>1, LeastItem DEF RunShape
<1>3. source' \in {source, source \ {i}} /\ run' = [run EXCEPT ![r].todo = run[r].todo \ {i}]
  BY <1>1 DEF TrashOne
<1>. HIDE DEF i
<1>4. /\ run'[r] = [run[r] EXCEPT !.todo = run[r].todo \ {i}]
      /\ DOMAIN run' = Runs /\ (\A q \in Runs \ {r} : run'[q] = run[q])
  BY <1>1, <1>3 DEF Shape
<1>5. /\ RunFields \subseteq DOMAIN run'[r] /\ run'[r].pc = "trash" /\ run'[r].todo = run[r].todo \ {i}
      /\ run'[r].st = run[r].st /\ run'[r].retry = run[r].retry /\ run'[r].card = run[r].card
  BY <1>1, <1>4 DEF RunShape, RunFields
<1>6. RunShape(r)'
  BY <1>1, <1>5 DEF RunShape, Stages
<1>7. ~overlap => MailOf(r)' /\ (Items \ source \subseteq Backing)'
  <2> SUFFICES ASSUME ~overlap PROVE MailOf(r)' /\ (Items \ source \subseteq Backing)'
    OBVIOUS
  <2>1. (\A j \in run[r].todo : j \in Backing) /\ (Items \ source \subseteq Backing) /\ Backing' = Backing
    BY <1>1, RunKept DEF MailOf, Backing
  <2>2. (Items \ source)' \subseteq (Items \ source) \cup {i}
    BY <1>3
  <2>3. i \in Backing
    BY <1>2, <2>1
  <2>. QED
    BY <1>5, <2>1, <2>2, <2>3 DEF MailOf
<1>8. ~overlap => AccountsOf(r) /\ Settlement /\ Listing
  BY <1>1, RunKept
<1>9. ~overlap => AccountsOf(r)'
  BY <1>1, <1>5, <1>8 DEF AccountsOf, RetryOf, FailedItems, Looping, Busy
<1>10. Busy(r)' /\ (~overlap => (view = "finished" => run[r].retry))
  BY <1>1, <1>5, <1>8 DEF AccountsOf, Busy
<1>11. (~overlap /\ ~fresh' /\ ~timer') => view' = "finished"
  <2> SUFFICES ASSUME ~overlap, ~fresh', ~timer' PROVE view' = "finished"
    OBVIOUS
  <2>1. view = "finished" \/ \E q \in Runs : Refreshing(q)
    BY <1>1, <1>8 DEF Listing
  <2>2. ~Refreshing(r)
    BY <1>1 DEF Refreshing, Looping
  <2>. QED
    BY <1>1, <2>1, <2>2, RunKept
<1>. QED
  BY <1>1, <1>4, <1>5, <1>6, <1>7, <1>9, <1>10, <1>11, OneRun, OthersRest DEF Shape

LEMMA TrashDoneKeeps ==
  ASSUME CloudInv, NEW r \in Runs, TrashDone(r)
  PROVE  CloudInv'
<1>1. /\ UNCHANGED <<kind, copies, source, cleaning, selected, mine, stat, overlap, res, ref, fresh, timer>>
      /\ run[r].pc = "trash" /\ Shape /\ RunShape(r) /\ Busy(r) /\ kind = "email" /\ run' = [run EXCEPT ![r] = Ended(r)]
  BY DEF TrashDone, Busy, set, tidy, host, seen, CloudInv, Shape, RunShape
<1>2. view' = view \/ (view' = "finished" /\ r \in mine /\ ~run[r].card /\ ~run[r].retry)
  BY DEF TrashDone, ShowFinished
<1>3. run'[r] = Ended(r) /\ DOMAIN run' = Runs /\ (\A q \in Runs \ {r} : run'[q] = run[q])
  BY <1>1 DEF Shape
<1>4. run'[r].pc = "end" /\ RunShape(r)' /\ ~Busy(r)'
  BY <1>1, <1>3, EndedIs DEF RunShape, Stages, Busy
<1>5. ~overlap => MailOf(r)' /\ (Items \ source \subseteq Backing)'
  BY <1>1, <1>4, RunKept DEF MailOf, Backing
<1>6. ~overlap => AccountsOf(r) /\ Settlement /\ Listing
  BY <1>1, RunKept
<1>7. ~overlap => AccountsOf(r)' /\ (view' = "finished" => res' = Cardinality(FailedItems'))
  <2> SUFFICES ASSUME ~overlap PROVE AccountsOf(r)' /\ (view' = "finished" => res' = Cardinality(FailedItems'))
    OBVIOUS
  <2>1. (view = "finished" => res = Cardinality(FailedItems))
        /\ ((r \in mine /\ ~run[r].card /\ ~run[r].retry) => res = Cardinality(FailedItems))
    BY <1>1, <1>6 DEF AccountsOf, RetryOf
  <2>. QED
    BY <1>1, <1>2, <1>4, <2>1 DEF AccountsOf, FailedItems
<1>8. (~overlap /\ ~fresh' /\ ~timer') => view' = "finished"
  <2> SUFFICES ASSUME ~overlap, ~fresh', ~timer' PROVE view' = "finished"
    OBVIOUS
  <2>1. view = "finished" \/ \E q \in Runs : Refreshing(q)
    BY <1>1, <1>6 DEF Listing
  <2>2. ~Refreshing(r)
    BY <1>1 DEF Refreshing, Looping
  <2>. QED
    BY <1>1, <1>2, <2>1, <2>2, RunKept
<1>. QED
  BY <1>1, <1>3, <1>4, <1>5, <1>7, <1>8, OneRun, OthersRest DEF Shape

----------------------------------------------------------------------------
LEMMA CloudStep == ASSUME CloudInv, [Next]_vars PROVE CloudInv'
<1>1. CASE User
  BY <1>1, UserControls, WindowKeeps, OpenKeeps, CloseKeeps, PageKeeps, BeginKeeps, MailBegins, RetryBegins DEF User
<1>2. CASE CleanOne \/ TimerFires
  BY <1>2, CleanKeeps, PageKeeps
<1>3. ASSUME NEW r \in Runs, Work(r) PROVE CloudInv'
  BY <1>3, FolderKeeps, FolderFailsKeeps, GateKeeps, ItemKeeps, RemoveKeeps, FinishKeeps, FinishPhoneKeeps,
     RetryDoneKeeps, TrashKeeps, TrashDoneKeeps DEF Work
<1>4. CASE UNCHANGED vars
  BY <1>4, RunsSame, ShapeSame DEF vars, set, ui, host, tidy, seen, CloudInv, Shape
<1>. QED
  BY <1>1, <1>2, <1>3, <1>4 DEF Next

(* The invariant holds in every reachable state.                           *)
THEOREM CloudInvariance == Spec => []CloudInv
  BY CloudInitially, CloudStep, PTL DEF Spec

(* A message that left the mailbox is in the store, unless two runs went   *)
(* on together: deleteProviderMessages only gets what the run counts as    *)
(* backed up, and a rollback takes from the store what is still there.     *)
THEOREM MailNeverLost == Spec => []MailLostOnlyByOverlap
<1>1. CloudInv => MailLostOnlyByOverlap
  BY DEF CloudInv
<1>. QED
  BY <1>1, CloudInvariance, PTL

(* The finished window counts as failed what its rows mark as failed,      *)
(* whatever was retried and failed again (handleRetryFailed).              *)
THEOREM RetriesAccounted == Spec => []RetryAccounts
<1>1. CloudInv => RetryAccounts
  BY DEF CloudInv, Accounts, Settlement, RetryAccounts
<1>. QED
  BY <1>1, CloudInvariance, PTL

(* With the window closed and no run or timer left, the listings show what *)
(* is stored, unless two runs went on together (useBackupLiveSync).        *)
THEOREM ListingsFresh == Spec => []ListingFresh
<1>1. CloudInv => ListingFresh
  <2>1. \A r \in Runs : Refreshing(r) => Busy(r)
    BY DEF Refreshing, Busy, Looping
  <2>. QED
    BY <2>1 DEF CloudInv, Listing, ListingFresh, Over
<1>. QED
  BY <1>1, CloudInvariance, PTL

----------------------------------------------------------------------------
(* The types of what the window, the card and the provider hold.           *)
Settings == bg \in BOOLEAN /\ del \in BOOLEAN
Screens ==
  /\ view \in {"closed", "pick", "uploading", "finished"} /\ overlay \in {"none", "dest", "preview", "settings"}
  /\ card \in {"none", "running", "finished"} /\ action \in {"keep", "remove"} /\ prompt \in BOOLEAN
Provider == source \subseteq Items /\ cleaning \subseteq Items
Result == res \in Int /\ res <= Cardinality(Items)
TypesInv == Settings /\ Screens /\ Provider /\ Result

LEMMA TypesInitially == Init => TypesInv
<1>1. Init => Settings
  BY DEF Init, Settings
<1>2. Init => Screens /\ Provider
  BY DEF Init, Screens, Provider
<1>3. Init => Result
  BY ItemsCounted DEF Init, Result
<1>. QED
  BY <1>1, <1>2, <1>3 DEF TypesInv

LEMMA SettingsKept == ASSUME Settings, Next PROVE Settings'
<1>1. CASE Switch
  BY <1>1 DEF Settings, Switch, SwitchGoogle, SwitchPhone, SwitchEmail
<1>2. CASE ~Switch
  <2>1. UNCHANGED set
    BY <1>2 DEF Next, User, Work, CleanOne, TimerFires, Open, Pick, OpenOverlay, CloseOverlay, Close,
                TogglePause, RequestCancel, ResumeFromPrompt, ResolveCancel, BackUpGoogle, BackUpPhone, BackUpEmail,
                RetryFailed, Dismiss, LeavePage, Cleanup, CleanupPhone, FolderReady, FolderFails, Gate, CheckHash,
                Upload, DownloadFails, StoreMessage, Settle, RemoveOne, FinishCard, FinishGoogle, FinishEmail,
                FinishPhone, TrashOne, TrashDone, RetryDone
  <2>. QED
    BY <2>1 DEF Settings, set
<1>. QED
  BY <1>1, <1>2

LEMMA ProviderKept == ASSUME Shape, Provider, Next PROVE Provider'
<1>1. CASE Cleanup \/ CleanupPhone
  BY <1>1 DEF Provider, Cleanup, CleanupPhone
<1>2. CASE CleanOne
  BY <1>2 DEF Provider, CleanOne
<1>3. ASSUME NEW r \in Runs, TrashOne(r) PROVE Provider'
  BY <1>3 DEF Provider, TrashOne
<1>4. CASE ~(Cleanup \/ CleanupPhone \/ CleanOne) /\ \A r \in Runs : ~TrashOne(r)
  <2>1. UNCHANGED <<source, cleaning>>
    BY <1>4 DEF Next, User, Work, TimerFires, Open, Pick, OpenOverlay, CloseOverlay, Close, Switch,
                Reset, ResetPhone, ResetEmail, tidy,
                TogglePause, RequestCancel, ResumeFromPrompt, ResolveCancel, BackUpGoogle, BackUpPhone, BackUpEmail,
                RetryFailed, Dismiss, LeavePage, FolderReady, FolderFails, Gate, CheckHash,
                Upload, DownloadFails, StoreMessage, Settle, RemoveOne, FinishCard, FinishGoogle, FinishEmail,
                FinishPhone, TrashDone, RetryDone
  <2>. QED
    BY <2>1 DEF Provider
<1>. QED
  BY <1>1, <1>2, <1>3, <1>4

LEMMA ScreensKept == ASSUME Screens, Next PROVE Screens'
<1>1. CASE Open \/ Pick \/ OpenOverlay \/ CloseOverlay \/ Switch \/ Close \/ Dismiss \/ LeavePage
  BY <1>1 DEF Screens, Open, Reset, ResetPhone, ResetEmail, Pick, OpenOverlay, CloseOverlay, ApplyDest, ApplyDestPhone,
              ClosePreview, Switch, Close, Unmounted, Dismiss, LeavePage, ui, host
<1>2. CASE TogglePause \/ RequestCancel \/ ResumeFromPrompt \/ \E a \in {"keep", "remove"} : ResolveCancel(a)
  BY <1>2 DEF Screens, TogglePause, RequestCancel, ResumeFromPrompt, ResolveCancel, ui, host
<1>3. ASSUME NEW r \in Runs, BackUpGoogle(r) \/ BackUpPhone(r) \/ BackUpEmail(r) \/ RetryFailed(r) PROVE Screens'
  BY <1>3 DEF Screens, BackUpGoogle, BackUpPhone, BackUpEmail, RetryFailed, StartBackground, StartCard, StartWindow,
              Unmounted, ui, host
<1>4. CASE Cleanup \/ CleanupPhone \/ CleanOne \/ TimerFires
  BY <1>4 DEF Screens, Cleanup, CleanupPhone, CleanOne, TimerFires, ui, host
<1>5. ASSUME NEW r \in Runs, Work(r) PROVE Screens'
  <2>1. CASE FolderReady(r) \/ FolderFails(r) \/ Gate(r) \/ Settle(r) \/ RemoveOne(r)
    BY <2>1 DEF Screens, FolderReady, FolderFails, Gate, Settle, RemoveOne, Unmounted, ui, host
  <2>2. CASE CheckHash(r) \/ Upload(r) \/ DownloadFails(r) \/ StoreMessage(r)
    BY <2>2 DEF Screens, CheckHash, Upload, DownloadFails, StoreMessage, ui, host
  <2>3. CASE FinishCard(r) \/ FinishGoogle(r) \/ FinishEmail(r) \/ FinishPhone(r)
    BY <2>3 DEF Screens, FinishCard, FinishGoogle, FinishEmail, FinishPhone, ShowFinished, ShowFinishedPhone, ui, host
  <2>4. CASE TrashOne(r) \/ TrashDone(r) \/ RetryDone(r)
    BY <2>4 DEF Screens, TrashOne, TrashDone, RetryDone, ShowFinished, ui, host
  <2>. QED
    BY <1>5, <2>1, <2>2, <2>3, <2>4 DEF Work
<1>. QED
  BY <1>1, <1>2, <1>3, <1>4, <1>5 DEF Next, User

(* What an ended run or a retry leaves as the failed count.                *)
LEMMA Counts ==
  ASSUME NEW r \in Runs
  PROVE  /\ Errors(r) \in Nat /\ Errors(r) <= Cardinality(Items)
         /\ Retried(r) \in Nat /\ Errors(r) <= Retried(r)
<1> DEFINE T == {i \in Items : run[r].st[i] # "none"}
           E == {i \in Items : run[r].st[i] = "error"}
<1>1. E \subseteq T /\ T \subseteq Items /\ E \subseteq Items
  OBVIOUS
<1>2. IsFiniteSet(T) /\ IsFiniteSet(Items) /\ Cardinality(T) \in Nat /\ Cardinality(E) \in Nat
  BY ItemsCounted
<1>. HIDE DEF T, E
<1>3. Cardinality(E) <= Cardinality(T) /\ Cardinality(E) <= Cardinality(Items)
  BY <1>1, <1>2, FS_Subset
<1>. QED
  BY <1>2, <1>3 DEF Errors, Retried, T, E

LEMMA ResultKept == ASSUME Result, Next PROVE Result'
<1>1. Cardinality(Items) \in Nat
  BY ItemsCounted
<1>2. ASSUME NEW r \in Runs, Work(r) PROVE Result'
  <2>1. res' \in {res, -1, Errors(r), Merged(r)}
    BY <1>2 DEF Work, FolderReady, FolderFails, Gate, CheckHash, Upload, DownloadFails, StoreMessage, Settle, RemoveOne,
                FinishCard, FinishGoogle, FinishEmail, FinishPhone, ShowFinishedPhone, TrashOne, TrashDone, RetryDone,
                Unmounted
  <2>2. Merged(r) = res - Retried(r) + Errors(r)
    BY DEF Merged
  <2>. QED
    BY <1>1, <2>1, <2>2, Counts DEF Result
<1>3. CASE \A r \in Runs : ~Work(r)
  <2>1. res' \in {res, -1}
    BY <1>3 DEF Next, User, CleanOne, TimerFires, Open, Reset, ResetPhone, ResetEmail, Pick, OpenOverlay, CloseOverlay,
                Switch, Close, Unmounted, TogglePause, RequestCancel, ResumeFromPrompt, ResolveCancel, BackUpGoogle,
                BackUpPhone, BackUpEmail, StartBackground, StartWindow, RetryFailed, Dismiss, LeavePage, Cleanup,
                CleanupPhone
  <2>. QED
    BY <1>1, <2>1 DEF Result
<1>. QED
  BY <1>2, <1>3

LEMMA TypesStep == ASSUME Shape, TypesInv, [Next]_vars PROVE TypesInv'
<1>1. CASE Next
  BY <1>1, SettingsKept, ScreensKept, ProviderKept, ResultKept DEF TypesInv
<1>2. CASE UNCHANGED vars
  BY <1>2 DEF TypesInv, Settings, Screens, Provider, Result, vars, set, ui, host, tidy
<1>. QED
  BY <1>1, <1>2

(* The window, the runs and the store keep their types; a run that is not  *)
(* deleting has no status yet for an item it still has to settle.          *)
THEOREM CloudTypes == Spec => []BackupTypeOK
<1>1. CloudInv => Shape
  BY DEF CloudInv
<1>2. Shape /\ TypesInv => BackupTypeOK
  <2> SUFFICES ASSUME Shape, TypesInv PROVE BackupTypeOK
    OBVIOUS
  <2>1. {0} \cup Runs = 0..MaxRuns
    BY CloudBackupAssumption DEF Runs
  <2>2. copies \subseteq Items \X (0..MaxRuns) /\ ref \in 0..MaxRuns
    BY <2>1 DEF Shape
  <2>3. \A r \in Runs : run[r].pc # "trash" => \A i \in run[r].todo : run[r].st[i] = "none"
    BY DEF Shape, RunShape
  <2>. QED
    BY <2>2, <2>3 DEF Shape, TypesInv, Settings, Screens, Provider, Result, BackupTypeOK
<1>. QED
  BY <1>1, <1>2, CloudInvariance, TypesInitially, TypesStep, PTL DEF Spec
=============================================================================
