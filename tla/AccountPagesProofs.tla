------------------------- MODULE AccountPagesProofs -------------------------
(***************************************************************************)
(* What is proved of the pages on which accounts, capacity and money move: *)
(* expansion requests, premium orders, the administration of users, the    *)
(* registration by invitation, buying storage, requests for access with    *)
(* their deposits, and the invitations that answer them.  The page does    *)
(* not change, a step is a step of the page shown, and each page has an    *)
(* inductive invariant of its own.                                         *)
(*                                                                         *)
(* The arguments count.  An expansion's quota is what provisioning under   *)
(* way has added in advance, and one more from the moment a provisioning   *)
(* succeeds until the hourly loop takes it back.  An order's capacity is   *)
(* reduced once for a revert and once for a refund.  A drive holds the     *)
(* users and the open slots of its group, and is short by one for a        *)
(* request that has its drive and has not yet used up its slot.            *)
(***************************************************************************)
EXTENDS ClientPages, TLAPS, WellFoundedInduction, FiniteSetTheorems

(* The pages count with the operator of FiniteSets.                        *)
LEMMA SameCount == \A S : /\ Orders!Cardinality(S) = Cardinality(S)
                          /\ Bans!Cardinality(S) = Cardinality(S)
                          /\ Invite!Cardinality(S) = Cardinality(S)
BY DEF Orders!Cardinality, Bans!Cardinality, Invite!Cardinality, Cardinality

(* A set of numbers has a least one.                                       *)
LEMMA Least == ASSUME NEW S, S \subseteq Nat, S # {}
               PROVE  \E i \in S : \A j \in S : i <= j
<1>1. PICK i \in S : \A j \in S : ~(<<j, i>> \in OpToRel(<, Nat))
  BY NatLessThanWellFounded, WFMin
<1>2. \A j \in S : ~(j < i)
  BY <1>1 DEF OpToRel
<1>. QED
  BY <1>2

----------------------------------------------------------------------------
(* Expansion requests.                                                     *)

(* The fields the argument speaks of are there.                            *)
ExpansionFields ==
  /\ {"st", "quota", "ever", "adding", "loop"} \subseteq DOMAIN srv /\ "told" \in DOMAIN ui
  /\ srv.quota \in Int /\ srv.adding \in Nat /\ srv.ever \in BOOLEAN

(* A provisioned request never comes back before its provisioning.         *)
Provisioned == /\ srv.ever => srv.st \in {"expanded", "completed", "refunded", "expired"}
               /\ srv.st = "expanded" => srv.ever

(* What is added is what provisioning has under way, and one more.         *)
Surplus == srv.quota - srv.adding
Counted ==
  /\ Surplus \in 0 .. 1
  /\ Surplus = 1 => srv.ever /\ srv.st # "expired"
  /\ srv.loop = "taken" => srv.ever /\ Surplus = 0
  /\ srv.loop = "listed" \/ (srv.st = "expanded" /\ srv.loop # "taken") => Surplus = 1

ExpansionInv == ExpansionFields /\ Provisioned /\ Counted /\ Expansion!ReceivedIsPaid

----------------------------------------------------------------------------
(* It holds at first, ...                                                  *)
LEMMA ExpansionInitially == Expansion!Init => ExpansionInv
BY DEF Expansion!Init, Expansion!Opened, Expansion!NoInvoice, ExpansionInv, ExpansionFields,
   Provisioned, Counted, Surplus,
       Expansion!ReceivedIsPaid

(* ... every step keeps it, ...                                            *)
LEMMA ExpansionStep == ExpansionInv /\ [Expansion!Next]_Expansion!vars => ExpansionInv'
<1> SUFFICES ASSUME ExpansionInv, [Expansion!Next]_Expansion!vars PROVE ExpansionInv'
  OBVIOUS
<1> USE DEF ExpansionInv, ExpansionFields, Provisioned, Counted, Surplus, Expansion!ReceivedIsPaid,
            Expansion!St, Expansion!When
<1>1. CASE Expansion!ListMine
  BY <1>1 DEF Expansion!ListMine
<1>2. CASE Expansion!OpenPay
  BY <1>2 DEF Expansion!OpenPay, Expansion!PayOffered
<1>3. CASE Expansion!AutoOpenPay
  BY <1>3 DEF Expansion!AutoOpenPay
<1>4. CASE Expansion!ClosePay
  BY <1>4 DEF Expansion!ClosePay, Expansion!Dropped
<1>5. CASE Expansion!GetPayUrl
  BY <1>5 DEF Expansion!GetPayUrl, Expansion!Ordered
<1>6. CASE Expansion!PayPalApp
  BY <1>6 DEF Expansion!PayPalApp, Expansion!Ordered
<1>7. CASE Expansion!ApproveAtPayPal
  BY <1>7 DEF Expansion!ApproveAtPayPal
<1>8. CASE Expansion!CheckoutReturn
  BY <1>8 DEF Expansion!CheckoutReturn, Expansion!Dropped
<1>9. CASE Expansion!VerifyApp
  BY <1>9 DEF Expansion!VerifyApp
<1>10. CASE Expansion!CancelApp
  BY <1>10 DEF Expansion!CancelApp, Expansion!Dropped
<1>11. CASE Expansion!ApplePayApp
  BY <1>11 DEF Expansion!ApplePayApp
<1>12. CASE Expansion!CaptureBalance
  BY <1>12 DEF Expansion!CaptureBalance, Expansion!Failed, Expansion!Dropped
<1>13. CASE Expansion!SettleBalance
  BY <1>13 DEF Expansion!SettleBalance, Expansion!MarkPaid, Expansion!AwaitsPayment,
     Expansion!Failed, Expansion!Dropped
<1>14. CASE Expansion!LeaveInvoice
  BY <1>14 DEF Expansion!LeaveInvoice, Expansion!NoInvoice
<1>15. CASE Expansion!AcceptInvoice
  BY <1>15 DEF Expansion!AcceptInvoice, Expansion!Accepted
<1>16. CASE Expansion!CreateInvoiceDepositOrder
  BY <1>16 DEF Expansion!CreateInvoiceDepositOrder
<1>17. CASE Expansion!CaptureInvoiceDeposit
  BY <1>17 DEF Expansion!CaptureInvoiceDeposit
<1>18. CASE Expansion!AcceptWithDeposit
  BY <1>18 DEF Expansion!AcceptWithDeposit, Expansion!Accepted
<1>19. CASE Expansion!DeclineInvoice
  BY <1>19 DEF Expansion!DeclineInvoice, Expansion!Rejected
<1>20. CASE Expansion!ListRequests
  BY <1>20 DEF Expansion!ListRequests
<1>21. CASE Expansion!SendInvoice
  BY <1>21 DEF Expansion!SendInvoice, Expansion!Superseded, Expansion!Forms
<1>22. CASE Expansion!ApproveRequest
  BY <1>22 DEF Expansion!ApproveRequest
<1>23. CASE Expansion!Provision
  BY <1>23 DEF Expansion!Provision
<1>24. CASE Expansion!FinishProvision
  <2>1. CASE srv.st \in {"opened", "approved"}
    <3>1. ~srv.ever /\ Surplus = 0
      BY <2>1
    <3>2. srv' = [Expansion!St(IF srv.owed
              THEN "expanded" ELSE "completed") EXCEPT !.adding = @ - 1, !.ever = TRUE]
      BY <1>24, <2>1 DEF Expansion!FinishProvision
    <3>3. /\ srv'.st \in {"expanded", "completed"} /\ srv'.adding = srv.adding - 1 /\ srv'.ever
          /\ srv'.quota = srv.quota /\ srv'.loop = srv.loop
      BY <3>2
    <3>4. ui' = ui /\ srv.adding > 0 /\ srv.loop \notin {"listed", "taken"} /\ ~ui.told
      BY <1>24, <2>1, <3>1 DEF Expansion!FinishProvision
    <3>5. ExpansionFields'
      BY <3>2, <3>3, <3>4
    <3>. QED
      BY <3>1, <3>3, <3>4, <3>5
  <2>2. CASE srv.st \notin {"opened", "approved"}
    BY <1>24, <2>2 DEF Expansion!FinishProvision, Expansion!RollBack
  <2>. QED
    BY <2>1, <2>2
<1>25. CASE Expansion!CancelRequest
  BY <1>25 DEF Expansion!CancelRequest, Expansion!Rejected
<1>26. CASE Expansion!RecordCancel
  BY <1>26 DEF Expansion!RecordCancel, Expansion!Open
<1>27. CASE Expansion!ExpireOne
  BY <1>27 DEF Expansion!ExpireOne, Expansion!Expirable
<1>28. CASE Expansion!RecordExpiry
  BY <1>28 DEF Expansion!RecordExpiry, Expansion!Expirable
<1>29. CASE Expansion!ListUnpaid
  BY <1>29 DEF Expansion!ListUnpaid
<1>30. CASE Expansion!TakeBack
  BY <1>30 DEF Expansion!TakeBack
<1>31. CASE Expansion!RevertExpansion
  BY <1>31 DEF Expansion!RevertExpansion
<1>32. ASSUME NEW t \in Expansion!Tokens, Expansion!OpenInvoice(t) PROVE ExpansionInv'
  BY <1>32 DEF Expansion!OpenInvoice
<1>33. ASSUME NEW t \in Expansion!Tokens, Expansion!ExpireInvoice(t) PROVE ExpansionInv'
  BY <1>33 DEF Expansion!ExpireInvoice, Expansion!Expirable
<1>34. CASE UNCHANGED Expansion!vars
  BY <1>34 DEF Expansion!vars
<1>. QED
  BY <1>1, <1>2, <1>3, <1>4, <1>5, <1>6, <1>7, <1>8, <1>9, <1>10, <1>11, <1>12, <1>13, <1>14, <1>15,
     <1>16, <1>17, <1>18, <1>19, <1>20, <1>21, <1>22, <1>23, <1>24, <1>25, <1>26, <1>27, <1>28,
     <1>29, <1>30, <1>31, <1>32, <1>33, <1>34 DEF Expansion!Next, Expansion!Customer,
     Expansion!Administrators, Expansion!Loop

(* ... and it is what the page promises, and more.                         *)
LEMMA ExpansionPromises == ExpansionInv => Expansion!CapacityBacked /\ Expansion!ReceivedIsPaid
BY DEF ExpansionInv, ExpansionFields, Provisioned, Counted, Surplus, Expansion!CapacityBacked,
   Expansion!ReceivedIsPaid

----------------------------------------------------------------------------
(* Premium orders.                                                         *)

(* The fields the argument speaks of are there; an upgrade that is being   *)
(* approved or confirmed is of a subscription.                             *)
OrdersFields ==
  /\ {"subs", "hooks", "premium", "charge", "kept", "renew", "kind", "order", "reverted", "quota", "moving"}
       \subseteq DOMAIN srv
  /\ DOMAIN srv.subs = Orders!Ids /\ \A i \in Orders!Ids : {"st", "ended"} \subseteq DOMAIN srv.subs[i]
  /\ srv.quota \in Int /\ srv.renew \in Orders!Ids \cup {0}
  /\ {"screen", "premium"} \subseteq DOMAIN ui /\ {"phase", "sub", "order"} \subseteq DOMAIN ui.screen
  /\ ui.screen.phase \in {"away", "confirming"} => ui.screen.sub \in Orders!Ids

(* The ways in which the capacity of an order was taken back.              *)
TakenBack == (IF srv.reverted THEN 1 ELSE 0) + (IF srv.order = "refunded" THEN 1 ELSE 0)
(* Capacity is what is left of one order after that, and only a captured   *)
(* order is on its way to a refund.                                        *)
Balanced == /\ Orders!NoFreePremium /\ Orders!ChargeAccounted /\ srv.quota >= 1 - TakenBack
            /\ srv.moving = "refund" => srv.order = "captured"
OrdersInv == OrdersFields /\ Balanced

(* A subscription that is created takes a number that no other has.        *)
LEMMA NextSubFresh == ASSUME Orders!Fresh # {} PROVE Orders!NextSub \in Orders!Fresh
<1>1. Orders!Fresh \subseteq Nat
  BY DEF Orders!Fresh, Orders!Ids
<1>. QED
  BY <1>1, Least DEF Orders!NextSub

(* The invariant holds at first, ...                                       *)
LEMMA OrdersInitially == Orders!Init => OrdersInv
<1> SUFFICES ASSUME Orders!Init PROVE OrdersInv
  OBVIOUS
<1>1. PICK k \in {"premium", "storage"}, b \in BOOLEAN :
          srv = [subs |-> [i \in Orders!Ids |-> IF k = "premium"
              THEN Orders!NoSub ELSE Orders!Past], hooks |-> {},
                 premium |-> k = "premium", charge |-> FALSE, kept |-> FALSE, renew |-> 0, kind |-> k,
                 sandbox |-> b, order |-> "captured", reverted |-> FALSE, quota |-> 1, moving |-> "none"]
  BY DEF Orders!Init
<1>2. ui.screen = Orders!NoScreen /\ {"screen", "premium"} \subseteq DOMAIN ui
  BY DEF Orders!Init
<1>3. \A i \in Orders!Ids : {"st", "ended"} \subseteq DOMAIN srv.subs[i]
  BY <1>1 DEF Orders!NoSub, Orders!Past
<1>4. OrdersFields
  BY <1>1, <1>2, <1>3 DEF OrdersFields, Orders!NoScreen
<1>5. /\ srv.premium <=> k = "premium"
      /\ srv.kind = k /\ srv.order = "captured" /\ ~srv.reverted /\ ~srv.kept
      /\ srv.quota = 1 /\ srv.moving = "none"
  BY <1>1
<1>. QED
  BY <1>4, <1>5 DEF OrdersInv, Balanced, TakenBack, Orders!NoFreePremium, Orders!ChargeAccounted

(* ... a subscription that is created keeps it, from the page and the app, *)
LEMMA CreateKeeps == ASSUME OrdersInv, Orders!Preflight, Orders!CreateSubscription PROVE OrdersInv'
BY NextSubFresh DEF OrdersInv, OrdersFields, Balanced, Orders!NoFreePremium, Orders!ChargeAccounted,
   TakenBack, Orders!LiveSub, Orders!Live,
   Orders!Preflight, Orders!CreateSubscription, Orders!GiveUp, Orders!NoSub, Orders!Fresh

(* ... and so does every step; ...                                         *)
LEMMA OrdersStep == OrdersInv /\ [Orders!Next]_Orders!vars => OrdersInv'
<1> SUFFICES ASSUME OrdersInv, [Orders!Next]_Orders!vars PROVE OrdersInv'
  OBVIOUS
<1> USE DEF OrdersInv, OrdersFields, Balanced, Orders!NoFreePremium, Orders!ChargeAccounted,
   TakenBack, Orders!LiveSub, Orders!Live
<1>1. CASE Orders!LoadMe
  BY <1>1 DEF Orders!LoadMe
<1>2. CASE Orders!OpenUpgrade
  BY <1>2 DEF Orders!OpenUpgrade, Orders!Screen
<1>3. CASE Orders!CloseUpgrade
  BY <1>3 DEF Orders!CloseUpgrade, Orders!Close, Orders!NoScreen
<1>4. CASE Orders!ChooseCard
  BY <1>4 DEF Orders!ChooseCard, Orders!Screen
<1>5. CASE Orders!BackFromCard
  BY <1>5 DEF Orders!BackFromCard, Orders!Screen
<1>6. CASE Orders!SubscribePage
  BY <1>6, CreateKeeps DEF Orders!SubscribePage
<1>7. CASE Orders!SubscribeApp
  BY <1>7, CreateKeeps DEF Orders!SubscribeApp
<1>8. CASE Orders!ApproveAtPayPal
  BY <1>8 DEF Orders!ApproveAtPayPal
<1>9. CASE Orders!ReturnApproved
  BY <1>9 DEF Orders!ReturnApproved, Orders!Screen, Orders!Close, Orders!NoScreen
<1>10. CASE Orders!ConfirmApp
  BY <1>10 DEF Orders!ConfirmApp, Orders!Screen
<1>11. CASE Orders!CancelApp
  BY <1>11 DEF Orders!CancelApp, Orders!Close, Orders!NoScreen
<1>12. CASE Orders!Confirm
  BY <1>12 DEF Orders!Confirm, Orders!Activate, Orders!Screen
<1>13. CASE Orders!CreateSelfBilledOrder
  BY <1>13 DEF Orders!CreateSelfBilledOrder
<1>14. CASE Orders!CaptureSelfBilled
  BY <1>14 DEF Orders!CaptureSelfBilled
<1>15. CASE Orders!ActivateSelfBilled
  <2>1. CASE Orders!LiveSub = {} /\ Orders!Fresh # {}
    <3>1. srv' = [srv EXCEPT !.charge = FALSE, !.premium = TRUE,
                    !.subs[Orders!NextSub] = [Orders!NoSub EXCEPT !.st = "active", !.self = TRUE]]
      BY <1>15, <2>1 DEF Orders!ActivateSelfBilled
    <3>2. Orders!NextSub \in Orders!Ids
      BY <2>1, NextSubFresh DEF Orders!Fresh
    <3>3. /\ DOMAIN srv'.subs = Orders!Ids /\ srv'.subs[Orders!NextSub].st = "active"
          /\ \A i \in Orders!Ids : {"st", "ended"} \subseteq DOMAIN srv'.subs[i]
      BY <3>1, <3>2 DEF Orders!NoSub
    <3>4. Orders!NextSub \in Orders!LiveSub'
      BY <3>2, <3>3
    <3>. QED
      BY <1>15, <2>1, <3>1, <3>3, <3>4 DEF Orders!ActivateSelfBilled, Orders!Screen
  <2>2. CASE ~(Orders!LiveSub = {} /\ Orders!Fresh # {})
    BY <1>15, <2>2 DEF Orders!ActivateSelfBilled, Orders!RefundUngranted
  <2>. QED
    BY <2>1, <2>2
<1>16. CASE Orders!CancelMembership
  BY <1>16 DEF Orders!CancelMembership, Orders!PayPalCancelled, Orders!Revoke, Orders!RevokeEffects
<1>17. CASE Orders!RevertByHand
  BY <1>17 DEF Orders!RevertByHand, Orders!Revertable, Orders!Reverted, Orders!Undo,
     Orders!RevokeEffects
<1>18. CASE Orders!RefundOrder
  BY <1>18 DEF Orders!RefundOrder, Orders!RefundOpen
<1>19. CASE Orders!MarkRefunded
  BY <1>19 DEF Orders!MarkRefunded, Orders!Undo, Orders!RevokeEffects
<1>20. CASE Orders!RecordRenewal
  BY <1>20 DEF Orders!RecordRenewal
<1>21. CASE Orders!FailRenewal
  BY <1>21 DEF Orders!FailRenewal, Orders!Revoke, Orders!RevokeEffects
<1>22. CASE Orders!AutoRevert
  BY <1>22 DEF Orders!AutoRevert, Orders!Revertable, Orders!Reverted, Orders!Undo, Orders!RevokeEffects
<1>23. ASSUME NEW i \in Orders!Ids, Orders!CancelAdmin(i) PROVE OrdersInv'
  BY <1>23 DEF Orders!CancelAdmin, Orders!CancelOpen, Orders!PayPalCancelled, Orders!Revoke,
     Orders!RevokeEffects
<1>24. ASSUME NEW i \in Orders!Ids, Orders!RevertSubscription(i) PROVE OrdersInv'
  BY <1>24 DEF Orders!RevertSubscription, Orders!CancelOpen, Orders!Revoke, Orders!RevokeEffects
<1>25. ASSUME NEW i \in Orders!Ids, Orders!WebhookActivated(i) PROVE OrdersInv'
  BY <1>25 DEF Orders!WebhookActivated, Orders!Again, Orders!Activate
<1>26. ASSUME NEW i \in Orders!Ids, Orders!WebhookEnded(i) PROVE OrdersInv'
  BY <1>26 DEF Orders!WebhookEnded, Orders!Again, Orders!Revoke, Orders!RevokeEffects
<1>27. ASSUME NEW i \in Orders!Ids, Orders!Reconcile(i) PROVE OrdersInv'
  BY <1>27 DEF Orders!Reconcile, Orders!Revoke, Orders!RevokeEffects
<1>28. ASSUME NEW i \in Orders!Ids, Orders!Charge(i) PROVE OrdersInv'
  BY <1>28 DEF Orders!Charge
<1>29. CASE UNCHANGED Orders!vars
  BY <1>29 DEF Orders!vars
<1>. QED
  BY <1>1, <1>2, <1>3, <1>4, <1>5, <1>6, <1>7, <1>8, <1>9, <1>10, <1>11, <1>12, <1>13, <1>14, <1>15,
     <1>16, <1>17, <1>18, <1>19, <1>20, <1>21, <1>22, <1>23, <1>24, <1>25, <1>26, <1>27, <1>28,
     <1>29 DEF Orders!Next, Orders!Customer, Orders!Administrator, Orders!Background

(* ... and the two ways of taking back, counted, are what the page         *)
(* promises.                                                               *)
LEMMA OrdersPromises ==
  OrdersInv => Orders!NoFreePremium /\ Orders!ChargeAccounted /\ Orders!TakenBackOncePerWay
<1> SUFFICES ASSUME OrdersInv PROVE Orders!TakenBackOncePerWay
  BY DEF OrdersInv, Balanced
<1> DEFINE W == {w \in {"revert", "refund"} : IF w = "revert" THEN srv.reverted ELSE srv.order = "refunded"}
<1>1. srv.quota \in Int /\ srv.quota >= 1 - TakenBack
  BY DEF OrdersInv, OrdersFields, Balanced
<1>2. /\ Cardinality({}) = 0 /\ Cardinality({"revert"}) = 1 /\ Cardinality({"refund"}) = 1
      /\ Cardinality({"revert", "refund"}) = 2
  <2>1. IsFiniteSet({"refund"}) /\ Cardinality({"refund"}) = 1 /\ Cardinality({"revert"}) = 1
    BY FS_Singleton
  <2>2. {"revert", "refund"} = {"refund"} \cup {"revert"}
    OBVIOUS
  <2>. QED
    BY <2>1, <2>2, FS_EmptySet, FS_AddElement
<1>3. /\ srv.reverted /\ srv.order = "refunded" => W = {"revert", "refund"}
      /\ srv.reverted /\ srv.order # "refunded" => W = {"revert"}
      /\ ~srv.reverted /\ srv.order = "refunded" => W = {"refund"}
      /\ ~srv.reverted /\ srv.order # "refunded" => W = {}
  OBVIOUS
<1>4. Cardinality(W) = TakenBack
  BY <1>2, <1>3 DEF TakenBack
<1>. QED
  BY <1>1, <1>4, SameCount DEF Orders!TakenBackOncePerWay

----------------------------------------------------------------------------
(* The administration of users: the storage form.                          *)

(* Amounts are amounts: of what is allocated, used and taken, ...          *)
Allocations == [Disks -> {Users!None} \cup Nat]
UsersFields ==
  /\ {"quota", "used", "others", "at", "want", "had", "on", "over", "overtaken"} \subseteq DOMAIN srv
  /\ srv.quota \in Allocations /\ srv.used \in [Disks -> Nat] /\ srv.others \in [Disks -> Nat]
  /\ DOMAIN srv.at = Users!Requests /\ srv.on \in [Users!Takers -> Disks]
  /\ srv.want \in [Users!Saves -> Allocations]
  /\ DOMAIN srv.had = Users!Saves
  /\ \A r \in Users!Saves : srv.had[r].quota \in Allocations /\ srv.had[r].used \in [Disks -> Nat]

(* ... and of what the page and its form hold.                             *)
FormFields ==
  /\ {"view", "edit", "rows", "floor", "errors"} \subseteq DOMAIN ui
  /\ {"quota", "used"} \subseteq DOMAIN ui.view
  /\ ui.view.quota \in Allocations /\ ui.view.used \in [Disks -> Nat]
  /\ ui.rows \in [Disks -> Int] /\ ui.floor \in [Disks -> Nat]

(* What a save asks for would fit if it were written now.                  *)
WouldFit(s, want) == \A d \in Disks :
  /\ s.used[d] > 0 => want[d] >= s.used[d]
  /\ want[d] > Users!Quota(s, d) => want[d] <= Users!Quota(s, d) + Users!Left(s, d)

(* What a request has read or found still holds, unless another has written. *)
SaveHolds(s, r) ==
  /\ s.at[r] = "read" => s.had[r].quota = s.quota /\ \A d \in Disks : s.used[d] <= s.had[r].used[d]
  /\ s.at[r] = "checked" => WouldFit(s, s.want[r])
TakeHolds(s, t) ==
  s.at[t] = "checked" => IF t = "upload" THEN s.used[s.on[t]] < Users!Quota(s, s.on[t])
                                         ELSE Users!Left(s, s.on[t]) > 0
Holding(s) == /\ \A r \in Users!Saves \ s.over : SaveHolds(s, r)
              /\ \A t \in Users!Takers \ s.over : TakeHolds(s, t)
Fits(s) == \A d \in Disks : s.used[d] <= Users!Quota(s, d) /\ Users!Left(s, d) >= 0

(* The inductive invariant: what fits now, and what will when it is written. *)
UsersInv == UsersFields /\ FormFields /\ (srv.overtaken \/ (Holding(srv) /\ Fits(srv)))

----------------------------------------------------------------------------
(* An allocation is a number, and so is what a drive has left.             *)
LEMMA QuotaType ==
  ASSUME NEW s, s.quota \in Allocations, s.others \in [Disks -> Nat], NEW d \in Disks
  PROVE  Users!Quota(s, d) \in Nat /\ Users!Left(s, d) \in Int
BY ClientPagesAssumption DEF Allocations, Users!Quota, Users!Left, Users!None

(* No rows are rows, and what is not there is not used.                    *)
LEMMA NothingType == /\ Users!NoRows \in Allocations /\ Users!NoRows \in [Disks -> Int]
                     /\ Users!Zero \in [Disks -> Nat]
BY DEF Users!NoRows, Users!Zero, Users!None, Allocations

(* The server lists amounts, no less than is used of what is allocated.    *)
LEMMA ListingType ==
  ASSUME UsersFields
  PROVE  /\ DOMAIN Users!Listing(srv) = {"quota", "used"}
         /\ Users!Listing(srv).quota = srv.quota /\ Users!Listing(srv).used \in [Disks -> Nat]
         /\ Fits(srv) => \A d \in Disks : srv.used[d] <= Users!Listing(srv).used[d]
<1>1. /\ DOMAIN Users!Listing(srv) = {"quota", "used"} /\ Users!Listing(srv).quota = srv.quota
      /\ Users!Listing(srv).used = [d \in Disks |-> IF srv.quota[d] = Users!None THEN 0 ELSE srv.used[d]]
  BY DEF Users!Listing
<1>2. Users!Listing(srv).used \in [Disks -> Nat]
  BY <1>1 DEF UsersFields
<1>3. ASSUME Fits(srv), NEW d \in Disks PROVE srv.used[d] <= Users!Listing(srv).used[d]
  BY <1>1, <1>3 DEF Fits, Users!Quota, UsersFields
<1>. QED
  BY <1>1, <1>2, <1>3

(* What a row of the form shows of an amount is an amount.                 *)
LEMMA ShownType == ASSUME NEW n \in {Users!None} \cup Nat PROVE Users!Shown(n) \in Int
<1>1. Grain \in Nat /\ Grain # 0
  BY ClientPagesAssumption
<1>2. CASE n = Users!None
  BY <1>2 DEF Users!Shown, Users!None
<1>3. CASE n # Users!None
  <2>1. n \in Nat
    BY <1>3
  <2>2. (n + Grain \div 2) \div Grain \in Int
    BY <1>1, <2>1
  <2>. QED
    BY <1>1, <1>3, <2>2 DEF Users!Shown
<1>. QED
  BY <1>2, <1>3

(* What one request writes, it writes over all that others have read.      *)
LEMMA WriteOvertakes ==
  ASSUME NEW s, NEW t, NEW r, t.at[r] \notin {"read", "checked"},
         \A x \in Users!Requests \ {r} : t.at[x] = s.at[x] /\ (s.at[x] \in {"read", "checked"} => x \in t.over)
  PROVE  Holding(t)
BY DEF Holding, SaveHolds, TakeHolds, Users!Requests

(* A request's own step, before it writes, shakes nothing another has read. *)
LEMMA OwnStep ==
  ASSUME UsersInv, UsersFields', FormFields', NEW r \in Users!Requests,
         srv'.quota = srv.quota, srv'.used = srv.used, srv'.others = srv.others,
         srv'.overtaken = srv.overtaken, srv.over \ {r} \subseteq srv'.over,
         \A x \in Users!Requests \ {r} : srv'.at[x] = srv.at[x],
         \A x \in Users!Saves \ {r} : srv'.had[x] = srv.had[x] /\ srv'.want[x] = srv.want[x],
         \A x \in Users!Takers \ {r} : srv'.on[x] = srv.on[x],
         ~srv.overtaken => /\ r \in Users!Saves => r \in srv'.over \/ SaveHolds(srv', r)
                           /\ r \in Users!Takers => r \in srv'.over \/ TakeHolds(srv', r)
  PROVE  UsersInv'
<1>1. ASSUME ~srv.overtaken PROVE Fits(srv')
  BY <1>1 DEF UsersInv, Fits, Users!Quota, Users!Left
<1>2. ASSUME ~srv.overtaken, NEW x \in Users!Saves \ srv'.over PROVE SaveHolds(srv', x)
  <2>1. CASE x = r
    BY <1>2, <2>1
  <2>2. CASE x # r
    <3>1. SaveHolds(srv, x) /\ srv'.at[x] = srv.at[x]
      BY <1>2, <2>2 DEF UsersInv, Holding, Users!Requests
    <3>. QED
      BY <1>2, <2>2, <3>1 DEF SaveHolds, WouldFit, Users!Quota, Users!Left
  <2>. QED
    BY <2>1, <2>2
<1>3. ASSUME ~srv.overtaken, NEW x \in Users!Takers \ srv'.over PROVE TakeHolds(srv', x)
  <2>1. CASE x = r
    BY <1>3, <2>1
  <2>2. CASE x # r
    <3>1. TakeHolds(srv, x) /\ srv'.at[x] = srv.at[x]
      BY <1>3, <2>2 DEF UsersInv, Holding, Users!Requests
    <3>. QED
      BY <1>3, <2>2, <3>1 DEF TakeHolds, Users!Quota, Users!Left
  <2>. QED
    BY <2>1, <2>2
<1>. QED
  BY <1>1, <1>2, <1>3 DEF UsersInv, Holding

(* Less is used: whoever has looked at it still fits.                      *)
LEMMA LessUsed ==
  ASSUME UsersInv, UNCHANGED ui, NEW less \in [Disks -> Nat], \A d \in Disks : less[d] <= srv.used[d],
         UsersFields', srv'.used = less, srv'.quota = srv.quota, srv'.others = srv.others,
         srv'.overtaken = srv.overtaken, srv'.over = srv.over, srv'.at = srv.at, srv'.had = srv.had,
         srv'.want = srv.want, srv'.on = srv.on
  PROVE  UsersInv'
<1>1. FormFields'
  BY DEF UsersInv, FormFields
<1>2. \A d \in Disks : /\ srv.used[d] \in Nat /\ less[d] \in Nat /\ Users!Quota(srv, d) \in Nat
                       /\ Users!Quota(srv', d) = Users!Quota(srv, d) /\ Users!Left(srv', d) = Users!Left(srv, d)
  BY QuotaType DEF UsersInv, UsersFields, Users!Quota, Users!Left
<1>3. ASSUME ~srv.overtaken PROVE Fits(srv')
  BY <1>2, <1>3 DEF UsersInv, Fits
<1>4. ASSUME ~srv.overtaken, NEW r \in Users!Saves \ srv.over PROVE SaveHolds(srv', r)
  <2>1. SaveHolds(srv, r)
    BY <1>4 DEF UsersInv, Holding
  <2>2. ASSUME srv.at[r] = "read" PROVE \A d \in Disks : less[d] <= srv.had[r].used[d]
    <3>1. \A d \in Disks : srv.had[r].used[d] \in Nat /\ srv.used[d] <= srv.had[r].used[d]
      BY <2>1, <2>2 DEF SaveHolds, UsersInv, UsersFields
    <3>. QED
      BY <1>2, <3>1
  <2>3. ASSUME srv.at[r] = "checked" PROVE WouldFit(srv', srv.want[r])
    <3>1. \A d \in Disks : srv.want[r][d] \in Int
      BY DEF UsersInv, UsersFields, Allocations, Users!None
    <3>. QED
      BY <1>2, <2>1, <2>3, <3>1 DEF SaveHolds, WouldFit
  <2>. QED
    BY <2>1, <2>2, <2>3 DEF SaveHolds
<1>5. ASSUME ~srv.overtaken, NEW t \in Users!Takers \ srv.over PROVE TakeHolds(srv', t)
  <2>1. TakeHolds(srv, t) /\ srv.on[t] \in Disks
    BY <1>5 DEF UsersInv, UsersFields, Holding
  <2>. QED
    BY <1>2, <2>1 DEF TakeHolds
<1>. QED
  BY <1>1, <1>3, <1>4, <1>5 DEF UsersInv, Holding

----------------------------------------------------------------------------
(* It holds at first, ...                                                  *)
LEMMA UsersInitially == Users!Init => UsersInv
<1> SUFFICES ASSUME Users!Init PROVE UsersInv
  OBVIOUS
<1>1. PICK home \in Disks, n \in Users!Amounts \ {0} :
        srv = [quota |-> [Users!NoRows EXCEPT ![home] = n], used |-> Users!Zero, others |-> Users!Zero,
               at |-> [r \in Users!Requests |-> "none"], want |-> [r \in Users!Saves |-> Users!NoRows],
               had |-> [r \in Users!Saves |-> Users!NoListing], on |-> [t \in Users!Takers |-> home],
               over |-> {}, overtaken |-> FALSE, moves |-> 0]
  BY DEF Users!Init
<1>2. ui = [view |-> [quota |-> srv.quota, used |-> Users!Zero], edit |-> "closed",
            rows |-> Users!NoRows, floor |-> Users!Zero, errors |-> {}]
  BY DEF Users!Init
<1>3. n \in Nat /\ n <= Capacity
  BY ClientPagesAssumption DEF Users!Amounts
<1>4. srv.quota \in Allocations
  BY <1>1, <1>3, NothingType DEF Allocations
<1>5. UsersFields
  BY <1>1, <1>4, NothingType DEF UsersFields, Users!NoListing
<1>6. FormFields
  BY <1>2, <1>4, NothingType DEF FormFields
<1>7. ASSUME NEW d \in Disks PROVE srv.used[d] <= Users!Quota(srv, d) /\ Users!Left(srv, d) >= 0
  <2>1. srv.used[d] = 0 /\ srv.others[d] = 0 /\ srv.quota[d] = IF d = home THEN n ELSE Users!None
    BY <1>1 DEF Users!Zero, Users!NoRows
  <2>. QED
    BY <1>3, <2>1, ClientPagesAssumption DEF Users!Quota, Users!Left, Users!None
<1>8. Holding(srv)
  <2>1. \A x \in Users!Requests : srv.at[x] = "none"
    BY <1>1
  <2>. QED
    BY <2>1 DEF Holding, SaveHolds, TakeHolds, Users!Requests
<1>. QED
  BY <1>5, <1>6, <1>7, <1>8 DEF UsersInv, Fits

(* ... what a step of the page does to the form changes no request, ...    *)
LEMMA FormSteps ==
  ASSUME UsersInv, UNCHANGED srv,
         Users!Refetch \/ Users!StartEdit \/ Users!CancelEdit \/ Users!RemoveRow \/ Users!UpdateRow \/ Users!AddRow
  PROVE  UsersInv'
<1>0. FormFields /\ UsersFields
  BY DEF UsersInv
<1>1. CASE Users!Refetch
  <2>1. ui' = [ui EXCEPT !.view = Users!Listing(srv)]
    BY <1>1 DEF Users!Refetch
  <2>2. FormFields'
    BY <1>0, <2>1, ListingType DEF FormFields, UsersFields
  <2>. QED
    BY <2>2 DEF UsersInv, UsersFields
<1>2. CASE Users!StartEdit
  <2> DEFINE rows == [d \in Disks |-> Users!Shown(ui.view.quota[d])]
  <2>1. ui' = [ui EXCEPT !.edit = "open", !.rows = rows, !.floor = ui.view.used, !.errors = {}]
    BY <1>2 DEF Users!StartEdit
  <2>2. rows \in [Disks -> Int]
    BY <1>0, ShownType DEF FormFields, Allocations
  <2> HIDE DEF rows
  <2>3. FormFields'
    BY <1>0, <2>1, <2>2 DEF FormFields
  <2>. QED
    BY <2>3 DEF UsersInv, UsersFields
<1>3. CASE Users!CancelEdit
  <2>1. FormFields'
    BY <1>0, <1>3, NothingType DEF FormFields, Users!CancelEdit, Users!Closed
  <2>. QED
    BY <2>1 DEF UsersInv, UsersFields
<1>4. CASE Users!RemoveRow
  <2>1. PICK d \in Disks : ui' = [ui EXCEPT !.rows[d] = Users!None]
    BY <1>4 DEF Users!RemoveRow, Users!RowsOf
  <2>2. DOMAIN ui' = DOMAIN ui /\ ui'.view = ui.view /\ ui'.floor = ui.floor
        /\ ui'.rows = [ui.rows EXCEPT ![d] = Users!None]
    BY <1>0, <2>1 DEF FormFields
  <2>3. FormFields'
    BY <1>0, <2>2 DEF FormFields, Users!None
  <2>. QED
    BY <2>3 DEF UsersInv, UsersFields
<1>5. CASE Users!UpdateRow
  <2>1. PICK d \in Users!RowsOf(ui.rows), n \in Users!Amounts \cup {Users!Garbled} :
          ui' = [ui EXCEPT !.rows[d] = n, !.errors = @ \ {d}]
    BY <1>5 DEF Users!UpdateRow
  <2>0. d \in Disks /\ n \in Int
    BY ClientPagesAssumption DEF Users!RowsOf, Users!Garbled, Users!Amounts
  <2> DEFINE form == [ui EXCEPT !.errors = @ \ {d}]
  <2>2. FormFields /\ ui' = [form EXCEPT !.rows[d] = n] /\ DOMAIN form = DOMAIN ui
        /\ form.view = ui.view /\ form.rows = ui.rows /\ form.floor = ui.floor
    BY <1>0, <2>1 DEF FormFields
  <2> HIDE DEF form
  <2>3. DOMAIN ui' = DOMAIN ui /\ ui'.view = ui.view /\ ui'.floor = ui.floor /\ ui'.rows = [ui.rows EXCEPT ![d] = n]
    BY <2>2 DEF FormFields
  <2>4. FormFields'
    BY <1>0, <2>0, <2>3 DEF FormFields
  <2>. QED
    BY <2>4 DEF UsersInv, UsersFields
<1>6. CASE Users!AddRow
  <2>1. PICK d \in Disks \ Users!RowsOf(ui.rows), n \in Users!Amounts :
          ui' = [ui EXCEPT !.rows[d] = n, !.floor[d] = 0]
    BY <1>6 DEF Users!AddRow
  <2>0. n \in Int
    BY ClientPagesAssumption DEF Users!Amounts
  <2>2. DOMAIN ui' = DOMAIN ui /\ ui'.view = ui.view /\ ui'.rows = [ui.rows EXCEPT ![d] = n]
        /\ ui'.floor = [ui.floor EXCEPT ![d] = 0]
    BY <1>0, <2>1 DEF FormFields
  <2>3. FormFields'
    BY <1>0, <2>0, <2>2 DEF FormFields
  <2>. QED
    BY <2>3 DEF UsersInv, UsersFields
<1>. QED
  BY <1>1, <1>2, <1>3, <1>4, <1>5, <1>6

(* ... and a request is over when it is answered or fails.                 *)
LEMMA DoneSteps ==
  ASSUME UsersInv, NEW r \in Users!Saves, srv' = Users!Done(srv, r), FormFields'
  PROVE  UsersInv'
<1>1. /\ DOMAIN srv' = DOMAIN srv /\ srv'.quota = srv.quota /\ srv'.used = srv.used /\ srv'.others = srv.others
      /\ srv'.overtaken = srv.overtaken /\ srv'.over = srv.over \ {r} /\ srv'.on = srv.on
      /\ srv'.at = [srv.at EXCEPT ![r] = "none"] /\ srv'.want = [srv.want EXCEPT ![r] = Users!NoRows]
      /\ srv'.had = [srv.had EXCEPT ![r] = Users!NoListing]
  BY DEF Users!Done, UsersInv, UsersFields
<1>2. r \in Users!Requests /\ r \notin Users!Takers
  BY DEF Users!Requests, Users!Saves, Users!Takers
<1>3. UsersFields'
  BY <1>1, <1>2, NothingType DEF UsersInv, UsersFields, Users!NoListing
<1>4. /\ \A x \in Users!Requests \ {r} : srv'.at[x] = srv.at[x]
      /\ \A x \in Users!Saves \ {r} : srv'.had[x] = srv.had[x] /\ srv'.want[x] = srv.want[x]
      /\ srv'.at[r] = "none"
  BY <1>1, <1>2 DEF UsersInv, UsersFields
<1>5. SaveHolds(srv', r)
  BY <1>4 DEF SaveHolds
<1>. QED
  BY <1>1, <1>2, <1>3, <1>4, <1>5, OwnStep

(* A request that writes leaves what fits, if it wrote on what it had read. *)
LEMMA WriteSteps ==
  ASSUME UsersInv, NEW r \in Users!Requests, UNCHANGED ui, UsersFields',
         srv'.at = [srv.at EXCEPT ![r] = IF r \in Users!Saves THEN "saved" ELSE "none"],
         srv'.over = srv.over \cup {x \in Users!Requests \ {r} : srv.at[x] \in {"read", "checked"}},
         srv.overtaken \/ r \in srv.over => srv'.overtaken,
         Fits(srv) /\ Holding(srv) /\ r \notin srv.over /\ ~srv'.overtaken => Fits(srv')
  PROVE  UsersInv'
<1>1. FormFields'
  BY DEF UsersInv, FormFields
<1>2. /\ srv'.at[r] \notin {"read", "checked"}
      /\ \A x \in Users!Requests \ {r} : srv'.at[x] = srv.at[x]
  BY DEF UsersInv, UsersFields
<1>3. Holding(srv')
  BY <1>2, WriteOvertakes
<1>4. ~srv'.overtaken => Fits(srv) /\ Holding(srv) /\ r \notin srv.over
  BY DEF UsersInv
<1>. QED
  BY <1>1, <1>3, <1>4 DEF UsersInv

(* The user and others take room: one more is used, allocated or taken.    *)
LEMMA TakeSteps ==
  ASSUME UsersInv, Users!Uploads \/ Users!Buys \/ Users!OthersTake
  PROVE  UsersInv'
<1>0. UsersFields
  BY DEF UsersInv
<1>1. /\ {"upload", "purchase", "others"} \subseteq Users!Requests \cap Users!Takers
      /\ {"upload", "purchase", "others"} \cap Users!Saves = {}
  BY DEF Users!Requests, Users!Takers, Users!Saves
<1>2. CASE Users!Uploads
  <2> DEFINE d == srv.on["upload"]
             more == [srv.used EXCEPT ![d] = @ + 1]
  <2>1. srv.at["upload"] = "checked" /\ UNCHANGED ui /\ d \in Disks
    BY <1>0, <1>1, <1>2 DEF Users!Uploads, UsersFields
  <2>2. srv' = [Users!Moved(srv, "upload") EXCEPT !.used[d] = @ + 1]
    BY <1>2 DEF Users!Uploads
  <2>3. /\ DOMAIN srv' = DOMAIN srv /\ srv'.used = more /\ srv'.quota = srv.quota /\ srv'.others = srv.others
        /\ srv'.at = [srv.at EXCEPT !["upload"] = "none"] /\ srv'.want = srv.want /\ srv'.had = srv.had
        /\ srv'.on = srv.on /\ srv'.overtaken = (srv.overtaken \/ "upload" \in srv.over)
        /\ srv'.over = srv.over \cup {x \in Users!Requests \ {"upload"} : srv.at[x] \in {"read", "checked"}}
    BY <1>0, <1>1, <2>2 DEF Users!Moved, UsersFields
  <2>4. more \in [Disks -> Nat] /\ more[d] = srv.used[d] + 1 /\ \A e \in Disks \ {d} : more[e] = srv.used[e]
    BY <1>0, <2>1 DEF UsersFields
  <2> HIDE DEF d, more
  <2>5. UsersFields'
    BY <1>0, <1>1, <2>3, <2>4 DEF UsersFields
  <2>6. ASSUME Fits(srv), Holding(srv), "upload" \notin srv.over PROVE Fits(srv')
    <3>1. TakeHolds(srv, "upload")
      BY <1>1, <2>6 DEF Holding
    <3>2. srv.used[d] < Users!Quota(srv, d)
      BY <2>1, <3>1 DEF TakeHolds, d
    <3>3. \A e \in Disks : Users!Quota(srv', e) = Users!Quota(srv, e) /\ Users!Left(srv', e) = Users!Left(srv, e)
      BY <2>3 DEF Users!Quota, Users!Left
    <3>4. Users!Quota(srv, d) \in Nat /\ srv.used[d] \in Nat
      BY <1>0, <2>1, QuotaType DEF UsersFields
    <3>. QED
      BY <2>3, <2>4, <2>6, <3>2, <3>3, <3>4 DEF Fits
  <2>. QED
    BY <1>1, <2>1, <2>3, <2>5, <2>6, WriteSteps
<1>3. CASE Users!Buys
  <2>1. PICK d \in Users!RowsOf(srv.quota) :
          /\ srv.at["purchase"] = "checked" /\ UNCHANGED ui
          /\ srv' = [Users!Moved(srv, "purchase") EXCEPT !.quota[d] = @ + 1,
                                                         !.overtaken = @ \/ d # srv.on["purchase"]]
    BY <1>3 DEF Users!Buys
  <2> DEFINE more == [srv.quota EXCEPT ![d] = @ + 1]
  <2>2. d \in Disks /\ srv.quota[d] \in Nat /\ srv.quota[d] # Users!None
    BY <1>0, <2>1 DEF UsersFields, Users!RowsOf, Allocations
  <2>3. /\ DOMAIN srv' = DOMAIN srv /\ srv'.quota = more /\ srv'.used = srv.used /\ srv'.others = srv.others
        /\ srv'.at = [srv.at EXCEPT !["purchase"] = "none"] /\ srv'.want = srv.want /\ srv'.had = srv.had
        /\ srv'.on = srv.on
        /\ srv'.overtaken = (srv.overtaken \/ "purchase" \in srv.over \/ d # srv.on["purchase"])
        /\ srv'.over = srv.over \cup {x \in Users!Requests \ {"purchase"} : srv.at[x] \in {"read", "checked"}}
    BY <1>0, <1>1, <2>1 DEF Users!Moved, UsersFields
  <2>4. more \in Allocations /\ more[d] = srv.quota[d] + 1 /\ \A e \in Disks \ {d} : more[e] = srv.quota[e]
    BY <1>0, <2>2 DEF UsersFields, Allocations
  <2> HIDE DEF more
  <2>5. UsersFields'
    BY <1>0, <1>1, <2>3, <2>4 DEF UsersFields
  <2>6. ASSUME Fits(srv), Holding(srv), "purchase" \notin srv.over, ~srv'.overtaken PROVE Fits(srv')
    <3>1. TakeHolds(srv, "purchase") /\ srv.on["purchase"] = d
      BY <1>1, <2>3, <2>6 DEF Holding
    <3>2. Users!Left(srv, d) > 0
      BY <2>1, <3>1 DEF TakeHolds
    <3>3. ASSUME NEW e \in Disks PROVE srv'.used[e] <= Users!Quota(srv', e) /\ Users!Left(srv', e) >= 0
      <4>1. /\ srv.used[e] <= Users!Quota(srv, e) /\ Users!Left(srv, e) >= 0 /\ srv.used[e] \in Nat
            /\ srv.others[e] \in Nat
        BY <1>0, <2>6 DEF Fits, UsersFields
      <4>2. CASE e = d
        BY <2>2, <2>3, <2>4, <3>2, <4>1, <4>2, ClientPagesAssumption
        DEF Users!Quota, Users!Left, Users!None
      <4>3. CASE e # d
        BY <2>3, <2>4, <4>1, <4>3 DEF Users!Quota, Users!Left
      <4>. QED
        BY <4>2, <4>3
    <3>. QED
      BY <3>3 DEF Fits
  <2>. QED
    BY <1>1, <2>1, <2>3, <2>5, <2>6, WriteSteps
<1>4. CASE Users!OthersTake
  <2> DEFINE d == srv.on["others"]
             more == [srv.others EXCEPT ![d] = @ + 1]
  <2>1. srv.at["others"] = "checked" /\ UNCHANGED ui /\ d \in Disks
    BY <1>0, <1>1, <1>4 DEF Users!OthersTake, UsersFields
  <2>2. srv' = [Users!Moved(srv, "others") EXCEPT !.others[d] = @ + 1]
    BY <1>4 DEF Users!OthersTake
  <2>3. /\ DOMAIN srv' = DOMAIN srv /\ srv'.used = srv.used /\ srv'.quota = srv.quota /\ srv'.others = more
        /\ srv'.at = [srv.at EXCEPT !["others"] = "none"] /\ srv'.want = srv.want /\ srv'.had = srv.had
        /\ srv'.on = srv.on /\ srv'.overtaken = (srv.overtaken \/ "others" \in srv.over)
        /\ srv'.over = srv.over \cup {x \in Users!Requests \ {"others"} : srv.at[x] \in {"read", "checked"}}
    BY <1>0, <1>1, <2>2 DEF Users!Moved, UsersFields
  <2>4. more \in [Disks -> Nat] /\ more[d] = srv.others[d] + 1 /\ \A e \in Disks \ {d} : more[e] = srv.others[e]
    BY <1>0, <2>1 DEF UsersFields
  <2> HIDE DEF d, more
  <2>5. UsersFields'
    BY <1>0, <1>1, <2>3, <2>4 DEF UsersFields
  <2>6. ASSUME Fits(srv), Holding(srv), "others" \notin srv.over PROVE Fits(srv')
    <3>1. TakeHolds(srv, "others")
      BY <1>1, <2>6 DEF Holding
    <3>2. Users!Left(srv, d) > 0
      BY <2>1, <3>1 DEF TakeHolds, d
    <3>3. \A e \in Disks : Users!Quota(srv', e) = Users!Quota(srv, e)
      BY <2>3 DEF Users!Quota
    <3>4. \A e \in Disks : /\ Users!Quota(srv, e) \in Nat /\ srv.others[e] \in Nat
                           /\ Users!Left(srv, e) = Capacity - Users!Quota(srv, e) - srv.others[e]
                           /\ Users!Left(srv', e) = Capacity - Users!Quota(srv, e) - more[e]
      BY <1>0, <2>3, <3>3, QuotaType DEF UsersFields, Users!Left
    <3>. QED
      BY <2>1, <2>3, <2>4, <2>6, <3>2, <3>3, <3>4, ClientPagesAssumption DEF Fits
  <2>. QED
    BY <1>1, <2>1, <2>3, <2>5, <2>6, WriteSteps
<1>. QED
  BY <1>2, <1>3, <1>4

(* The steps of a save.                                                    *)
LEMMA SaveSteps ==
  ASSUME UsersInv, Users!Save \/ Users!CollapseRow \/ Users!GetUserStorageAllocations
                   \/ Users!CheckAllocations \/ Users!SaveUserDriveAllocations
  PROVE  UsersInv'
<1>0. UsersFields /\ FormFields
  BY DEF UsersInv
<1>1. /\ "here" \in Users!Saves /\ "left" \in Users!Saves /\ \A r \in Users!Saves : r \in Users!Requests /\ r \notin Users!Takers
      /\ Users!Saves = {"here", "left"}
  BY DEF Users!Requests, Users!Saves, Users!Takers
<1>2. CASE Users!Save
  <2>1. /\ DOMAIN srv' = DOMAIN srv /\ srv'.quota = srv.quota /\ srv'.used = srv.used /\ srv'.others = srv.others
        /\ srv'.overtaken = srv.overtaken /\ srv'.over = srv.over /\ srv'.on = srv.on /\ srv'.had = srv.had
        /\ srv'.at = [srv.at EXCEPT !["here"] = "sent"] /\ srv'.want = [srv.want EXCEPT !["here"] = ui.rows]
        /\ UNCHANGED ui
    BY <1>0, <1>2 DEF Users!Save, UsersFields
  <2>2. ui.rows \in Allocations
    <3>1. ASSUME NEW d \in Disks PROVE ui.rows[d] \in {Users!None} \cup Nat
      <4>1. CASE d \in Users!RowsOf(ui.rows)
        <5>1. ui.rows[d] >= ui.floor[d] /\ ui.floor[d] \in Nat /\ ui.rows[d] \in Int
          BY <1>0, <1>2, <4>1 DEF Users!Save, Users!RowFits, FormFields
        <5>. QED
          BY <5>1
      <4>2. CASE d \notin Users!RowsOf(ui.rows)
        BY <4>2 DEF Users!RowsOf
      <4>. QED
        BY <4>1, <4>2
    <3>. QED
      BY <1>0, <3>1 DEF FormFields, Allocations
  <2>3. UsersFields' /\ FormFields'
    BY <1>0, <1>1, <2>1, <2>2 DEF UsersFields, FormFields
  <2>4. /\ \A x \in Users!Requests \ {"here"} : srv'.at[x] = srv.at[x]
        /\ \A x \in Users!Saves \ {"here"} : srv'.want[x] = srv.want[x]
        /\ srv'.at["here"] = "sent"
    BY <1>0, <1>1, <2>1 DEF UsersFields
  <2>5. SaveHolds(srv', "here")
    BY <2>4 DEF SaveHolds
  <2>. QED
    BY <1>1, <2>1, <2>3, <2>4, <2>5, OwnStep
<1>3. CASE Users!CollapseRow
  <2>1. /\ DOMAIN srv' = DOMAIN srv /\ srv'.quota = srv.quota /\ srv'.used = srv.used /\ srv'.others = srv.others
        /\ srv'.overtaken = srv.overtaken /\ srv'.on = srv.on /\ ui' = Users!Closed
        /\ srv'.at = [srv.at EXCEPT !["left"] = srv.at["here"], !["here"] = "none"]
        /\ srv'.want = [srv.want EXCEPT !["left"] = srv.want["here"], !["here"] = Users!NoRows]
        /\ srv'.had = [srv.had EXCEPT !["left"] = srv.had["here"], !["here"] = Users!NoListing]
        /\ srv'.over = IF "here" \in srv.over THEN (srv.over \ {"here"}) \cup {"left"} ELSE srv.over
    BY <1>0, <1>3 DEF Users!CollapseRow, UsersFields
  <2>2. UsersFields' /\ FormFields'
    <3>1. UsersFields'
      BY <1>0, <1>1, <2>1, NothingType DEF UsersFields, Users!NoListing
    <3>2. FormFields'
      BY <1>0, <2>1, NothingType DEF FormFields, Users!Closed
    <3>. QED
      BY <3>1, <3>2
  <2>3. /\ srv'.at["left"] = srv.at["here"] /\ srv'.want["left"] = srv.want["here"]
        /\ srv'.had["left"] = srv.had["here"] /\ srv'.at["here"] = "none"
        /\ \A t \in Users!Takers : srv'.at[t] = srv.at[t]
    BY <1>0, <1>1, <2>1 DEF UsersFields, Users!Requests, Users!Takers
  <2>4. ASSUME ~srv.overtaken PROVE Fits(srv') /\ Holding(srv')
    <3>1. Fits(srv) /\ Holding(srv)
      BY <2>4 DEF UsersInv
    <3>2. \A e \in Disks : Users!Quota(srv', e) = Users!Quota(srv, e) /\ Users!Left(srv', e) = Users!Left(srv, e)
      BY <2>1 DEF Users!Quota, Users!Left
    <3>3. Fits(srv')
      BY <2>1, <3>1, <3>2 DEF Fits
    <3>4. SaveHolds(srv', "here")
      BY <2>3 DEF SaveHolds
    <3>5. "left" \notin srv'.over => SaveHolds(srv', "left")
      <4>1. SUFFICES ASSUME "left" \notin srv'.over PROVE SaveHolds(srv', "left")
        OBVIOUS
      <4>2. SaveHolds(srv, "here")
        BY <1>1, <2>1, <3>1, <4>1 DEF Holding
      <4>. QED
        BY <2>1, <2>3, <3>2, <4>2 DEF SaveHolds, WouldFit
    <3>6. \A t \in Users!Takers \ srv'.over : TakeHolds(srv', t)
      <4>1. SUFFICES ASSUME NEW t \in Users!Takers, t \notin srv'.over PROVE TakeHolds(srv', t)
        OBVIOUS
      <4>2. t \notin srv.over
        BY <1>1, <2>1, <4>1
      <4>3. TakeHolds(srv, t) /\ srv.on[t] \in Disks
        BY <1>0, <3>1, <4>2 DEF Holding, UsersFields
      <4>. QED
        BY <2>1, <2>3, <3>2, <4>3 DEF TakeHolds
    <3>. QED
      BY <1>1, <3>3, <3>4, <3>5, <3>6 DEF Holding
  <2>. QED
    BY <2>1, <2>2, <2>4 DEF UsersInv
<1>4. CASE Users!GetUserStorageAllocations
  <2>1. PICK r \in Users!Saves :
          /\ UNCHANGED ui
          /\ srv' = [srv EXCEPT !.at[r] = "read", !.had[r] = Users!Listing(srv), !.over = @ \ {r}]
    BY <1>4 DEF Users!GetUserStorageAllocations
  <2>2. /\ DOMAIN srv' = DOMAIN srv /\ srv'.quota = srv.quota /\ srv'.used = srv.used /\ srv'.others = srv.others
        /\ srv'.overtaken = srv.overtaken /\ srv'.over = srv.over \ {r} /\ srv'.on = srv.on /\ srv'.want = srv.want
        /\ srv'.at = [srv.at EXCEPT ![r] = "read"] /\ srv'.had = [srv.had EXCEPT ![r] = Users!Listing(srv)]
    BY <1>0, <2>1 DEF UsersFields
  <2>3. /\ \A x \in Users!Requests \ {r} : srv'.at[x] = srv.at[x]
        /\ \A x \in Users!Saves \ {r} : srv'.had[x] = srv.had[x]
        /\ srv'.at[r] = "read" /\ srv'.had[r] = Users!Listing(srv)
    BY <1>0, <1>1, <2>2 DEF UsersFields
  <2>4. UsersFields'
    BY <1>0, <1>1, <2>2, <2>3, ListingType DEF UsersFields
  <2>5. FormFields'
    BY <1>0, <2>1 DEF FormFields
  <2>6. ASSUME ~srv.overtaken PROVE SaveHolds(srv', r)
    <3>1. Fits(srv)
      BY <2>6 DEF UsersInv
    <3>. QED
      BY <1>0, <2>2, <2>3, <3>1, ListingType DEF SaveHolds
  <2>. QED
    BY <1>1, <2>1, <2>2, <2>3, <2>4, <2>5, <2>6, OwnStep
<1>5. CASE Users!CheckAllocations
  <2>1. PICK r \in Users!Saves :
          /\ srv.at[r] = "read"
          /\ LET bad == Users!UsedUp(srv.had[r], srv.want[r]) \cup Users!TooMuch(srv, srv.had[r], srv.want[r]) IN
             IF bad = {} THEN srv' = [srv EXCEPT !.at[r] = "checked", !.had[r] = Users!NoListing] /\ UNCHANGED ui
             ELSE /\ srv' = Users!Done(srv, r)
                  /\ ui' = IF r = "here" THEN [ui EXCEPT !.errors = bad] ELSE ui
    BY <1>5 DEF Users!CheckAllocations
  <2>2. CASE srv' = Users!Done(srv, r) /\ FormFields'
    BY <2>2, DoneSteps
  <2>3. CASE /\ Users!UsedUp(srv.had[r], srv.want[r]) = {} /\ Users!TooMuch(srv, srv.had[r], srv.want[r]) = {}
             /\ srv' = [srv EXCEPT !.at[r] = "checked", !.had[r] = Users!NoListing] /\ UNCHANGED ui
    <3>1. /\ DOMAIN srv' = DOMAIN srv /\ srv'.quota = srv.quota /\ srv'.used = srv.used /\ srv'.others = srv.others
          /\ srv'.overtaken = srv.overtaken /\ srv'.over = srv.over /\ srv'.on = srv.on /\ srv'.want = srv.want
          /\ srv'.at = [srv.at EXCEPT ![r] = "checked"] /\ srv'.had = [srv.had EXCEPT ![r] = Users!NoListing]
      BY <1>0, <2>3 DEF UsersFields
    <3>2. /\ \A x \in Users!Requests \ {r} : srv'.at[x] = srv.at[x]
          /\ \A x \in Users!Saves \ {r} : srv'.had[x] = srv.had[x]
          /\ srv'.at[r] = "checked"
      BY <1>0, <1>1, <3>1 DEF UsersFields
    <3>3. UsersFields' /\ FormFields'
      BY <1>0, <1>1, <2>3, <3>1, NothingType DEF UsersFields, FormFields, Users!NoListing
    <3>4. ASSUME ~srv.overtaken, r \notin srv.over PROVE SaveHolds(srv', r)
      <4>1. Fits(srv) /\ SaveHolds(srv, r)
        BY <3>4 DEF UsersInv, Holding
      <4>2. srv.had[r].quota = srv.quota /\ \A d \in Disks : srv.used[d] <= srv.had[r].used[d]
        BY <2>1, <4>1 DEF SaveHolds
      <4>3. ASSUME NEW d \in Disks
            PROVE  /\ srv.used[d] > 0 => srv.want[r][d] >= srv.used[d]
                   /\ srv.want[r][d] > Users!Quota(srv, d) =>
                        srv.want[r][d] <= Users!Quota(srv, d) + Users!Left(srv, d)
        <5>1. /\ srv.used[d] \in Nat /\ srv.had[r].used[d] \in Nat /\ srv.want[r][d] \in Int
              /\ srv.quota[d] \in {Users!None} \cup Nat /\ Users!Left(srv, d) \in Int
              /\ srv.used[d] <= srv.had[r].used[d] /\ srv.used[d] <= Users!Quota(srv, d)
          BY <1>0, <4>1, <4>2, QuotaType DEF UsersFields, Allocations, Fits, Users!None
        <5>2. srv.used[d] > 0 => srv.quota[d] # Users!None
          BY <5>1 DEF Users!Quota
        <5>3. srv.used[d] > 0 => srv.want[r][d] >= srv.had[r].used[d]
          BY <2>3, <4>2, <5>1, <5>2 DEF Users!UsedUp, Users!RowsOf
        <5>4. srv.want[r][d] # Users!None =>
                IF srv.quota[d] = Users!None THEN srv.want[r][d] <= Users!Left(srv, d)
                ELSE srv.want[r][d] <= srv.quota[d] \/ srv.want[r][d] <= srv.quota[d] + Users!Left(srv, d)
          BY <2>3, <4>2, <5>1 DEF Users!TooMuch, Users!RowsOf, Users!None
        <5>. QED
          BY <5>1, <5>3, <5>4 DEF Users!Quota, Users!None
      <4>4. WouldFit(srv, srv.want[r])
        BY <4>3 DEF WouldFit
      <4>. QED
        BY <3>1, <3>2, <4>4 DEF SaveHolds, WouldFit, Users!Quota, Users!Left
    <3>. QED
      BY <1>1, <3>1, <3>2, <3>3, <3>4, OwnStep
  <2>. QED
    BY <1>0, <2>1, <2>2, <2>3 DEF FormFields
<1>6. CASE Users!SaveUserDriveAllocations
  <2>1. PICK r \in Users!Saves :
          /\ srv.at[r] = "checked" /\ UNCHANGED ui
          /\ srv' = [Users!Moved(srv, r) EXCEPT !.quota = srv.want[r]]
    BY <1>6 DEF Users!SaveUserDriveAllocations
  <2>2. /\ DOMAIN srv' = DOMAIN srv /\ srv'.quota = srv.want[r] /\ srv'.used = srv.used /\ srv'.others = srv.others
        /\ srv'.at = [srv.at EXCEPT ![r] = "saved"] /\ srv'.want = srv.want /\ srv'.had = srv.had
        /\ srv'.on = srv.on /\ srv'.overtaken = (srv.overtaken \/ r \in srv.over)
        /\ srv'.over = srv.over \cup {x \in Users!Requests \ {r} : srv.at[x] \in {"read", "checked"}}
    BY <1>0, <2>1 DEF Users!Moved, UsersFields
  <2>3. UsersFields'
    BY <1>0, <1>1, <2>2 DEF UsersFields
  <2>4. ASSUME Fits(srv), Holding(srv), r \notin srv.over PROVE Fits(srv')
    <3>1. WouldFit(srv, srv.want[r])
      BY <2>1, <2>4 DEF Holding, SaveHolds
    <3>2. ASSUME NEW d \in Disks PROVE srv'.used[d] <= Users!Quota(srv', d) /\ Users!Left(srv', d) >= 0
      <4>1. /\ srv.used[d] \in Nat /\ srv.others[d] \in Nat /\ srv.want[r][d] \in {Users!None} \cup Nat
            /\ srv.used[d] <= Users!Quota(srv, d) /\ Users!Left(srv, d) >= 0 /\ Users!Quota(srv, d) \in Nat
        BY <1>0, <2>4, QuotaType DEF UsersFields, Allocations, Fits
      <4>2. /\ srv.used[d] > 0 => srv.want[r][d] >= srv.used[d]
            /\ srv.want[r][d] > Users!Quota(srv, d) =>
                 srv.want[r][d] <= Users!Quota(srv, d) + Users!Left(srv, d)
        BY <3>1 DEF WouldFit
      <4>3. Users!Left(srv, d) = Capacity - Users!Quota(srv, d) - srv.others[d]
        BY DEF Users!Left
      <4>4. Users!Quota(srv', d) = IF srv.want[r][d] = Users!None THEN 0 ELSE srv.want[r][d]
        BY <2>2 DEF Users!Quota
      <4>5. Users!Left(srv', d) = Capacity - Users!Quota(srv', d) - srv.others[d]
        BY <2>2 DEF Users!Left
      <4>. QED
        BY <2>2, <4>1, <4>2, <4>3, <4>4, <4>5, ClientPagesAssumption DEF Users!None
    <3>. QED
      BY <3>2 DEF Fits
  <2>. QED
    BY <1>1, <2>1, <2>2, <2>3, <2>4, WriteSteps
<1>. QED
  BY <1>2, <1>3, <1>4, <1>5, <1>6

(* Every step keeps it, the checks of a request being what makes its write *)
(* fit, ...                                                                *)
LEMMA UsersStep == UsersInv /\ [Users!Next]_Users!vars => UsersInv'
<1> SUFFICES ASSUME UsersInv, [Users!Next]_Users!vars PROVE UsersInv'
  OBVIOUS
<1>0. UsersFields /\ FormFields
  BY DEF UsersInv
<1>1. CASE Users!FindsRoom
  <2>1. PICK t \in Users!Takers, d \in Disks :
          /\ Users!CanTake(t, d) /\ UNCHANGED ui
          /\ srv' = [srv EXCEPT !.at[t] = "checked", !.on[t] = d, !.over = @ \ {t}, !.moves = @ + 1]
    BY <1>1 DEF Users!FindsRoom
  <2>2. /\ DOMAIN srv' = DOMAIN srv /\ srv'.quota = srv.quota /\ srv'.used = srv.used /\ srv'.others = srv.others
        /\ srv'.overtaken = srv.overtaken /\ srv'.over = srv.over \ {t} /\ srv'.want = srv.want
        /\ srv'.had = srv.had /\ srv'.at = [srv.at EXCEPT ![t] = "checked"] /\ srv'.on = [srv.on EXCEPT ![t] = d]
    BY <1>0, <2>1 DEF UsersFields
  <2>3. t \in Users!Requests /\ t \notin Users!Saves
    BY DEF Users!Requests, Users!Saves, Users!Takers
  <2>4. /\ \A x \in Users!Requests \ {t} : srv'.at[x] = srv.at[x]
        /\ \A x \in Users!Takers \ {t} : srv'.on[x] = srv.on[x]
        /\ srv'.on[t] = d
    BY <1>0, <2>2, <2>3 DEF UsersFields
  <2>5. UsersFields' /\ FormFields'
    BY <1>0, <2>1, <2>2, <2>3 DEF UsersFields, FormFields
  <2>6. IF t = "upload" THEN srv.used[d] < Users!Quota(srv, d) ELSE Users!Left(srv, d) > 0
    BY <2>1 DEF Users!CanTake, Users!Takers, Users!Quota
  <2>7. TakeHolds(srv', t)
    BY <2>2, <2>4, <2>6 DEF TakeHolds, Users!Quota, Users!Left
  <2>. QED
    BY <2>2, <2>3, <2>4, <2>5, <2>7, OwnStep
<1>2. CASE Users!Deletes
  <2>1. PICK d \in Disks : srv.used[d] > 0 /\ UNCHANGED ui /\
                           srv' = [srv EXCEPT !.used[d] = @ - 1, !.moves = @ + 1]
    BY <1>2 DEF Users!Deletes
  <2> DEFINE less == [srv.used EXCEPT ![d] = @ - 1]
  <2>2. less \in [Disks -> Nat] /\ \A e \in Disks : less[e] <= srv.used[e]
    BY <1>0, <2>1 DEF UsersFields
  <2>3. /\ DOMAIN srv' = DOMAIN srv /\ srv'.used = less /\ srv'.quota = srv.quota /\ srv'.others = srv.others
        /\ srv'.overtaken = srv.overtaken /\ srv'.over = srv.over /\ srv'.at = srv.at /\ srv'.had = srv.had
        /\ srv'.want = srv.want /\ srv'.on = srv.on
    BY <1>0, <2>1 DEF UsersFields
  <2> HIDE DEF less
  <2>4. UsersFields'
    BY <1>0, <2>2, <2>3 DEF UsersFields
  <2>. QED
    BY <2>1, <2>2, <2>3, <2>4, LessUsed
<1>3. CASE Users!AdminDeleteAllFiles
  <2>1. /\ UNCHANGED ui /\ DOMAIN srv' = DOMAIN srv /\ srv'.used = Users!Zero /\ srv'.quota = srv.quota
        /\ srv'.others = srv.others /\ srv'.overtaken = srv.overtaken /\ srv'.over = srv.over
        /\ srv'.at = srv.at /\ srv'.had = srv.had /\ srv'.want = srv.want /\ srv'.on = srv.on
    BY <1>0, <1>3 DEF Users!AdminDeleteAllFiles, UsersFields
  <2>2. Users!Zero \in [Disks -> Nat] /\ \A d \in Disks : Users!Zero[d] <= srv.used[d]
    BY <1>0, NothingType DEF Users!Zero, UsersFields
  <2>3. UsersFields'
    BY <1>0, <2>1, <2>2 DEF UsersFields
  <2>. QED
    BY <2>1, <2>2, <2>3, LessUsed
<1>4. CASE Users!Answers
  <2>1. PICK r \in Users!Saves :
          /\ srv' = Users!Done(srv, r)
          /\ ui' = [(IF r = "here" THEN Users!Closed ELSE ui) EXCEPT !.view = Users!Listing(srv)]
    BY <1>4 DEF Users!Answers
  <2> DEFINE form == IF r = "here" THEN Users!Closed ELSE ui
  <2>2. /\ {"view", "edit", "rows", "floor", "errors"} \subseteq DOMAIN form
        /\ form.rows \in [Disks -> Int] /\ form.floor \in [Disks -> Nat]
    BY <1>0, NothingType DEF FormFields, Users!Closed
  <2>3. ui' = [form EXCEPT !.view = Users!Listing(srv)]
    BY <2>1
  <2> HIDE DEF form
  <2>4. FormFields'
    BY <1>0, <2>2, <2>3, ListingType DEF FormFields, UsersFields
  <2>. QED
    BY <2>1, <2>4, DoneSteps
<1>5. CASE Users!SaveFails
  <2>1. PICK r \in Users!Saves : srv' = Users!Done(srv, r) /\ UNCHANGED ui
    BY <1>5 DEF Users!SaveFails
  <2>2. FormFields'
    BY <1>0, <2>1 DEF FormFields
  <2>. QED
    BY <2>1, <2>2, DoneSteps
<1>6. CASE \/ Users!Refetch \/ Users!StartEdit \/ Users!CancelEdit \/ Users!RemoveRow \/ Users!UpdateRow
           \/ Users!AddRow
  <2>1. UNCHANGED srv
    BY <1>6 DEF Users!Refetch, Users!StartEdit, Users!CancelEdit, Users!RemoveRow, Users!UpdateRow,
                Users!AddRow
  <2>. QED
    BY <1>6, <2>1, FormSteps
<1>7. CASE UNCHANGED Users!vars
  BY <1>7 DEF Users!vars, UsersInv, UsersFields, FormFields
<1>. QED
  BY <1>1, <1>2, <1>3, <1>4, <1>5, <1>6, <1>7, TakeSteps, SaveSteps DEF Users!Next

(* ... and it is what the page promises, and more.                         *)
LEMMA UsersPromises == UsersInv => Users!UsedFits /\ Users!CapacityKept
BY DEF UsersInv, Fits, Users!UsedFits, Users!CapacityKept

----------------------------------------------------------------------------
(* The administration of users: bans and suspensions.                      *)

(* The fields the argument speaks of are there.                            *)
BansFields == /\ {"bans", "made", "at", "kind", "pardons", "tangled"} \subseteq DOMAIN srv
              /\ {"list", "modal"} \subseteq DOMAIN ui
              /\ DOMAIN srv.at = Bans!Admins /\ srv.tangled \in BOOLEAN

(* A request that has lifted what was in force has not been joined by       *)
(* another, and nothing is in force until it adds its record.              *)
Lifted ==
  ~srv.tangled =>
    /\ \A a, b \in Bans!Lifters(srv) : a = b
    /\ Bans!Lifters(srv) # {} => srv.bans = {}
    /\ \E b : srv.bans \subseteq {b}

BansInv == BansFields /\ Lifted

(* It holds at first, ...                                                  *)
LEMMA BansInitially == Bans!Init => BansInv
BY DEF Bans!Init, BansInv, BansFields, Lifted, Bans!Lifters

(* ... a step that lifts nothing and makes no record keeps it when it      *)
(* leaves no more requests that have lifted, and no more records, ...      *)
LEMMA NoMoreLifted ==
  ASSUME BansInv, BansFields', srv'.bans \subseteq srv.bans, Bans!Lifters(srv)' \subseteq Bans!Lifters(srv),
         srv'.tangled = srv.tangled
  PROVE  BansInv'
BY DEF BansInv, Lifted

(* ... and so does every other step; ...                                   *)
LEMMA BansStep == BansInv /\ [Bans!Next]_Bans!vars => BansInv'
<1> SUFFICES ASSUME BansInv, [Bans!Next]_Bans!vars PROVE BansInv'
  OBVIOUS
<1>0. BansFields
  BY DEF BansInv
<1>1. CASE \/ Bans!Refetch \/ Bans!OpenBan \/ Bans!CloseBan \/ Bans!HandleBanConfirm \/ Bans!OtherAsks
           \/ Bans!ConfirmPardon \/ Bans!OtherPardons
  <2>1. /\ BansFields' /\ srv'.bans = srv.bans /\ srv'.tangled = srv.tangled
        /\ srv'.at = srv.at \/ \E a \in Bans!Admins : srv'.at = [srv.at EXCEPT ![a] = "asked"]
    BY <1>0, <1>1 DEF Bans!Refetch, Bans!OpenBan, Bans!CloseBan, Bans!HandleBanConfirm, Bans!OtherAsks,
       Bans!ConfirmPardon, Bans!OtherPardons, Bans!Asked, BansFields, Bans!Admins
  <2>2. Bans!Lifters(srv)' \subseteq Bans!Lifters(srv)
    BY <1>0, <2>1 DEF Bans!Lifters, BansFields
  <2>. QED
    BY <2>1, <2>2, NoMoreLifted
<1>2. CASE Bans!Lifts
  <2>1. PICK a \in Bans!Admins : /\ srv.at[a] = "asked" /\ UNCHANGED ui
                                 /\ srv' = Bans!Lifted(a) \/ srv' = Bans!LiftFailed(a)
    BY <1>2 DEF Bans!Lifts
  <2>2. /\ DOMAIN srv' = DOMAIN srv /\ srv'.at = [srv.at EXCEPT ![a] = "lifted"]
        /\ srv'.tangled \in BOOLEAN
        /\ ~srv'.tangled => srv'.bans = {} /\ Bans!Lifters(srv) \subseteq {a}
    BY <1>0, <2>1 DEF Bans!Lifted, Bans!LiftFailed, BansFields
  <2>3. BansFields'
    BY <1>0, <2>1, <2>2 DEF BansFields
  <2>4. Bans!Lifters(srv)' \subseteq Bans!Lifters(srv) \cup {a}
    BY <1>0, <2>2 DEF Bans!Lifters, BansFields
  <2>. QED
    BY <2>2, <2>3, <2>4 DEF BansInv, Lifted
<1>3. CASE Bans!CreateBan
  <2>1. PICK a \in Bans!Admins :
          /\ srv.at[a] = "lifted" /\ UNCHANGED ui
          /\ srv' = [srv EXCEPT !.bans = @ \cup {[id |-> srv.made + 1, kind |-> srv.kind[a]]},
                                !.made = @ + 1, !.at[a] = "made"]
    BY <1>3 DEF Bans!CreateBan
  <2>2. /\ DOMAIN srv' = DOMAIN srv /\ srv'.at = [srv.at EXCEPT ![a] = "made"] /\ srv'.tangled = srv.tangled
        /\ srv'.bans = srv.bans \cup {[id |-> srv.made + 1, kind |-> srv.kind[a]]}
    BY <1>0, <2>1 DEF BansFields
  <2>3. BansFields'
    BY <1>0, <2>1, <2>2 DEF BansFields
  <2>4. Bans!Lifters(srv)' \subseteq Bans!Lifters(srv) \ {a} /\ a \in Bans!Lifters(srv)
    BY <1>0, <2>1, <2>2 DEF Bans!Lifters, BansFields
  <2>5. ASSUME ~srv.tangled PROVE srv.bans = {} /\ Bans!Lifters(srv)' = {}
    BY <2>4, <2>5 DEF BansInv, Lifted
  <2>. QED
    BY <2>2, <2>3, <2>5 DEF BansInv, Lifted
<1>4. CASE Bans!AdminDeleteAllFiles \/ Bans!Answers \/ Bans!Fails
  <2>1. PICK a \in Bans!Admins, to \in {"purged", "none"} :
          DOMAIN ui' = DOMAIN ui /\ srv' = [srv EXCEPT !.at[a] = to]
    BY <1>4 DEF Bans!AdminDeleteAllFiles, Bans!Answers, Bans!Fails
  <2>2. BansFields' /\ srv'.bans = srv.bans /\ srv'.tangled = srv.tangled /\ srv'.at = [srv.at EXCEPT ![a] = to]
    BY <1>0, <2>1 DEF BansFields
  <2>3. Bans!Lifters(srv)' \subseteq Bans!Lifters(srv)
    BY <1>0, <2>2 DEF Bans!Lifters, BansFields
  <2>. QED
    BY <2>2, <2>3, NoMoreLifted
<1>5. CASE Bans!PardonAllActiveBans
  <2>1. /\ BansFields' /\ srv'.bans = {} /\ srv'.at = srv.at
        /\ srv'.tangled = (srv.tangled /\ Bans!Lifters(srv) # {})
    BY <1>0, <1>5 DEF Bans!PardonAllActiveBans, BansFields
  <2>2. Bans!Lifters(srv)' = Bans!Lifters(srv)
    BY <2>1 DEF Bans!Lifters
  <2>. QED
    BY <2>1, <2>2 DEF BansInv, Lifted
<1>6. CASE Bans!PardonFails \/ Bans!AutoPardonExpiredSuspension
  <2>1. BansFields' /\ srv'.bans \subseteq srv.bans /\ srv'.at = srv.at /\ srv'.tangled = srv.tangled
    BY <1>0, <1>6 DEF Bans!PardonFails, Bans!AutoPardonExpiredSuspension, BansFields
  <2>2. Bans!Lifters(srv)' = Bans!Lifters(srv)
    BY <2>1 DEF Bans!Lifters
  <2>. QED
    BY <2>1, <2>2, NoMoreLifted
<1>7. CASE UNCHANGED Bans!vars
  BY <1>7 DEF Bans!vars, BansInv, BansFields, Lifted, Bans!Lifters
<1>. QED
  BY <1>1, <1>2, <1>3, <1>4, <1>5, <1>6, <1>7 DEF Bans!Next

(* ... and it is what the tables promise, and more.                        *)
LEMMA BansPromise == BansInv => Bans!OneBanInForce
<1> SUFFICES ASSUME BansInv, ~srv.tangled PROVE Cardinality(srv.bans) <= 1
  BY SameCount DEF Bans!OneBanInForce
<1>1. PICK b : srv.bans \subseteq {b}
  BY DEF BansInv, Lifted
<1>2. srv.bans = {} \/ srv.bans = {b}
  BY <1>1
<1>. QED
  BY <1>2, FS_EmptySet, FS_Singleton

----------------------------------------------------------------------------
(* Registration by invitation.                                             *)

(* A request that is under way, and one whose account has its place on the *)
(* drive while its slot is still open: that place is counted twice.        *)
Requests == 1 .. 2
Busy(s, r) == s.req[r].at # "none"
Kept(q) == IF q.at = "allocated" /\ q.slot # 0 THEN 1 ELSE 0
Granted(s) == Kept(s.req[1]) + Kept(s.req[2])

(* The fields the argument speaks of are there, for any state of the       *)
(* server, such as those in the middle of an operation.                    *)
RegFields(s) ==
  /\ {"group", "row", "hold", "req", "known", "made", "used", "invited", "failed", "raced"} \subseteq DOMAIN s
  /\ DOMAIN s.row = Invite!Slots /\ DOMAIN s.hold = Invite!Holders /\ DOMAIN s.req = Requests
  /\ s.made \in [Invite!Slots -> Nat] /\ s.used \in Nat
  /\ \A v \in Invite!Holders : /\ {"slot", "st"} \subseteq DOMAIN s.hold[v]
                               /\ s.hold[v].slot \in Invite!Slots \cup {0}
                               /\ Invite!Live(s, v) => s.hold[v].slot \in Invite!Slots
  /\ \A r \in Requests : /\ {"at", "src", "slot"} \subseteq DOMAIN s.req[r]
                         /\ Busy(s, r) => s.req[r].src \in Invite!Sources
                         /\ s.req[r].src = "link" => s.req[r].slot = 0

(* Two visitors never hold one slot.                                       *)
Apart(s) ==
  \A v, w \in Invite!Holders :
    v # w /\ Invite!Live(s, v) /\ Invite!Live(s, w) => s.hold[v].slot # s.hold[w].slot

(* What is held is open, in a group that is on.                             *)
HeldOpen(s) ==
  \A v \in Invite!Holders : Invite!Live(s, v) => s.group = "on" /\ s.row[s.hold[v].slot] = "open"

(* A request is the only one of its holder, whose hold is on its slot, which *)
(* has made an account exactly when the request is past its allocation.     *)
InFlight(s) ==
  /\ \A r, q \in Requests : r # q /\ Busy(s, r) /\ Busy(s, q) => s.req[r].src # s.req[q].src
  /\ \A r \in Requests : \A v \in Invite!Holders : Busy(s, r) /\ s.req[r].src = v =>
       /\ Invite!Live(s, v) /\ s.hold[v].slot = s.req[r].slot
       /\ s.made[s.req[r].slot] = IF s.req[r].at = "allocated" THEN 1 ELSE 0

(* A slot makes one account, and while it is still open then, a request    *)
(* for it is under way.                                                    *)
OneEach(s) ==
  \A x \in Invite!Slots : /\ s.made[x] <= 1
                          /\ s.made[x] = 1 /\ s.row[x] = "open" =>
                               \E r \in Requests : Busy(s, r) /\ s.req[r].slot = x
(* Users and open slots fit the drive, but for the places counted twice,   *)
(* and an invitation that passed its check has its place.                  *)
RoomFits(s) == s.used + Invite!Reserved(s) <= Room + Granted(s)
LinkFits(s) == \A r \in Requests : s.req[r].src = "link" /\ s.req[r].at = "user" =>
                 s.used + Invite!Reserved(s) < Room + Granted(s)

(* The inductive invariant, of a state of the server.                      *)
RegInv(s) == /\ RegFields(s) /\ Apart(s)
             /\ s.raced \/ (HeldOpen(s) /\ InFlight(s) /\ OneEach(s) /\ RoomFits(s) /\ LinkFits(s))

----------------------------------------------------------------------------
(* Slots can be counted.                                                   *)
LEMMA SlotsAreFinite ==
  ASSUME NEW S, S \subseteq Invite!Slots
  PROVE  IsFiniteSet(S) /\ Cardinality(S) \in Nat
<1>1. IsFiniteSet(1 .. MaxSlots)
  BY ClientPagesAssumption, FS_Interval
<1>. QED
  BY <1>1, FS_Subset, FS_CardinalityType DEF Invite!Slots

(* What is reserved is a number.                                           *)
LEMMA ReservedType == ASSUME NEW s PROVE Invite!Reserved(s) \in Nat
BY SlotsAreFinite, SameCount DEF Invite!Reserved, Invite!OpenSlots

(* A step that leaves rows and group alone keeps what is reserved.         *)
LEMMA SameReserved ==
  ASSUME NEW s, NEW t, t.row = s.row, t.group = s.group
  PROVE  Invite!Reserved(t) = Invite!Reserved(s)
<1>1. Invite!OpenSlots(t) = Invite!OpenSlots(s)
  BY DEF Invite!OpenSlots
<1>. QED
  BY <1>1 DEF Invite!Reserved

(* Two requests have at most two places.                                   *)
LEMMA GrantedType == ASSUME NEW s PROVE Granted(s) \in 0 .. 2
BY DEF Granted, Kept

(* The sweep that every operation starts with leaves no lapsed hold.       *)
LEMMA SweepKeeps ==
  ASSUME NEW s, RegInv(s)
  PROVE  RegInv(Invite!Sweep(s)) /\ \A v \in Invite!Holders : Invite!Sweep(s).hold[v].st # "lapsed"
<1> DEFINE t == Invite!Sweep(s)
<1>1. /\ DOMAIN t = DOMAIN s /\ t.group = s.group /\ t.row = s.row /\ t.req = s.req /\ t.made = s.made
      /\ t.used = s.used
      /\ t.hold = [v \in Invite!Holders |-> IF s.hold[v].st = "lapsed" THEN Invite!NoHold ELSE s.hold[v]]
      /\ t.raced <=> s.raced \/ \E v \in Invite!Holders : s.hold[v].st = "lapsed" /\ Invite!Started(s, v)
  BY DEF Invite!Sweep, RegInv, RegFields
<1> HIDE DEF t
<1>2. \A v \in Invite!Holders : /\ {"slot", "st"} \subseteq DOMAIN t.hold[v] /\ t.hold[v].st # "lapsed"
                                /\ Invite!Live(t, v) => Invite!Live(s, v) /\ t.hold[v] = s.hold[v]
                                /\ t.hold[v].slot \in Invite!Slots \cup {0}
  BY <1>1 DEF RegInv, RegFields, Invite!Live, Invite!NoHold
<1>3. RegFields(t) /\ Apart(t)
  BY <1>1, <1>2 DEF RegInv, RegFields, Apart, Busy
<1>4. ASSUME ~t.raced PROVE HeldOpen(t) /\ InFlight(t) /\ OneEach(t) /\ RoomFits(t) /\ LinkFits(t)
  <2>1. ~s.raced /\ \A v \in Invite!Holders : Invite!Started(s, v) => s.hold[v].st # "lapsed"
    BY <1>1, <1>4
  <2>2. Invite!Reserved(t) = Invite!Reserved(s) /\ Granted(t) = Granted(s)
    BY <1>1, SameReserved DEF Granted
  <2>3. HeldOpen(t) /\ OneEach(t) /\ RoomFits(t) /\ LinkFits(t)
    BY <1>1, <1>2, <2>1, <2>2 DEF RegInv, HeldOpen, OneEach, RoomFits, LinkFits, Busy
  <2>4. InFlight(t)
    <3>1. InFlight(s) /\ \A r \in Requests : Busy(t, r) <=> Busy(s, r)
      BY <1>1, <2>1 DEF RegInv, Busy
    <3>2. ASSUME NEW r \in Requests, NEW v \in Invite!Holders, Busy(s, r), s.req[r].src = v
          PROVE  t.hold[v] = s.hold[v]
      BY <1>1, <2>1, <3>2 DEF Invite!Started, Busy, Requests
    <3>. QED
      BY <1>1, <3>1, <3>2 DEF InFlight, Invite!Live
  <2>. QED
    BY <2>3, <2>4
<1>. QED
  BY <1>2, <1>3, <1>4 DEF RegInv, t

(* A slot that nobody holds is reserved for a visitor.                     *)
LEMMA ReserveKeeps ==
  ASSUME NEW s, RegInv(s), NEW v \in Invite!Holders, s.group = "on", ~Invite!Started(s, v), ~Invite!Live(s, v),
         NEW x \in Invite!FreeSlots(s)
  PROVE  RegInv([s EXCEPT !.hold[v] = [slot |-> x, st |-> "active"]])
<1> DEFINE t == [s EXCEPT !.hold[v] = [slot |-> x, st |-> "active"]]
<1>1. /\ DOMAIN t = DOMAIN s /\ t.group = s.group /\ t.row = s.row /\ t.req = s.req /\ t.made = s.made
      /\ t.used = s.used /\ t.raced = s.raced
      /\ t.hold = [s.hold EXCEPT ![v] = [slot |-> x, st |-> "active"]]
  BY DEF RegInv, RegFields
<1> HIDE DEF t
<1>2. x \in Invite!Slots /\ s.row[x] = "open" /\ \A w \in Invite!Holders : Invite!Live(s, w) =>
          s.hold[w].slot # x
  BY DEF Invite!FreeSlots, Invite!OpenSlots, Invite!HeldSlots
<1>3. /\ t.hold[v] = [slot |-> x, st |-> "active"]
      /\ \A w \in Invite!Holders \ {v} : t.hold[w] = s.hold[w] /\ (Invite!Live(t, w) <=> Invite!Live(s, w))
  BY <1>1 DEF RegInv, RegFields, Invite!Live
<1>4. DOMAIN t.hold = Invite!Holders
  BY <1>1 DEF RegInv, RegFields
<1>5. RegFields(t) /\ Apart(t)
  BY <1>1, <1>2, <1>3, <1>4 DEF RegInv, RegFields, Apart, Busy, Invite!Live
<1>6. ASSUME ~t.raced PROVE HeldOpen(t) /\ InFlight(t) /\ OneEach(t) /\ RoomFits(t) /\ LinkFits(t)
  <2>1. Invite!Reserved(t) = Invite!Reserved(s) /\ Granted(t) = Granted(s)
    BY <1>1, SameReserved DEF Granted
  <2>2. HeldOpen(t) /\ OneEach(t) /\ RoomFits(t) /\ LinkFits(t)
    BY <1>1, <1>2, <1>3, <1>6, <2>1 DEF RegInv, HeldOpen, OneEach, RoomFits, LinkFits, Busy
  <2>3. InFlight(t)
    <3>1. InFlight(s) /\ \A r \in Requests : Busy(t, r) <=> Busy(s, r)
      BY <1>1, <1>6 DEF RegInv, Busy
    <3>2. ASSUME NEW r \in Requests, NEW w \in Invite!Holders, Busy(s, r), s.req[r].src = w
          PROVE  t.hold[w] = s.hold[w] /\ (Invite!Live(t, w) <=> Invite!Live(s, w))
      BY <1>3, <3>2 DEF Invite!Started, Busy, Requests
    <3>. QED
      BY <1>1, <3>1, <3>2 DEF InFlight
  <2>. QED
    BY <2>2, <2>3
<1>. QED
  BY <1>5, <1>6 DEF RegInv, t

(* A visitor gives up a slot.                                              *)
LEMMA ReleaseKeeps ==
  ASSUME NEW s, RegInv(s), NEW v \in Invite!Holders
  PROVE  RegInv(Invite!Release(s, v))
<1> DEFINE t == Invite!Release(s, v)
<1>1. /\ DOMAIN t = DOMAIN s /\ t.group = s.group /\ t.row = s.row /\ t.req = s.req /\ t.made = s.made
      /\ t.used = s.used /\ DOMAIN t.hold = Invite!Holders
      /\ t.raced <=> s.raced \/ (Invite!Live(s, v) /\ Invite!Started(s, v))
      /\ \A w \in Invite!Holders \ {v} : t.hold[w] = s.hold[w]
      /\ t.hold[v] = IF Invite!Live(s, v) THEN Invite!NoHold ELSE s.hold[v]
  BY DEF Invite!Release, RegInv, RegFields, Invite!Live
<1> HIDE DEF t
<1>2. \A w \in Invite!Holders : /\ {"slot", "st"} \subseteq DOMAIN t.hold[w]
                                /\ Invite!Live(t, w) => Invite!Live(s, w) /\ t.hold[w] = s.hold[w]
                                /\ t.hold[w].slot \in Invite!Slots \cup {0}
  BY <1>1 DEF RegInv, RegFields, Invite!Live, Invite!NoHold
<1>3. RegFields(t) /\ Apart(t)
  BY <1>1, <1>2 DEF RegInv, RegFields, Apart, Busy
<1>4. ASSUME ~t.raced PROVE HeldOpen(t) /\ InFlight(t) /\ OneEach(t) /\ RoomFits(t) /\ LinkFits(t)
  <2>1. Invite!Reserved(t) = Invite!Reserved(s) /\ Granted(t) = Granted(s)
    BY <1>1, SameReserved DEF Granted
  <2>2. HeldOpen(t) /\ OneEach(t) /\ RoomFits(t) /\ LinkFits(t)
    BY <1>1, <1>2, <1>4, <2>1 DEF RegInv, HeldOpen, OneEach, RoomFits, LinkFits, Busy
  <2>3. InFlight(t)
    <3>1. InFlight(s) /\ \A r \in Requests : Busy(t, r) <=> Busy(s, r)
      BY <1>1, <1>4 DEF RegInv, Busy
    <3>2. ASSUME NEW r \in Requests, NEW w \in Invite!Holders, Busy(s, r), s.req[r].src = w
          PROVE  t.hold[w] = s.hold[w]
      BY <1>1, <1>4, <3>2 DEF Invite!Started, Busy, Requests
    <3>. QED
      BY <1>1, <3>1, <3>2 DEF InFlight, Invite!Live
  <2>. QED
    BY <2>2, <2>3
<1>. QED
  BY <1>3, <1>4 DEF RegInv, t

(* What a step leaves alone that only moves requests.                      *)
SameSlots(s, t) ==
  /\ DOMAIN t = DOMAIN s /\ t.group = s.group /\ t.row = s.row /\ t.hold = s.hold
  /\ DOMAIN t.req = DOMAIN s.req

(* A request starts for a hold that is valid, or with an invitation.       *)
LEMMA StartKeeps ==
  ASSUME RegInv(srv), NEW r \in Requests, srv.req[r] = Invite!NoReq,
         NEW v \in Invite!Sources, Invite!Valid(Invite!Sweep(srv), v)
  PROVE  RegInv(Invite!Start(r, v))
<1> DEFINE s == Invite!Sweep(srv)
           t == Invite!Start(r, v)
           new == [at |-> "checked", src |-> v, slot |-> IF v = "link" THEN 0 ELSE s.hold[v].slot]
<1>1. RegInv(s) /\ s.req[r] = Invite!NoReq
  <2>1. Invite!Sweep(srv).req = srv.req
    BY DEF Invite!Sweep, RegInv, RegFields
  <2>. QED
    BY <2>1, SweepKeeps
<1>2. /\ SameSlots(s, t) /\ t.made = s.made /\ t.used = s.used /\ t.req = [s.req EXCEPT ![r] = new]
      /\ t.raced <=> s.raced \/ Invite!Started(s, v)
  BY <1>1 DEF Invite!Start, SameSlots, RegInv, RegFields
<1>3. v \in Invite!Holders => s.hold[v].st = "active" /\ s.row[s.hold[v].slot] = "open"
  BY DEF Invite!Valid, Invite!Sources, Invite!Holders
<1> HIDE DEF s, t
<1>4. t.req[r] = new /\ \A q \in Requests \ {r} : t.req[q] = s.req[q]
  BY <1>1, <1>2 DEF RegInv, RegFields
<1>5. RegFields(t) /\ Apart(t)
  BY <1>1, <1>2, <1>4 DEF RegInv, RegFields, Apart, Busy, Invite!Live, SameSlots
<1>6. ASSUME ~t.raced PROVE HeldOpen(t) /\ InFlight(t) /\ OneEach(t) /\ RoomFits(t) /\ LinkFits(t)
  <2>1. ~s.raced /\ ~Invite!Started(s, v)
    BY <1>2, <1>6
  <2>2. Invite!Reserved(t) = Invite!Reserved(s)
    BY <1>2, SameReserved DEF SameSlots
  <2>3. Kept(new) = 0 /\ Kept(s.req[r]) = 0
    BY <1>1 DEF Kept, Invite!NoReq
  <2>4. Granted(t) = Granted(s)
    BY <1>4, <2>3 DEF Granted, Requests
  <2>5. HeldOpen(t) /\ RoomFits(t) /\ LinkFits(t)
    BY <1>1, <1>2, <1>4, <2>1, <2>2, <2>4 DEF RegInv, HeldOpen, RoomFits, LinkFits, Invite!Live,
       SameSlots
  <2>6. OneEach(t)
    BY <1>1, <1>2, <1>4, <2>1 DEF RegInv, OneEach, Busy, Invite!NoReq, SameSlots
  <2>7. ASSUME v \in Invite!Holders PROVE s.made[s.hold[v].slot] = 0
    <3>1. s.hold[v].slot \in Invite!Slots /\ Invite!Live(s, v)
      BY <1>1, <1>3, <2>7 DEF RegInv, RegFields, Invite!Live
    <3>2. ASSUME NEW q \in Requests, Busy(s, q), s.req[q].slot = s.hold[v].slot PROVE FALSE
      <4>1. s.req[q].src \in Invite!Holders /\ s.req[q].src # v
        BY <1>1, <2>1, <3>1, <3>2 DEF RegInv, RegFields, Invite!Started, Busy, Requests,
           Invite!Sources, Invite!Slots
      <4>. QED
        BY <1>1, <2>1, <2>7, <3>1, <3>2, <4>1 DEF RegInv, InFlight, Apart
    <3>. QED
      BY <1>1, <1>3, <2>1, <2>7, <3>1, <3>2 DEF RegInv, RegFields, OneEach
  <2>8. InFlight(t)
    <3>1. \A q \in Requests : q # r /\ Busy(t, q) => Busy(s, q) /\ t.req[q] = s.req[q] /\ s.req[q].src # v
      BY <1>4, <2>1 DEF Busy, Invite!Started, Requests
    <3>2. \A w \in Invite!Holders : Invite!Live(t, w) <=> Invite!Live(s, w)
      BY <1>2 DEF Invite!Live, SameSlots
    <3>3. v \in Invite!Holders => v # "link" /\ Invite!Live(s, v)
      BY <1>3 DEF Invite!Holders, Invite!Live
    <3>4. InFlight(s)
      BY <1>1, <2>1 DEF RegInv
    <3>5. \A q, p \in Requests : q # p /\ Busy(t, q) /\ Busy(t, p) => t.req[q].src # t.req[p].src
      BY <1>4, <3>1, <3>4 DEF InFlight
    <3>6. ASSUME NEW q \in Requests, NEW w \in Invite!Holders, Busy(t, q), t.req[q].src = w
          PROVE  /\ Invite!Live(t, w) /\ t.hold[w].slot = t.req[q].slot
                 /\ t.made[t.req[q].slot] = IF t.req[q].at = "allocated" THEN 1 ELSE 0
      <4>1. CASE q = r
        BY <1>2, <1>4, <2>7, <3>2, <3>3, <3>6, <4>1 DEF SameSlots
      <4>2. CASE q # r
        BY <1>2, <3>1, <3>2, <3>4, <3>6, <4>2 DEF InFlight, SameSlots
      <4>. QED
        BY <4>1, <4>2
    <3>. QED
      BY <3>5, <3>6 DEF InFlight
  <2>. QED
    BY <2>5, <2>6, <2>8
<1>. QED
  BY <1>5, <1>6 DEF RegInv, t

(* A request goes on to a step before its allocation.                      *)
LEMMA MoveKeeps ==
  ASSUME NEW s, NEW t, RegInv(s), NEW r \in Requests, s.req[r].at \in {"checked", "known"},
         SameSlots(s, t), t.made = s.made, t.used = s.used, t.raced = s.raced,
         NEW to \in {"known", "user"}, t.req = [s.req EXCEPT ![r].at = to],
         to = "user" /\ s.req[r].src = "link" => Invite!RoomLeft(s) >= 1
  PROVE  RegInv(t)
<1>1. /\ t.req[r].at = to /\ t.req[r].src = s.req[r].src /\ t.req[r].slot = s.req[r].slot
      /\ {"at", "src", "slot"} \subseteq DOMAIN t.req[r]
      /\ \A q \in Requests \ {r} : t.req[q] = s.req[q]
  BY DEF RegInv, RegFields
<1>2. \A q \in Requests : /\ Busy(t, q) <=> Busy(s, q)
                          /\ t.req[q].src = s.req[q].src /\ t.req[q].slot = s.req[q].slot
                          /\ t.req[q].at = "allocated" <=> s.req[q].at = "allocated"
  BY <1>1 DEF Busy
<1>3. Granted(t) = Granted(s)
  BY <1>2 DEF Granted, Kept, Requests
<1>4. Invite!Reserved(t) = Invite!Reserved(s) /\ Invite!Reserved(s) \in Nat /\ Granted(s) \in 0 .. 2
  BY SameReserved, ReservedType, GrantedType DEF SameSlots
<1>5. RegFields(t) /\ Apart(t)
  BY <1>1, <1>2 DEF RegInv, RegFields, Apart, Invite!Live, SameSlots
<1>6. ASSUME ~t.raced PROVE HeldOpen(t) /\ InFlight(t) /\ OneEach(t) /\ RoomFits(t) /\ LinkFits(t)
  <2>1. HeldOpen(t) /\ OneEach(t) /\ RoomFits(t) /\ InFlight(t)
    <3>1. HeldOpen(s) /\ OneEach(s) /\ RoomFits(s) /\ InFlight(s)
      BY <1>6 DEF RegInv
    <3>2. HeldOpen(t)
      BY <3>1 DEF HeldOpen, Invite!Live, SameSlots
    <3>3. OneEach(t)
      BY <1>2, <3>1 DEF OneEach, SameSlots
    <3>4. RoomFits(t)
      BY <1>3, <1>4, <3>1 DEF RoomFits
    <3>5. InFlight(t)
      BY <1>2, <3>1 DEF InFlight, Invite!Live, SameSlots
    <3>. QED
      BY <3>2, <3>3, <3>4, <3>5
  <2>2. LinkFits(t)
    BY <1>1, <1>2, <1>3, <1>4, <1>6, ClientPagesAssumption DEF RegInv, RegFields, LinkFits,
       Invite!RoomLeft
  <2>. QED
    BY <2>1, <2>2
<1>. QED
  BY <1>5, <1>6 DEF RegInv

(* A request ends before its allocation, or with an invitation, or where    *)
(* nothing is said any more.                                               *)
LEMMA EndKeeps ==
  ASSUME NEW s, NEW t, RegInv(s), NEW r \in Requests, Busy(s, r),
         SameSlots(s, t), t.made = s.made, t.used = s.used, t.req = [s.req EXCEPT ![r] = Invite!NoReq],
         s.raced => t.raced, t.raced \/ s.req[r].at # "allocated" \/ s.req[r].src = "link"
  PROVE  RegInv(t)
<1>1. t.req[r] = Invite!NoReq /\ \A q \in Requests \ {r} : t.req[q] = s.req[q]
  BY DEF RegInv, RegFields
<1>2. RegFields(t) /\ Apart(t)
  BY <1>1 DEF RegInv, RegFields, Apart, Invite!Live, SameSlots, Invite!NoReq, Busy
<1>3. ASSUME ~t.raced PROVE HeldOpen(t) /\ InFlight(t) /\ OneEach(t) /\ RoomFits(t) /\ LinkFits(t)
  <2>1. Kept(s.req[r]) = 0 /\ Kept(Invite!NoReq) = 0
    BY <1>3 DEF Kept, Invite!NoReq, RegInv, RegFields
  <2>2. Granted(t) = Granted(s) /\ Invite!Reserved(t) = Invite!Reserved(s)
    BY <1>1, <2>1, SameReserved DEF Granted, Requests, SameSlots
  <2>3. HeldOpen(t) /\ RoomFits(t) /\ LinkFits(t) /\ InFlight(t)
    <3>1. HeldOpen(s) /\ RoomFits(s) /\ LinkFits(s) /\ InFlight(s)
      BY <1>3 DEF RegInv
    <3>2. HeldOpen(t)
      BY <3>1 DEF HeldOpen, Invite!Live, SameSlots
    <3>3. RoomFits(t)
      BY <2>2, <3>1 DEF RoomFits
    <3>4. LinkFits(t)
      BY <1>1, <2>2, <3>1 DEF LinkFits, Invite!NoReq
    <3>5. \A q \in Requests : Busy(t, q) => q # r /\ t.req[q] = s.req[q] /\ Busy(s, q)
      BY <1>1 DEF Busy, Invite!NoReq
    <3>6. InFlight(t)
      BY <3>1, <3>5 DEF InFlight, Invite!Live, SameSlots
    <3>. QED
      BY <3>2, <3>3, <3>4, <3>6
  <2>4. s.req[r].slot \in Invite!Slots => s.made[s.req[r].slot] = 0
    BY <1>3 DEF RegInv, RegFields, InFlight, Busy, Invite!Sources, Invite!Slots
  <2>5. OneEach(t)
    <3>1. ASSUME NEW x \in Invite!Slots PROVE t.made[x] <= 1
      BY <1>3 DEF RegInv, OneEach
    <3>2. ASSUME NEW x \in Invite!Slots, t.made[x] = 1, t.row[x] = "open"
          PROVE  \E q \in Requests : Busy(t, q) /\ t.req[q].slot = x
      <4>1. PICK q \in Requests : Busy(s, q) /\ s.req[q].slot = x
        BY <1>3, <3>2 DEF RegInv, OneEach, SameSlots
      <4>2. q # r
        BY <2>4, <3>2, <4>1
      <4>. QED
        BY <1>1, <4>1, <4>2 DEF Busy
    <3>. QED
      BY <3>1, <3>2 DEF OneEach
  <2>. QED
    BY <2>3, <2>5
<1>. QED
  BY <1>2, <1>3 DEF RegInv

(* A request gets its place on the drive: its slot has made its account.   *)
LEMMA AllocateKeeps ==
  ASSUME NEW s, NEW t, RegInv(s), NEW r \in Requests, s.req[r].at = "user",
         SameSlots(s, t), t.used = s.used + 1, t.raced = s.raced,
         t.req = [s.req EXCEPT ![r].at = "allocated"],
         s.req[r].slot = 0 => t.made = s.made,
         s.req[r].slot # 0 => t.made = [s.made EXCEPT ![s.req[r].slot] = @ + 1]
  PROVE  RegInv(t)
<1>1. /\ t.req[r].at = "allocated" /\ t.req[r].src = s.req[r].src /\ t.req[r].slot = s.req[r].slot
      /\ {"at", "src", "slot"} \subseteq DOMAIN t.req[r]
      /\ \A q \in Requests \ {r} : t.req[q] = s.req[q]
  BY DEF RegInv, RegFields
<1>2. \A q \in Requests : /\ Busy(t, q) <=> Busy(s, q)
                          /\ t.req[q].src = s.req[q].src /\ t.req[q].slot = s.req[q].slot
  BY <1>1 DEF Busy
<1>3. t.made \in [Invite!Slots -> Nat] /\ t.used \in Nat
  <2>1. s.made \in [Invite!Slots -> Nat] /\ s.used \in Nat
    BY DEF RegInv, RegFields
  <2>2. [s.made EXCEPT ![s.req[r].slot] = @ + 1] \in [Invite!Slots -> Nat]
    <3>1. CASE s.req[r].slot \in Invite!Slots
      BY <2>1, <3>1
    <3>2. CASE s.req[r].slot \notin Invite!Slots
      <4>1. [s.made EXCEPT ![s.req[r].slot] = @ + 1] = s.made
        BY <2>1, <3>2
      <4>. QED
        BY <2>1, <4>1
    <3>. QED
      BY <3>1, <3>2
  <2>3. t.made \in [Invite!Slots -> Nat]
    BY <2>1, <2>2
  <2>. QED
    BY <2>1, <2>3
<1>4. RegFields(t) /\ Apart(t)
  BY <1>1, <1>2, <1>3 DEF RegInv, RegFields, Apart, Invite!Live, SameSlots
<1>5. ASSUME ~t.raced PROVE HeldOpen(t) /\ InFlight(t) /\ OneEach(t) /\ RoomFits(t) /\ LinkFits(t)
  <2>1. Invite!Reserved(t) = Invite!Reserved(s) /\ Invite!Reserved(s) \in Nat /\ Granted(s) \in 0 .. 2
    BY SameReserved, ReservedType, GrantedType DEF SameSlots
  <2>2. Granted(t) = Granted(s) + (IF s.req[r].slot # 0 THEN 1 ELSE 0)
    BY <1>1 DEF Granted, Kept, Requests
  <2>3. \A v \in Invite!Holders : Invite!Live(t, v) <=> Invite!Live(s, v)
    BY DEF Invite!Live, SameSlots
  <2>4. CASE s.req[r].src = "link"
    <3>1. s.req[r].slot = 0 /\ t.made = s.made
      BY <2>4 DEF RegInv, RegFields
    <3>2. \A q \in Requests : q # r /\ Busy(s, q) => s.req[q].src # "link"
      BY <1>5, <2>4 DEF RegInv, InFlight, Busy
    <3>3. RoomFits(t) /\ LinkFits(t)
      BY <1>1, <1>2, <1>5, <2>1, <2>2, <2>4, <3>1, <3>2, ClientPagesAssumption
      DEF RegInv, RegFields, RoomFits, LinkFits, Busy
    <3>4. HeldOpen(t)
      BY <1>5, <2>3 DEF RegInv, HeldOpen, SameSlots
    <3>5. OneEach(t)
      BY <1>2, <1>5, <3>1 DEF RegInv, OneEach, SameSlots
    <3>6. InFlight(s)
      BY <1>5 DEF RegInv
    <3>7. \A q, p \in Requests : q # p /\ Busy(t, q) /\ Busy(t, p) => t.req[q].src # t.req[p].src
      BY <1>2, <3>6 DEF InFlight
    <3>8. ASSUME NEW q \in Requests, NEW v \in Invite!Holders, Busy(t, q), t.req[q].src = v
          PROVE  /\ Invite!Live(t, v) /\ t.hold[v].slot = t.req[q].slot
                 /\ t.made[t.req[q].slot] = IF t.req[q].at = "allocated" THEN 1 ELSE 0
      <4>1. q # r
        BY <1>1, <2>4, <3>8 DEF Invite!Holders
      <4>2. t.req[q] = s.req[q] /\ Busy(s, q)
        BY <1>1, <1>2, <3>8, <4>1
      <4>3. /\ Invite!Live(s, v) /\ s.hold[v].slot = s.req[q].slot
            /\ s.made[s.req[q].slot] = IF s.req[q].at = "allocated" THEN 1 ELSE 0
        BY <3>6, <3>8, <4>2 DEF InFlight
      <4>. QED
        BY <2>3, <3>1, <4>2, <4>3 DEF SameSlots
    <3>9. InFlight(t)
      BY <3>7, <3>8 DEF InFlight
    <3>. QED
      BY <3>3, <3>4, <3>5, <3>9
  <2>5. CASE s.req[r].src # "link"
    <3>1. s.req[r].src \in Invite!Holders /\ Busy(s, r)
      BY <2>5 DEF RegInv, RegFields, Busy, Invite!Sources
    <3>2. s.req[r].slot \in Invite!Slots /\ s.made[s.req[r].slot] = 0
      BY <1>5, <3>1 DEF RegInv, RegFields, InFlight
    <3>3. /\ s.req[r].slot # 0 /\ t.made[s.req[r].slot] = 1
          /\ \A x \in Invite!Slots : x # s.req[r].slot => t.made[x] = s.made[x]
      <4>1. s.req[r].slot # 0 /\ s.made \in [Invite!Slots -> Nat]
        BY <3>2 DEF Invite!Slots, RegInv, RegFields
      <4>2. t.made = [s.made EXCEPT ![s.req[r].slot] = @ + 1]
        BY <4>1
      <4>. QED
        BY <3>2, <4>1, <4>2
    <3>4. RoomFits(t) /\ LinkFits(t)
      BY <1>1, <1>2, <1>5, <2>1, <2>2, <3>3, ClientPagesAssumption DEF RegInv, RegFields, RoomFits,
         LinkFits
    <3>5. OneEach(t)
      BY <1>2, <1>5, <3>1, <3>2, <3>3 DEF RegInv, OneEach, SameSlots
    <3>6. \A q \in Requests : q # r /\ Busy(s, q) /\ s.req[q].src \in Invite!Holders =>
              s.req[q].slot # s.req[r].slot
      BY <1>5, <3>1 DEF RegInv, InFlight, Apart
    <3>7. ASSUME NEW q \in Requests, Busy(s, q), s.req[q].src \in Invite!Holders
          PROVE  t.made[s.req[q].slot] = IF t.req[q].at = "allocated" THEN 1 ELSE 0
      <4>1. CASE q = r
        BY <1>1, <3>3, <4>1
      <4>2. CASE q # r
        <5>1. s.req[q].slot \in Invite!Slots /\ s.req[q].slot # s.req[r].slot
          BY <1>5, <3>6, <3>7, <4>2 DEF RegInv, RegFields, InFlight
        <5>. QED
          BY <1>1, <1>5, <3>3, <3>7, <4>2, <5>1 DEF RegInv, InFlight
      <4>. QED
        BY <4>1, <4>2
    <3>8. HeldOpen(t)
      BY <1>5, <2>3 DEF RegInv, HeldOpen, SameSlots
    <3>9. InFlight(s)
      BY <1>5 DEF RegInv
    <3>10. InFlight(t)
      BY <1>2, <2>3, <3>7, <3>9 DEF InFlight, SameSlots
    <3>. QED
      BY <3>4, <3>5, <3>8, <3>10
  <2>. QED
    BY <2>4, <2>5
<1>. QED
  BY <1>4, <1>5 DEF RegInv

(* A group is turned off, runs out or is deleted.                          *)
LEMMA CloseKeeps ==
  ASSUME NEW s, NEW t, RegInv(s), DOMAIN t = DOMAIN s, t.req = s.req, t.made = s.made, t.used = s.used,
         t.group # "on", t.raced <=> s.raced \/ Invite!AnyHeld(s),
         \/ t.row = s.row /\ t.hold = s.hold
         \/ t.row = [x \in Invite!Slots |-> "none"] /\ t.hold = [v \in Invite!Holders |-> Invite!NoHold]
  PROVE  RegInv(t)
<1>1. RegFields(t) /\ Apart(t)
  BY DEF RegInv, RegFields, Apart, Busy, Invite!Live, Invite!NoHold
<1>2. ASSUME ~t.raced PROVE HeldOpen(t) /\ InFlight(t) /\ OneEach(t) /\ RoomFits(t) /\ LinkFits(t)
  <2>1. ~s.raced /\ \A v \in Invite!Holders : ~Invite!Live(s, v)
    BY <1>2 DEF Invite!AnyHeld, Invite!Sources
  <2>2. \A r \in Requests : ~Busy(s, r)
    BY <1>2 DEF Invite!AnyHeld, Invite!Started, RegInv, RegFields, Busy, Requests
  <2>3. Invite!Reserved(t) = 0 /\ Invite!Reserved(s) \in Nat /\ Granted(t) = Granted(s) /\ Granted(s) = 0
    BY <2>2, ReservedType DEF Invite!Reserved, Granted, Kept, Busy, Requests
  <2>4. HeldOpen(t) /\ InFlight(t)
    BY <2>1, <2>2 DEF HeldOpen, InFlight, Busy, Invite!Live, Invite!NoHold
  <2>5. OneEach(t) /\ RoomFits(t) /\ LinkFits(t)
    BY <2>1, <2>2, <2>3, ClientPagesAssumption DEF RegInv, RegFields, OneEach, RoomFits, LinkFits, Busy
  <2>. QED
    BY <2>4, <2>5
<1>. QED
  BY <1>1, <1>2 DEF RegInv

(* The slot of a request that has made its account is used up.             *)
(* A request uses up its slot, whose place is from now on its user's.      *)
LEMMA ConsumeKeeps ==
  ASSUME NEW s, NEW t, RegInv(s), NEW r \in Requests, s.req[r].at = "allocated", NEW v \in Invite!Holders,
         s.req[r].src = v, Invite!Live(s, v), s.hold[v].slot = s.req[r].slot, s.row[s.req[r].slot] = "open",
         DOMAIN t = DOMAIN s, t.group = s.group, t.made = s.made, t.used = s.used, t.raced = s.raced,
         t.req = [s.req EXCEPT ![r] = Invite!NoReq], t.row = [s.row EXCEPT ![s.req[r].slot] = "used"],
         t.hold = [s.hold EXCEPT ![v] = [slot |-> 0, st |-> "completed"]]
  PROVE  RegInv(t)
<1> DEFINE x == s.req[r].slot
<1>1. x \in Invite!Slots /\ x # 0
  BY DEF RegInv, RegFields, Invite!Slots
<1>2. t.req[r] = Invite!NoReq /\ \A q \in Requests \ {r} : t.req[q] = s.req[q]
  BY DEF RegInv, RegFields
<1>3. ~Invite!Live(t, v) /\ \A w \in Invite!Holders \ {v} :
          t.hold[w] = s.hold[w] /\ (Invite!Live(t, w) <=> Invite!Live(s, w))
  BY DEF RegInv, RegFields, Invite!Live
<1>4. \A w \in Invite!Holders \ {v} : Invite!Live(s, w) => s.hold[w].slot # x
  BY DEF RegInv, Apart
<1>5. RegFields(t) /\ Apart(t)
  BY <1>2, <1>3 DEF RegInv, RegFields, Apart, Invite!NoReq, Busy
<1>6. ASSUME ~t.raced PROVE HeldOpen(t) /\ InFlight(t) /\ OneEach(t) /\ RoomFits(t) /\ LinkFits(t)
  <2>1. \A q \in Requests \ {r} : Busy(s, q) => s.req[q].src # v
    BY <1>6 DEF RegInv, InFlight, Busy
  <2>2. \A q \in Requests \ {r} : Busy(s, q) => s.req[q].slot # x
    BY <1>1, <1>4, <1>6, <2>1 DEF RegInv, RegFields, InFlight, Invite!Sources
  <2>3. HeldOpen(t)
    BY <1>3, <1>4, <1>6 DEF RegInv, RegFields, HeldOpen
  <2>4. InFlight(t)
    BY <1>2, <1>3, <1>6, <2>1 DEF RegInv, InFlight, Busy, Invite!NoReq
  <2>5. OneEach(t)
    BY <1>1, <1>2, <1>6 DEF RegInv, RegFields, OneEach, Busy, Invite!NoReq
  <2>6. Granted(s) = Granted(t) + 1 /\ Granted(t) \in 0 .. 2
    BY <1>1, <1>2, GrantedType DEF Granted, Kept, Invite!NoReq, Requests
  <2>7. Invite!Reserved(s) = Invite!Reserved(t) + 1 /\ Invite!Reserved(t) \in Nat
    <3>1. s.group = "on" /\ x \in Invite!OpenSlots(s) /\ Invite!OpenSlots(t) = Invite!OpenSlots(s) \ {x}
      BY <1>1, <1>6 DEF RegInv, RegFields, HeldOpen, Invite!OpenSlots
    <3>2. IsFiniteSet(Invite!OpenSlots(s)) /\ Cardinality(Invite!OpenSlots(s)) \in Nat
      BY SlotsAreFinite DEF Invite!OpenSlots
    <3>. QED
      <4>1. Cardinality(Invite!OpenSlots(s) \ {x}) = Cardinality(Invite!OpenSlots(s)) - 1
        BY <3>1, <3>2, FS_RemoveElement
      <4>2. Invite!Reserved(t) = Cardinality(Invite!OpenSlots(t)) /\
                Invite!Reserved(s) = Cardinality(Invite!OpenSlots(s))
        BY <3>1, SameCount DEF Invite!Reserved
      <4>. QED
        BY <3>1, <3>2, <4>1, <4>2, ReservedType
  <2>8. RoomFits(t) /\ LinkFits(t)
    BY <1>2, <1>6, <2>6, <2>7, ClientPagesAssumption DEF RegInv, RegFields, RoomFits, LinkFits,
       Invite!NoReq
  <2>. QED
    BY <2>3, <2>4, <2>5, <2>8
<1>. QED
  BY <1>5, <1>6 DEF RegInv

(* The slots that nobody has used are deleted.                             *)
LEMMA DeleteFreeKeeps ==
  ASSUME NEW s, RegInv(s)
  PROVE  RegInv(Invite!DeleteFree(s)) /\ DOMAIN Invite!DeleteFree(s) = DOMAIN s
<1> DEFINE t == Invite!DeleteFree(s)
<1>1. /\ DOMAIN t = DOMAIN s /\ t.group = s.group /\ t.req = s.req /\ t.made = s.made /\ t.used = s.used
      /\ t.row = [x \in Invite!Slots |-> IF x \in Invite!Deletable(s) THEN "none" ELSE s.row[x]]
      /\ t.hold = [v \in Invite!Holders |-> IF s.hold[v].slot \in Invite!Deletable(s)
             THEN Invite!NoHold ELSE s.hold[v]]
      /\ t.raced <=> s.raced \/ \E v \in Invite!Holders :
             s.hold[v].slot \in Invite!Deletable(s) /\ Invite!Started(s, v)
  BY DEF Invite!DeleteFree, RegInv, RegFields
<1> HIDE DEF t
<1>2. \A v \in Invite!Holders : /\ {"slot", "st"} \subseteq DOMAIN t.hold[v]
                                /\ Invite!Live(t, v) =>
                                       Invite!Live(s, v) /\ t.hold[v] = s.hold[v] /\ s.hold[v].slot \notin Invite!Deletable(s)
                                /\ t.hold[v].slot \in Invite!Slots \cup {0}
  BY <1>1 DEF RegInv, RegFields, Invite!Live, Invite!NoHold
<1>3. RegFields(t) /\ Apart(t)
  BY <1>1, <1>2 DEF RegInv, RegFields, Apart, Busy
<1>4. ASSUME ~t.raced PROVE HeldOpen(t) /\ InFlight(t) /\ OneEach(t) /\ RoomFits(t) /\ LinkFits(t)
  <2>1. ~s.raced /\ \A v \in Invite!Holders : Invite!Started(s, v) => s.hold[v].slot \notin Invite!Deletable(s)
    BY <1>1, <1>4
  <2>2. HeldOpen(t)
    BY <1>1, <1>2, <2>1 DEF RegInv, RegFields, HeldOpen
  <2>3. \A v \in Invite!Holders : Invite!Started(s, v) => t.hold[v] = s.hold[v]
    BY <1>1, <2>1
  <2>4. InFlight(t)
    BY <1>1, <2>1, <2>3 DEF RegInv, RegFields, InFlight, Busy, Invite!Started, Requests, Invite!Live
  <2>5. OneEach(t)
    BY <1>1, <2>1 DEF RegInv, RegFields, OneEach, Busy
  <2>6. Granted(t) = Granted(s) /\ Granted(s) \in 0 .. 2 /\ Invite!Reserved(t) \in Nat /\
            Invite!Reserved(s) \in Nat
    BY <1>1, GrantedType, ReservedType DEF Granted
  <2>7. Invite!Reserved(t) <= Invite!Reserved(s)
    <3>1. Invite!OpenSlots(t) \subseteq Invite!OpenSlots(s) /\ Invite!OpenSlots(s) \subseteq Invite!Slots
      BY <1>1 DEF Invite!OpenSlots
    <3>. QED
      BY <1>1, <3>1, SlotsAreFinite, FS_Subset, SameCount DEF Invite!Reserved
  <2>8. RoomFits(t) /\ LinkFits(t)
    BY <1>1, <2>1, <2>6, <2>7, ClientPagesAssumption DEF RegInv, RegFields, RoomFits, LinkFits
  <2>. QED
    BY <2>2, <2>4, <2>5, <2>8
<1>. QED
  BY <1>1, <1>3, <1>4 DEF RegInv, t

(* Slots are added for which the drive has room.                           *)
LEMMA InsertKeeps ==
  ASSUME NEW s, RegInv(s), NEW n \in Nat, NEW t \in Invite!Inserts(s, n)
  PROVE  RegInv(t)
<1>1. PICK new \in Invite!NewSlots(s, n) :
        /\ n <= Invite!RoomLeft(s)
        /\ t = [s EXCEPT !.row = [x \in Invite!Slots |-> IF x \in new THEN "open" ELSE @[x]],
                  !.made = [x \in Invite!Slots |-> IF x \in new THEN 0 ELSE @[x]],
                  !.raced = @ \/ \E r \in 1..2 : s.req[r].src = "link" /\ s.req[r].at = "user"]
  BY DEF Invite!Inserts
<1>2. /\ DOMAIN t = DOMAIN s /\ t.group = s.group /\ t.hold = s.hold /\ t.req = s.req /\ t.used = s.used
      /\ t.row = [x \in Invite!Slots |-> IF x \in new THEN "open" ELSE s.row[x]]
      /\ t.made = [x \in Invite!Slots |-> IF x \in new THEN 0 ELSE s.made[x]]
      /\ t.raced <=> s.raced \/ \E r \in Requests : s.req[r].src = "link" /\ s.req[r].at = "user"
  BY <1>1 DEF RegInv, RegFields, Requests
<1>3. new \subseteq Invite!Slots /\ Cardinality(new) = n /\ \A x \in new : s.row[x] = "none"
  BY <1>1, SameCount DEF Invite!NewSlots
<1>4. RegFields(t) /\ Apart(t)
  BY <1>2 DEF RegInv, RegFields, Apart, Busy, Invite!Live
<1>5. ASSUME ~t.raced PROVE HeldOpen(t) /\ InFlight(t) /\ OneEach(t) /\ RoomFits(t) /\ LinkFits(t)
  <2>1. HeldOpen(t)
    BY <1>2, <1>3, <1>5 DEF RegInv, RegFields, HeldOpen, Invite!Live
  <2>2. InFlight(t)
    BY <1>2, <1>3, <1>5 DEF RegInv, RegFields, HeldOpen, InFlight, Invite!Live, Busy
  <2>3. OneEach(t)
    BY <1>2, <1>3, <1>5 DEF RegInv, RegFields, OneEach, Busy
  <2>4. Granted(t) = Granted(s) /\ Granted(s) \in 0 .. 2 /\ Invite!Reserved(t) \in Nat /\
            Invite!Reserved(s) \in Nat
    BY <1>2, GrantedType, ReservedType DEF Granted
  <2>5. Invite!Reserved(t) <= Invite!Reserved(s) + n
    <3>1. Invite!OpenSlots(t) = Invite!OpenSlots(s) \cup new /\
              Invite!OpenSlots(s) \subseteq Invite!Slots /\ Invite!OpenSlots(s) \cap new = {}
      BY <1>2, <1>3 DEF Invite!OpenSlots
    <3>2. Cardinality(Invite!OpenSlots(t)) = Cardinality(Invite!OpenSlots(s)) + n
      <4>1. IsFiniteSet(Invite!OpenSlots(s)) /\ IsFiniteSet(new) /\ Cardinality(Invite!OpenSlots(s)) \in Nat
        BY <1>3, <3>1, SlotsAreFinite
      <4>2. Cardinality({}) = 0
        BY FS_EmptySet
      <4>3. Cardinality(Invite!OpenSlots(s) \cup new)
              = Cardinality(Invite!OpenSlots(s)) + Cardinality(new) - Cardinality(Invite!OpenSlots(s) \cap new)
        BY <4>1, FS_Union
      <4>4. Cardinality(new) \in Nat
        BY <1>3, SlotsAreFinite
      <4>5. Cardinality(Invite!OpenSlots(s) \cap new) = 0
        BY <3>1, <4>2
      <4>6. Cardinality(Invite!OpenSlots(t)) = Cardinality(Invite!OpenSlots(s) \cup new)
        BY <3>1
      <4>7. Cardinality(new) = n
        BY <1>3
      <4>. QED
        BY <4>1, <4>3, <4>4, <4>5, <4>6, <4>7
    <3>3. CASE s.group = "on"
      <4>1. Invite!Reserved(t) = Cardinality(Invite!OpenSlots(t)) /\
                Invite!Reserved(s) = Cardinality(Invite!OpenSlots(s))
        BY <1>2, <3>3, SameCount DEF Invite!Reserved
      <4>. QED
        BY <2>4, <3>2, <4>1
    <3>4. CASE s.group # "on"
      <4>1. Invite!Reserved(t) = 0 /\ Invite!Reserved(s) = 0
        BY <1>2, <3>4 DEF Invite!Reserved
      <4>. QED
        BY <4>1
    <3>. QED
      BY <3>3, <3>4
  <2>6. s.used \in Nat /\ n <= Room - s.used - Invite!Reserved(s)
    BY <1>1 DEF RegInv, RegFields, Invite!RoomLeft
  <2>7. RoomFits(t)
    BY <1>2, <2>4, <2>5, <2>6, ClientPagesAssumption DEF RoomFits
  <2>8. LinkFits(t)
    BY <1>2, <1>5 DEF LinkFits
  <2>. QED
    BY <2>1, <2>2, <2>3, <2>7, <2>8
<1>. QED
  BY <1>4, <1>5 DEF RegInv

(* The invariant of the page is that of its server.                        *)
SlotsKept == RegInv(srv)

(* It holds at first, ...                                                  *)
LEMMA RegInitially == Invite!Init => SlotsKept
<1> SUFFICES ASSUME Invite!Init PROVE SlotsKept
  OBVIOUS
<1>1. PICK n \in 1 .. Room :
        srv = [group |-> "on", row |-> [s \in Invite!Slots |-> IF s <= n THEN "open" ELSE "none"],
                    hold |-> [v \in Invite!Holders |-> Invite!NoHold],
                    req |-> [r \in 1..2 |-> Invite!NoReq], known |-> FALSE,
                    made |-> [s \in Invite!Slots |-> 0], used |-> 0, invited |-> "open",
                    failed |-> 0, raced |-> FALSE]
  BY DEF Invite!Init
<1>2. /\ \A v \in Invite!Holders : srv.hold[v] = Invite!NoHold /\ ~Invite!Live(srv, v)
      /\ \A r \in Requests : srv.req[r] = Invite!NoReq /\ ~Busy(srv, r)
      /\ \A x \in Invite!Slots : srv.made[x] = 0
  BY <1>1 DEF Invite!NoHold, Invite!NoReq, Invite!Live, Busy, Requests
<1>3. RegFields(srv) /\ Apart(srv)
  BY <1>1, <1>2 DEF RegFields, Apart, Invite!NoHold, Invite!NoReq, Requests
<1>4. HeldOpen(srv) /\ InFlight(srv) /\ OneEach(srv) /\ LinkFits(srv)
  BY <1>2 DEF HeldOpen, InFlight, OneEach, LinkFits, Invite!NoReq
<1>5. Invite!Reserved(srv) <= n
  <2>1. Invite!OpenSlots(srv) \subseteq 1 .. n
    BY <1>1 DEF Invite!OpenSlots, Invite!Slots
  <2>2. IsFiniteSet(1 .. n) /\ Cardinality(1 .. n) = n
    BY FS_Interval
  <2>3. Invite!Reserved(srv) = Cardinality(Invite!OpenSlots(srv))
    BY <1>1, SameCount DEF Invite!Reserved
  <2>. QED
    BY <2>1, <2>2, <2>3, FS_Subset
<1>6. RoomFits(srv)
  BY <1>1, <1>5, ReservedType, GrantedType, ClientPagesAssumption DEF RoomFits
<1>. QED
  BY <1>3, <1>4, <1>6 DEF SlotsKept, RegInv

(* ... every step keeps it, ...                                            *)
LEMMA RegStep == SlotsKept /\ [Invite!Next]_Invite!vars => SlotsKept'
<1> SUFFICES ASSUME SlotsKept, [Invite!Next]_Invite!vars PROVE SlotsKept'
  OBVIOUS
<1> USE DEF SlotsKept
<1>1. CASE UNCHANGED srv
  BY <1>1 DEF RegInv, RegFields, Apart, HeldOpen, InFlight, OneEach, RoomFits, LinkFits,
     Invite!Live, Busy,
              Invite!Reserved, Invite!OpenSlots, Granted
<1>2. CASE Invite!Lapse
  <2>1. PICK v \in Invite!Holders : srv.hold[v].st = "active" /\ srv' = [srv EXCEPT !.hold[v].st = "lapsed"]
    BY <1>2 DEF Invite!Lapse
  <2>2. /\ DOMAIN srv' = DOMAIN srv /\ srv'.group = srv.group /\ srv'.row = srv.row /\ srv'.req = srv.req
        /\ srv'.made = srv.made /\ srv'.used = srv.used /\ srv'.raced = srv.raced
        /\ DOMAIN srv'.hold = Invite!Holders
        /\ \A w \in Invite!Holders : /\ {"slot", "st"} \subseteq DOMAIN srv'.hold[w]
                                     /\ srv'.hold[w].slot = srv.hold[w].slot
                                     /\ Invite!Live(srv', w) <=> Invite!Live(srv, w)
    BY <2>1 DEF RegInv, RegFields, Invite!Live
  <2>3. Invite!Reserved(srv') = Invite!Reserved(srv) /\ Granted(srv') = Granted(srv)
    BY <2>2, SameReserved DEF Granted
  <2>4. \A r \in Requests : Busy(srv', r) <=> Busy(srv, r)
    BY <2>2 DEF Busy
  <2>. QED
    BY <2>2, <2>3, <2>4 DEF RegInv, RegFields, Apart, HeldOpen, InFlight, OneEach, RoomFits, LinkFits
<1>3. ASSUME NEW v \in Invite!Holders, Invite!GroupIsOn, ~Invite!Live(srv, v), ~Invite!Started(srv, v), srv' \in Invite!Reserve(v)
      PROVE  RegInv(srv')
  <2>1. PICK x \in Invite!FreeSlots(Invite!Sweep(srv)) :
            srv' = [Invite!Sweep(srv) EXCEPT !.hold[v] = [slot |-> x, st |-> "active"]]
    BY <1>3 DEF Invite!Reserve, Invite!ToReserve
  <2>2. Invite!Sweep(srv).group = "on" /\ Invite!Sweep(srv).req = srv.req
        /\ Invite!Sweep(srv).hold = [w \in Invite!Holders |-> IF srv.hold[w].st = "lapsed"
               THEN Invite!NoHold ELSE srv.hold[w]]
    BY <1>3 DEF Invite!Sweep, Invite!GroupIsOn, RegInv, RegFields
  <2>3. ~Invite!Live(Invite!Sweep(srv), v) /\ ~Invite!Started(Invite!Sweep(srv), v)
    BY <1>3, <2>2 DEF Invite!Live, Invite!Started, Invite!NoHold
  <2>. QED
    BY <2>1, <2>2, <2>3, SweepKeeps, ReserveKeeps
<1>4. CASE Invite!KcCreateUser
  <2>1. PICK r \in Requests :
          /\ srv.req[r].at = "checked"
          /\ \/ srv' = Invite!End(srv, r)
             \/ srv' = [srv EXCEPT !.req[r].at = "known", !.known = @ \/ r = 1]
    BY <1>4 DEF Invite!KcCreateUser, Requests
  <2>2. CASE srv' = Invite!End(srv, r)
    <3>1. SameSlots(srv, srv') /\ srv'.made = srv.made /\ srv'.used = srv.used
          /\ srv'.raced = srv.raced /\ srv'.req = [srv.req EXCEPT ![r] = Invite!NoReq]
      BY <2>2 DEF Invite!End, SameSlots, RegInv, RegFields
    <3>. QED
      BY <2>1, <3>1, EndKeeps DEF Busy
  <2>3. CASE srv' = [srv EXCEPT !.req[r].at = "known", !.known = @ \/ r = 1]
    <3>1. SameSlots(srv, srv') /\ srv'.made = srv.made /\ srv'.used = srv.used
          /\ srv'.raced = srv.raced /\ srv'.req = [srv.req EXCEPT ![r].at = "known"]
      BY <2>3 DEF SameSlots, RegInv, RegFields
    <3>. QED
      BY <2>1, <3>1, MoveKeeps
  <2>. QED
    BY <2>1, <2>2, <2>3
<1>5. CASE Invite!RoleFails
  <2>1. PICK r \in Requests : srv.req[r].at = "known" /\ srv' = [Invite!End(srv, r) EXCEPT !.failed = @ + 1]
    BY <1>5 DEF Invite!RoleFails, Requests
  <2>2. SameSlots(srv, srv') /\ srv'.made = srv.made /\ srv'.used = srv.used
        /\ srv'.raced = srv.raced /\ srv'.req = [srv.req EXCEPT ![r] = Invite!NoReq]
    BY <2>1 DEF Invite!End, SameSlots, RegInv, RegFields
  <2>. QED
    BY <2>1, <2>2, EndKeeps DEF Busy
<1>6. CASE Invite!CreateUser
  <2>1. PICK r \in Requests :
          /\ srv.req[r].at = "known"
          /\ \/ srv' = Invite!End(srv, r)
             \/ /\ srv' = [srv EXCEPT !.req[r].at = "user"]
                /\ ~(srv.req[r].src = "link" /\ Invite!RoomLeft(srv) < 1)
    BY <1>6 DEF Invite!CreateUser, Requests
  <2>2. CASE srv' = Invite!End(srv, r)
    <3>1. SameSlots(srv, srv') /\ srv'.made = srv.made /\ srv'.used = srv.used
          /\ srv'.raced = srv.raced /\ srv'.req = [srv.req EXCEPT ![r] = Invite!NoReq]
      BY <2>2 DEF Invite!End, SameSlots, RegInv, RegFields
    <3>. QED
      BY <2>1, <3>1, EndKeeps DEF Busy
  <2>3. CASE srv' # Invite!End(srv, r)
    <3>1. SameSlots(srv, srv') /\ srv'.made = srv.made /\ srv'.used = srv.used
          /\ srv'.raced = srv.raced /\ srv'.req = [srv.req EXCEPT ![r].at = "user"]
      BY <2>1, <2>3 DEF SameSlots, RegInv, RegFields
    <3>2. srv.req[r].src = "link" => Invite!RoomLeft(srv) >= 1
      BY <2>1, <2>3, ReservedType, ClientPagesAssumption DEF Invite!RoomLeft, RegInv, RegFields
    <3>. QED
      BY <2>1, <3>1, <3>2, MoveKeeps
  <2>. QED
    BY <2>2, <2>3
<1>7. CASE Invite!AllocateUserToDrive
  <2>1. PICK r \in Requests :
          /\ srv.req[r].at = "user"
          /\ srv' = [srv EXCEPT !.req[r].at = "allocated", !.used = @ + 1,
                       !.made = IF srv.req[r].slot = 0 THEN @ ELSE [srv.made EXCEPT ![srv.req[r].slot] = @ + 1]]
    BY <1>7 DEF Invite!AllocateUserToDrive, Requests
  <2>2. /\ SameSlots(srv, srv') /\ srv'.used = srv.used + 1 /\ srv'.raced = srv.raced
        /\ srv'.req = [srv.req EXCEPT ![r].at = "allocated"]
    BY <2>1 DEF SameSlots, RegInv, RegFields
  <2>3. /\ srv.req[r].slot = 0 => srv'.made = srv.made
        /\ srv.req[r].slot # 0 => srv'.made = [srv.made EXCEPT ![srv.req[r].slot] = @ + 1]
    BY <2>1 DEF RegInv, RegFields
  <2>. QED
    <3>1. srv.req[r].at = "user" /\ RegInv(srv)
      BY <2>1
    <3>. QED
      BY <2>2, <2>3, <3>1, AllocateKeeps
<1>8. CASE Invite!CompleteSlotReservation
  <2>1. PICK r \in Requests :
          /\ srv.req[r].at = "allocated"
          /\ LET v == srv.req[r].src
                 mine == v \in Invite!Holders /\ Invite!Live(srv, v) /\ srv.hold[v].slot = srv.req[r].slot
                         /\ srv.row[srv.req[r].slot] = "open"
                 s == IF v = "link" THEN [srv EXCEPT !.invited = "used"]
                      ELSE IF mine THEN Invite!Consumed(srv, r) ELSE srv IN
             srv' = Invite!End(s, r) \/ srv' = [Invite!End(s, r) EXCEPT !.failed = @ + 1]
    BY <1>8 DEF Invite!CompleteSlotReservation, Requests
  <2> DEFINE v == srv.req[r].src
  <2>2. CASE v \in Invite!Holders /\ Invite!Live(srv, v) /\ srv.hold[v].slot = srv.req[r].slot
             /\ srv.row[srv.req[r].slot] = "open"
    <3>1. v # "link"
      BY <2>2 DEF Invite!Holders
    <3>2. srv' = Invite!End(Invite!Consumed(srv, r), r) \/
              srv' = [Invite!End(Invite!Consumed(srv, r), r) EXCEPT !.failed = @ + 1]
      BY <2>1, <2>2, <3>1
    <3>3. /\ DOMAIN srv' = DOMAIN srv /\ srv'.group = srv.group /\ srv'.made = srv.made
          /\ srv'.used = srv.used /\ srv'.raced = srv.raced
          /\ srv'.req = [srv.req EXCEPT ![r] = Invite!NoReq]
          /\ srv'.row = [srv.row EXCEPT ![srv.req[r].slot] = "used"]
          /\ srv'.hold = [srv.hold EXCEPT ![v] = [slot |-> 0, st |-> "completed"]]
      BY <3>2 DEF Invite!End, Invite!Consumed, RegInv, RegFields
    <3>. QED
      BY <2>1, <2>2, <3>3, ConsumeKeeps
  <2>3. CASE ~(v \in Invite!Holders /\ Invite!Live(srv, v) /\ srv.hold[v].slot = srv.req[r].slot
               /\ srv.row[srv.req[r].slot] = "open")
    <3>1. PICK s \in {srv, [srv EXCEPT !.invited = "used"]} :
            srv' = Invite!End(s, r) \/ srv' = [Invite!End(s, r) EXCEPT !.failed = @ + 1]
      BY <2>1, <2>3
    <3>4. /\ DOMAIN s = DOMAIN srv /\ s.group = srv.group /\ s.row = srv.row /\ s.hold = srv.hold
          /\ s.req = srv.req /\ s.made = srv.made /\ s.used = srv.used /\ s.raced = srv.raced
          /\ {"group", "row", "hold", "req", "made", "used", "raced", "failed"} \subseteq DOMAIN srv
          /\ DOMAIN srv.req = Requests
      BY <3>1 DEF RegInv, RegFields
    <3>2. /\ SameSlots(srv, srv') /\ srv'.made = srv.made /\ srv'.used = srv.used
          /\ srv'.raced = srv.raced /\ srv'.req = [srv.req EXCEPT ![r] = Invite!NoReq]
      <4>1. CASE srv' = Invite!End(s, r)
        BY <3>4, <4>1 DEF Invite!End, SameSlots
      <4>2. CASE srv' = [Invite!End(s, r) EXCEPT !.failed = @ + 1]
        BY <3>4, <4>2 DEF Invite!End, SameSlots
      <4>. QED
        BY <3>1, <4>1, <4>2
    <3>3. srv.raced \/ v = "link"
      BY <2>1, <2>3 DEF RegInv, RegFields, InFlight, HeldOpen, Busy, Invite!Sources
    <3>. QED
      BY <2>1, <3>2, <3>3, EndKeeps DEF Busy
  <2>. QED
    BY <2>2, <2>3
<1>9. CASE Invite!Stops
  <2>1. PICK r \in Requests :
          /\ srv.req[r].at \notin {"none", "checked"}
          /\ srv' = [Invite!End(srv, r) EXCEPT !.failed = @ + 1, !.raced = @ \/ srv.req[r].at = "allocated"]
    BY <1>9 DEF Invite!Stops, Requests
  <2>2. /\ SameSlots(srv, srv') /\ srv'.made = srv.made /\ srv'.used = srv.used
        /\ srv'.raced <=> srv.raced \/ srv.req[r].at = "allocated"
        /\ srv'.req = [srv.req EXCEPT ![r] = Invite!NoReq]
    BY <2>1 DEF Invite!End, SameSlots, RegInv, RegFields
  <2>3. Busy(srv, r) /\ (srv'.raced \/ srv.req[r].at # "allocated" \/ srv.req[r].src = "link")
    BY <2>1, <2>2 DEF Busy
  <2>4. srv.raced => srv'.raced
    BY <2>2
  <2>. QED
    BY <2>2, <2>3, <2>4, EndKeeps
<1>10. CASE Invite!Elsewhere
  <2>1. PICK v \in Invite!Holders :
            Invite!Valid(srv, v) /\ srv' = Invite!Start(2, v) /\ srv.req[2] = Invite!NoReq
    BY <1>10 DEF Invite!Elsewhere, Invite!CanStart
  <2>2. Invite!Valid(Invite!Sweep(srv), v)
    BY <2>1 DEF Invite!Valid, Invite!Sweep, RegInv, RegFields, Invite!Holders
  <2>. QED
    BY <2>1, <2>2, StartKeeps DEF Invite!Sources, Requests
<1>11. CASE Invite!Submit
  <2>1. Invite!MySource \in Invite!Sources
    BY DEF Invite!MySource, Invite!Sources, Invite!Holders
  <2>2. srv.req[1] = Invite!NoReq
    BY <1>11 DEF Invite!Submit, Invite!CanStart
  <2>3. CASE Invite!Valid(Invite!Sweep(srv), Invite!MySource)
    BY <1>11, <2>1, <2>2, <2>3, StartKeeps DEF Invite!Submit, Requests
  <2>4. CASE ~Invite!Valid(Invite!Sweep(srv), Invite!MySource)
    BY <1>11, <2>4, SweepKeeps DEF Invite!Submit
  <2>. QED
    BY <2>3, <2>4
<1>12. CASE Invite!ChangeName
  <2>1. srv' = [srv EXCEPT !.known = FALSE]
    BY <1>12 DEF Invite!ChangeName
  <2>2. /\ DOMAIN srv' = DOMAIN srv /\ srv'.group = srv.group /\ srv'.row = srv.row /\ srv'.req = srv.req
        /\ srv'.made = srv.made /\ srv'.used = srv.used /\ srv'.raced = srv.raced /\ srv'.hold = srv.hold
    BY <2>1
  <2>3. Invite!Reserved(srv') = Invite!Reserved(srv) /\ Granted(srv') = Granted(srv)
    BY <2>2, SameReserved DEF Granted
  <2>. QED
    BY <2>2, <2>3 DEF RegInv, RegFields, Apart, HeldOpen, InFlight, OneEach, RoomFits, LinkFits,
       Invite!Live, Busy
<1>13. CASE Invite!BackToSlots
  BY <1>13, ReleaseKeeps DEF Invite!BackToSlots, Invite!Holders
<1>14. CASE Invite!AddSlots
  BY <1>14, InsertKeeps DEF Invite!AddSlots
<1>15. CASE Invite!SaveEdit
  <2>1. CASE ui.edit \in Nat
    BY <1>15, <2>1, DeleteFreeKeeps, InsertKeeps DEF Invite!SaveEdit
  <2>2. CASE ui.edit \notin Nat
    <3>1. \A S \in Invite!NewSlots(Invite!DeleteFree(srv), ui.edit) : FALSE
      BY <2>2, SlotsAreFinite, SameCount DEF Invite!NewSlots
    <3>. QED
      BY <1>15, <3>1 DEF Invite!SaveEdit, Invite!Inserts
  <2>. QED
    BY <2>1, <2>2
<1>16. CASE Invite!DeleteSlots
  BY <1>16, DeleteFreeKeeps DEF Invite!DeleteSlots
<1>17. CASE Invite!CloseGroup
  <2>1. PICK g \in {"off", "over"} : srv' = [srv EXCEPT !.group = g, !.raced = @ \/ Invite!AnyHeld(srv)]
    BY <1>17 DEF Invite!CloseGroup
  <2>2. /\ DOMAIN srv' = DOMAIN srv /\ srv'.group # "on" /\ srv'.row = srv.row /\ srv'.req = srv.req
        /\ srv'.made = srv.made /\ srv'.used = srv.used /\ srv'.hold = srv.hold
        /\ srv'.raced <=> srv.raced \/ Invite!AnyHeld(srv)
    BY <2>1 DEF RegInv, RegFields
  <2>. QED
    BY <2>2, CloseKeeps
<1>18. CASE Invite!DeleteGroup
  <2>1. srv' = [srv EXCEPT !.group = "gone", !.row = [x \in Invite!Slots |-> "none"],
                           !.hold = [v \in Invite!Holders |-> Invite!NoHold], !.raced = @ \/
                               Invite!AnyHeld(srv)]
    BY <1>18 DEF Invite!DeleteGroup
  <2>2. /\ DOMAIN srv' = DOMAIN srv /\ srv'.group # "on" /\ srv'.row = [x \in Invite!Slots |-> "none"]
        /\ srv'.req = srv.req /\ srv'.made = srv.made /\ srv'.used = srv.used
        /\ srv'.hold = [v \in Invite!Holders |-> Invite!NoHold]
        /\ srv'.raced <=> srv.raced \/ Invite!AnyHeld(srv)
    BY <2>1 DEF RegInv, RegFields
  <2>. QED
    BY <2>2, CloseKeeps
<1>19. CASE Invite!OtherReserves \/ Invite!PickSlot
  BY <1>3, <1>19 DEF Invite!OtherReserves, Invite!PickSlot, Invite!Holders
<1>20. CASE Invite!Tick \/ Invite!LeavePlans \/ Invite!PickAgain \/ Invite!StartEdit \/ Invite!CancelEdit
  BY <1>1, <1>20 DEF Invite!Tick, Invite!LeavePlans, Invite!PickAgain, Invite!StartEdit,
     Invite!CancelEdit
<1>. QED
  BY <1>1, <1>2, <1>4, <1>5, <1>6, <1>7, <1>8, <1>9, <1>10, <1>11, <1>12, <1>13, <1>14, <1>15, <1>16,
     <1>17, <1>18, <1>19, <1>20 DEF Invite!Next, Invite!vars

(* ... and it is what the page promises, and more.                         *)
LEMMA RegPromises == SlotsKept => Invite!RoomKept /\ Invite!OneAccountPerSlot /\ Invite!HoldKept
<1> SUFFICES ASSUME RegInv(srv) PROVE Invite!RoomKept /\ Invite!OneAccountPerSlot /\ Invite!HoldKept
  BY DEF SlotsKept
<1>1. Invite!HoldKept
  BY DEF RegInv, Apart, HeldOpen, Invite!HoldKept, Invite!Live
<1>2. Invite!OneAccountPerSlot
  BY DEF RegInv, OneEach, Invite!OneAccountPerSlot, Requests
<1>3. Cardinality({r \in 1..2 : srv.req[r].at = "allocated" /\ srv.req[r].slot # 0}) = Granted(srv)
  <2> DEFINE S == {r \in 1..2 : srv.req[r].at = "allocated" /\ srv.req[r].slot # 0}
  <2>1. /\ S = (IF 1 \in S THEN {1} ELSE {}) \cup (IF 2 \in S THEN {2} ELSE {})
        /\ Kept(srv.req[1]) = (IF 1 \in S THEN 1 ELSE 0) /\ Kept(srv.req[2]) = (IF 2 \in S THEN 1 ELSE 0)
    BY DEF Kept
  <2>2. /\ Cardinality({}) = 0 /\ Cardinality({1}) = 1 /\ Cardinality({2}) = 1
        /\ Cardinality({1} \cup {2}) = 2
    BY FS_EmptySet, FS_Singleton, FS_AddElement
  <2> HIDE DEF S
  <2>3. /\ 1 \in S /\ 2 \in S => S = {1} \cup {2}
        /\ 1 \in S /\ 2 \notin S => S = {1}
        /\ 1 \notin S /\ 2 \in S => S = {2}
        /\ 1 \notin S /\ 2 \notin S => S = {}
    BY <2>1
  <2>4. Cardinality(S) = (IF 1 \in S THEN 1 ELSE 0) + (IF 2 \in S THEN 1 ELSE 0)
    BY <2>2, <2>3
  <2>. QED
    BY <2>1, <2>4 DEF Granted, S
<1>. QED
  BY <1>1, <1>2, <1>3, SameCount DEF RegInv, RoomFits, Invite!RoomKept

----------------------------------------------------------------------------
(* Buying storage. An order is carried on by the modal it was begun in, or *)
(* by that modal's page after the modal is closed, or by PayPal's page; of a *)
(* purchase all that matters is that the drive has the room it had when it *)
(* was offered, until somebody takes some.                                 *)

(* The fields the argument speaks of are there; what was ordered has a      *)
(* kind, and nobody carries on what was not.                               *)
UiFields ==
  {"client", "phase", "plan", "tier", "row", "listed", "busy", "error", "order", "custom", "repriced"}
OrderFields == {"way", "kind", "size", "row", "st", "told", "held"}
PurchaseFields ==
  /\ {"room", "orders", "custom", "taken", "faults"} \subseteq DOMAIN srv
  /\ UiFields \subseteq DOMAIN ui
  /\ DOMAIN srv.orders = Storage!Orders
  /\ \A o \in Storage!Orders : /\ OrderFields \subseteq DOMAIN srv.orders[o]
                               /\ srv.orders[o].size \in Int
                               /\ (srv.orders[o].st # "none" => srv.orders[o].kind \in {"purchase", "deposit"})
                               /\ (srv.orders[o].st = "none" => srv.orders[o].held = "left")
  /\ srv.room \in [Rows -> Int] /\ srv.faults \in Nat /\ srv.taken \in BOOLEAN
  /\ ui.plan \in Int /\ ui.listed \in [Rows -> Int]

(* What is being carried on outside the modal is an order that nobody else  *)
(* carries on.                                                             *)
Abroad ==
  /\ ui.phase \in {"away", "return"} =>
       /\ ui.client = "page" /\ ui.order \in Storage!Orders
       /\ srv.orders[ui.order].way = "paypal"
       /\ (ui.phase = "away" => srv.orders[ui.order].st = "created")
       /\ ((ui.phase = "return" /\ ~ui.error) => srv.orders[ui.order].st = "approved")
       /\ \A o \in Storage!Orders : srv.orders[o].held = "left"
  /\ ui.phase \in {"processing", "verifying", "awaiting"} => ui.order \in Storage!Orders

(* Success is shown for an order that was served.                          *)
ShownServed == ui.phase \in {"purchased", "requested", "complete"} => ui.order \in Storage!Orders

(* Unless room was taken, a purchase fits the drive it was offered on.      *)
Untouched == ~srv.taken /\ \A o \in Storage!Orders : srv.orders[o].st # "served"
OfferFits ==
  Untouched =>
    /\ srv.room[Home] >= 0 /\ ui.listed[Home] <= srv.room[Home]
    /\ \A o \in Storage!Orders :
         (srv.orders[o].st # "none" /\ srv.orders[o].kind = "purchase" /\ srv.orders[o].row = Home)
           => srv.orders[o].size <= srv.room[Home]

(* The inductive invariant.                                                *)
PurchaseInv == PurchaseFields /\ Abroad /\ ShownServed /\ OfferFits /\ Storage!PaidIsServed /\
    Storage!SuccessIsServed

(* What any step does to the orders.                                       *)
Evolves ==
  /\ {"room", "orders", "custom", "taken", "faults"} \subseteq DOMAIN srv'
  /\ DOMAIN srv'.orders = Storage!Orders
  /\ \A o \in Storage!Orders : OrderFields \subseteq DOMAIN srv'.orders[o]
  /\ srv'.faults \in Nat /\ srv'.faults >= srv.faults
  /\ srv'.taken \in BOOLEAN /\ (srv.taken => srv'.taken)
  /\ srv'.room \in [Rows -> Int]
  /\ srv'.room = srv.room \/ srv'.taken \/ \E p \in Storage!Orders : srv'.orders[p].st = "served"
  /\ \A o \in Storage!Orders :
       /\ srv.orders[o].st = "served" =>
            srv'.orders[o].st = "served" /\ srv'.orders[o].kind = srv.orders[o].kind
       /\ srv'.orders[o].st # "none" =>
            \/ /\ srv.orders[o].st # "none" /\ srv'.orders[o].kind = srv.orders[o].kind
               /\ srv'.orders[o].size = srv.orders[o].size /\ srv'.orders[o].row = srv.orders[o].row
            \/ /\ srv.orders[o].st = "none" /\ srv'.orders[o].kind = Storage!Kind /\ srv'.orders[o].st = "sheet"
               /\ srv'.orders[o].size = ui.plan /\ srv'.orders[o].row = ui.row
       /\ srv'.orders[o].st = "none" => srv'.orders[o].size \in Int /\ srv'.orders[o].held = "left"
       /\ srv'.orders[o].st = "paid" =>
            \/ srv.orders[o].st = "paid" \/ srv'.faults > 0 \/ ui.repriced
            \/ srv.orders[o].kind = "purchase" /\ srv.room[Home] < srv.orders[o].size

(* What any step does to the offer.                                        *)
Offers ==
  /\ UiFields \subseteq DOMAIN ui' /\ ui'.plan \in Int /\ ui'.repriced = ui.repriced
  /\ ui'.listed = ui.listed \/ ui'.listed = srv.room \/ ui'.listed = [r \in Rows |-> 0]

(* What any step shows.                                                    *)
Shows ==
  ui'.phase \in {"purchased", "requested", "complete"} =>
    \/ ui'.phase = ui.phase /\ ui'.order = ui.order
    \/ /\ ui'.order \in Storage!Orders /\ srv'.orders[ui'.order].st = "served"
       /\ (ui'.phase = "purchased" => srv'.orders[ui'.order].kind = "purchase")
       /\ (ui'.phase = "requested" => srv'.orders[ui'.order].kind = "deposit")

(* An order is a purchase only of what the offer has room for.             *)
LEMMA KindIs == Storage!Kind \in {"purchase", "deposit"}
  BY DEF Storage!Kind
LEMMA KindFits == Storage!Kind = "purchase" => ~Storage!LacksRoom
  BY DEF Storage!Kind, Storage!ExpansionPage, Storage!ExpansionApp

(* A step that does no more than this to the orders, the offer and what is *)
(* shown keeps the invariant, if only it leaves a payment at PayPal alone. *)
LEMMA Serving ==
  ASSUME PurchaseInv, Evolves, Offers, Shows, Abroad'
  PROVE  PurchaseInv'
<1> USE ClientPagesAssumption DEF PurchaseInv
<1>1. PurchaseFields'
  <2>1. \A o \in Storage!Orders : /\ OrderFields \subseteq DOMAIN srv'.orders[o]
                                  /\ srv'.orders[o].size \in Int
                                  /\ (srv'.orders[o].st # "none" =>
                                         srv'.orders[o].kind \in {"purchase", "deposit"})
                                  /\ (srv'.orders[o].st = "none" => srv'.orders[o].held = "left")
    BY KindIs DEF Evolves, PurchaseFields
  <2>2. ui'.listed \in [Rows -> Int]
    BY DEF Offers, PurchaseFields
  <2> QED BY <2>1, <2>2 DEF PurchaseFields, Evolves, Offers, UiFields
<1>2. ShownServed'
  BY DEF ShownServed, Shows
<1>3. OfferFits'
  <2> SUFFICES ASSUME Untouched'
               PROVE  /\ srv'.room[Home] >= 0 /\ ui'.listed[Home] <= srv'.room[Home]
                      /\ \A o \in Storage!Orders :
                           (srv'.orders[o].st # "none" /\ srv'.orders[o].kind = "purchase" /\
                               srv'.orders[o].row = Home)
                             => srv'.orders[o].size <= srv'.room[Home]
    BY DEF OfferFits
  <2>1. Untouched /\ srv'.room = srv.room
    BY DEF Untouched, Evolves
  <2>2. srv.room[Home] >= 0 /\ ui.listed[Home] <= srv.room[Home]
    BY <2>1 DEF OfferFits
  <2>3. ui'.listed[Home] <= srv'.room[Home] /\ srv'.room[Home] \in Int
    BY <2>1, <2>2 DEF Offers, PurchaseFields
  <2>4. ASSUME NEW o \in Storage!Orders, srv'.orders[o].st # "none", srv'.orders[o].kind = "purchase", srv'.orders[o].row = Home
        PROVE  srv'.orders[o].size <= srv'.room[Home]
    <3>1. CASE srv.orders[o].st # "none" /\ srv'.orders[o].kind = srv.orders[o].kind
               /\ srv'.orders[o].size = srv.orders[o].size /\ srv'.orders[o].row = srv.orders[o].row
      BY <3>1, <2>1, <2>4 DEF OfferFits
    <3>2. CASE srv'.orders[o].kind = Storage!Kind /\ srv'.orders[o].size = ui.plan /\
              srv'.orders[o].row = ui.row
      BY <3>2, <2>1, <2>2, <2>4, KindFits DEF Storage!LacksRoom, PurchaseFields
    <3> QED BY <3>1, <3>2, <2>4 DEF Evolves
  <2> QED BY <2>1, <2>2, <2>3, <2>4
<1>4. Storage!PaidIsServed'
  <2> SUFFICES ASSUME NEW o \in Storage!Orders, srv'.orders[o].st = "paid", ~(srv'.faults > 0), ~srv'.taken,
                      srv'.orders[o].row = Home, ~ui'.repriced
               PROVE  \E p \in Storage!Orders : srv'.orders[p].st = "served"
    BY DEF Storage!PaidIsServed
  <2>1. srv.orders[o].row = Home /\ srv.orders[o].st # "none" /\ ~srv.taken /\ ~ui.repriced /\ ~(srv.faults > 0)
    BY DEF Evolves, PurchaseFields, Offers
  <2>2. ASSUME NEW p \in Storage!Orders, srv.orders[p].st = "served"
        PROVE  srv'.orders[p].st = "served"
    BY <2>2 DEF Evolves
  <2>3. CASE srv.orders[o].st = "paid"
    BY <2>1, <2>2, <2>3 DEF Storage!PaidIsServed
  <2>4. CASE srv.orders[o].kind = "purchase" /\ srv.room[Home] < srv.orders[o].size
    <3>1. ~Untouched
      BY <2>1, <2>4 DEF OfferFits, PurchaseFields
    <3> QED BY <3>1, <2>1, <2>2 DEF Untouched
  <2> QED BY <2>1, <2>3, <2>4 DEF Evolves
<1>5. Storage!SuccessIsServed'
  BY DEF Storage!SuccessIsServed, ShownServed, Shows, Evolves
<1> QED BY <1>1, <1>2, <1>3, <1>4, <1>5

(* What the steps are made of: nothing happens to the orders, ...          *)
LEMMA Unmoved ==
  ASSUME PurchaseInv, UNCHANGED srv
  PROVE  Evolves
  BY DEF PurchaseInv, PurchaseFields, Evolves

(* A step leaves the other orders alone.                                   *)
Others(o) == \A p \in Storage!Orders \ {o} : srv'.orders[p] = srv.orders[p]

(* ... an order moves on, ...                                              *)
LEMMA StSteps ==
  ASSUME PurchaseInv, NEW o \in Storage!Orders,
         NEW s, Storage!St(o, s), srv.orders[o].st \notin {"none", "served"},
         s \notin {"none", "served", "paid"}
  PROVE  /\ Evolves /\ Others(o) /\ srv'.orders[o].st = s
         /\ srv'.orders[o].way = srv.orders[o].way /\ srv'.orders[o].held = srv.orders[o].held
<1>1. /\ srv'.orders[o].st = s /\ srv'.orders[o].kind = srv.orders[o].kind
      /\ srv'.orders[o].size = srv.orders[o].size /\ srv'.orders[o].row = srv.orders[o].row
      /\ srv'.orders[o].way = srv.orders[o].way /\ srv'.orders[o].held = srv.orders[o].held
      /\ DOMAIN srv'.orders = Storage!Orders /\ DOMAIN srv'.orders[o] = DOMAIN srv.orders[o]
  BY DEF Storage!St, PurchaseInv, PurchaseFields, OrderFields
<1>2. Others(o)
  BY DEF Storage!St, PurchaseInv, PurchaseFields, Others
<1>3. DOMAIN srv' = DOMAIN srv /\ srv'.room = srv.room /\ srv'.taken = srv.taken /\ srv'.faults = srv.faults
  BY DEF Storage!St, PurchaseInv, PurchaseFields
<1> QED BY <1>1, <1>2, <1>3 DEF Evolves, PurchaseInv, PurchaseFields, Others

(* ... nothing comes of it, ...                                            *)
LEMMA VoidSteps ==
  ASSUME PurchaseInv, NEW o \in Storage!Orders, Storage!Void(o), srv.orders[o].st # "served"
  PROVE  Evolves /\ Others(o) /\ srv'.orders[o] = Storage!NoOrder
<1>1. srv'.orders[o] = Storage!NoOrder /\ DOMAIN srv'.orders = Storage!Orders
  BY DEF Storage!Void, PurchaseInv, PurchaseFields
<1>2. Others(o)
  BY DEF Storage!Void, PurchaseInv, PurchaseFields, Others
<1>3. DOMAIN srv' = DOMAIN srv /\ srv'.room = srv.room /\ srv'.taken = srv.taken /\ srv'.faults = srv.faults
  BY DEF Storage!Void, PurchaseInv, PurchaseFields
<1>4. OrderFields \subseteq DOMAIN srv'.orders[o] /\ srv'.orders[o].st = "none" /\ srv'.orders[o].size \in Int
      /\ srv'.orders[o].held = "left"
  BY <1>1 DEF Storage!NoOrder, OrderFields
<1> QED BY <1>1, <1>2, <1>3, <1>4 DEF Evolves, PurchaseInv, PurchaseFields, Others

(* ... one is begun, ...                                                   *)
LEMMA BeginSteps ==
  ASSUME PurchaseInv, NEW way, Storage!Begin(way), Storage!Free # {}
  PROVE  Evolves /\ Storage!NextOrder \in Storage!Orders
<1> DEFINE o == Storage!NextOrder
<1>0. o \in Storage!Orders /\ srv.orders[o].st = "none"
  BY DEF Storage!NextOrder, Storage!Free
<1>1. srv'.orders[o] = Storage!Order(way, Storage!Kind) /\ DOMAIN srv'.orders = Storage!Orders
  BY <1>0 DEF Storage!Begin, PurchaseInv, PurchaseFields
<1>2. Others(o)
  BY DEF Storage!Begin, PurchaseInv, PurchaseFields, Others
<1>3. DOMAIN srv' = DOMAIN srv /\ srv'.room = srv.room /\ srv'.taken = srv.taken /\ srv'.faults = srv.faults
  BY DEF Storage!Begin, PurchaseInv, PurchaseFields
<1>4. OrderFields \subseteq DOMAIN srv'.orders[o] /\ srv'.orders[o].st = "sheet" /\
          srv'.orders[o].size = ui.plan
      /\ srv'.orders[o].kind = Storage!Kind /\ srv'.orders[o].row = ui.row
  BY <1>1 DEF Storage!Order, OrderFields
<1> HIDE DEF o
<1>5. Evolves
  BY <1>0, <1>1, <1>2, <1>3, <1>4 DEF Evolves, PurchaseInv, PurchaseFields, Others
<1> QED BY <1>0, <1>5 DEF o

(* ... the modal is closed or the page left, ...                           *)
LEMMA HandSteps ==
  ASSUME PurchaseInv, NEW who, srv' = [srv EXCEPT !.orders = Storage!Hand(who)]
  PROVE  Evolves
<1>1. srv'.orders = Storage!Hand(who)
  BY DEF PurchaseInv, PurchaseFields
<1>2. \A o \in Storage!Orders :
          /\ srv'.orders[o].st = srv.orders[o].st /\ srv'.orders[o].kind = srv.orders[o].kind
                                /\ srv'.orders[o].size = srv.orders[o].size /\
                                       srv'.orders[o].row = srv.orders[o].row
                                /\ DOMAIN srv'.orders[o] = DOMAIN srv.orders[o]
                                /\ (srv.orders[o].held = "left" => srv'.orders[o].held = "left")
  BY <1>1 DEF Storage!Hand, PurchaseInv, PurchaseFields, OrderFields
<1>3. DOMAIN srv' = DOMAIN srv /\ srv'.room = srv.room /\ srv'.taken = srv.taken /\ srv'.faults = srv.faults
      /\ DOMAIN srv'.orders = Storage!Orders
  BY <1>1 DEF PurchaseInv, PurchaseFields, Storage!Hand
<1> QED BY <1>2, <1>3 DEF Evolves, PurchaseInv, PurchaseFields

(* ... the server answers a capture.                                       *)
LEMMA AnswerSteps ==
  ASSUME PurchaseInv, NEW o \in Storage!Orders, NEW kind, NEW here \in BOOLEAN, Storage!Answer(o, kind, here),
         srv.orders[o].st \notin {"none", "served"}
  PROVE  /\ Evolves /\ Offers /\ Shows /\ Others(o)
         /\ srv'.orders[o].way = srv.orders[o].way /\ srv'.orders[o].held = srv.orders[o].held
         /\ (~here => ui' = ui)
         /\ here => /\ ui'.client = ui.client
                    /\ \/ ui'.phase = ui.phase /\ ui'.error = TRUE /\ ui'.order = ui.order
                       \/ ui'.phase \in {"purchased", "requested", "complete"}
<1>1. PICK s \in Storage!Capture(o, kind) \cup Storage!Faulty :
    /\ srv' = [srv EXCEPT !.orders[o].st = s,
                 !.room[Home] = IF s = "served" /\ kind = "purchase" THEN @ - srv.orders[o].size ELSE @,
                 !.faults = IF s \in Storage!Capture(o, kind) THEN @ ELSE Storage!Hit,
                 !.orders[o].told = IF srv.orders[o].way = "apple" /\ ui.client = "page"
                                    THEN "success" ELSE @]
    /\ ui' = IF here THEN [ui EXCEPT !.busy = FALSE, !.order = IF s = "served" THEN o ELSE @,
                             !.error = s # "served", !.phase = Storage!Shown(s, kind, @)]
             ELSE ui
  BY DEF Storage!Answer
<1>2. /\ s \in {"refused", "served", "paid", "approved"}
      /\ (s = "served" => kind = srv.orders[o].kind)
      /\ (s = "paid" => \/ s \notin Storage!Capture(o, kind)
                        \/ srv.orders[o].kind = "purchase" /\ srv.room[Home] < srv.orders[o].size)
  <2>1. s \in Storage!Faulty => s \in {"approved", "paid"}
    BY DEF Storage!Faulty
  <2>2. s \in Storage!Capture(o, kind) =>
          /\ s \in {"refused", "served", "paid"}
          /\ (s = "served" => kind = srv.orders[o].kind)
          /\ (s = "paid" => srv.orders[o].kind = "purchase" /\ srv.room[Home] < srv.orders[o].size)
    BY DEF Storage!Capture
  <2>3. CASE s \in Storage!Capture(o, kind)
    <3>1. s \in {"refused", "served", "paid"}
      BY <2>2, <2>3
    <3>2. s = "served" => kind = srv.orders[o].kind
      BY <2>2, <2>3
    <3>3. s = "paid" => srv.orders[o].kind = "purchase" /\ srv.room[Home] < srv.orders[o].size
      BY <2>2, <2>3
    <3> QED BY <3>1, <3>2, <3>3
  <2>4. CASE s \in Storage!Faulty /\ s \notin Storage!Capture(o, kind)
    <3>1. s \in {"approved", "paid"}
      BY <2>1, <2>4
    <3>2. s # "served"
      BY <3>1
    <3>3. s \in {"refused", "served", "paid", "approved"}
      BY <3>1
    <3> QED BY <2>4, <3>2, <3>3, Zenon
  <2>5. s \in Storage!Capture(o, kind) \/ s \in Storage!Faulty
    OBVIOUS
  <2> QED BY <2>3, <2>4, <2>5
<1>3. /\ srv'.orders[o].st = s /\ srv'.orders[o].kind = srv.orders[o].kind
      /\ srv'.orders[o].size = srv.orders[o].size /\ srv'.orders[o].row = srv.orders[o].row
      /\ srv'.orders[o].way = srv.orders[o].way /\ srv'.orders[o].held = srv.orders[o].held
      /\ DOMAIN srv'.orders = Storage!Orders /\ DOMAIN srv'.orders[o] = DOMAIN srv.orders[o]
  BY <1>1 DEF PurchaseInv, PurchaseFields, OrderFields
<1>4. Others(o)
  BY <1>1 DEF PurchaseInv, PurchaseFields, Others
<1>5. /\ DOMAIN srv' = DOMAIN srv /\ srv'.taken = srv.taken
      /\ srv'.faults = IF s \in Storage!Capture(o, kind) THEN srv.faults ELSE srv.faults + 1
  BY <1>1 DEF PurchaseInv, PurchaseFields, Storage!Hit
<1>6. srv'.room \in [Rows -> Int] /\ (s # "served" => srv'.room = srv.room)
  <2> DEFINE r == IF s = "served" /\ kind = "purchase" THEN srv.room[Home] - srv.orders[o].size
                                                     ELSE srv.room[Home]
  <2>1. srv'.room = [srv.room EXCEPT ![Home] = r]
    BY <1>1 DEF PurchaseInv, PurchaseFields
  <2>2. r \in Int /\ (s # "served" => r = srv.room[Home])
    BY ClientPagesAssumption DEF PurchaseInv, PurchaseFields
  <2> HIDE DEF r
  <2> QED BY <2>1, <2>2, ZenonT(60) DEF PurchaseInv, PurchaseFields
<1>7. Evolves
  <2>1. srv'.faults \in Nat /\ srv'.faults >= srv.faults /\ (s \notin Storage!Capture(o, kind) =>
            srv'.faults > 0)
    BY <1>5 DEF PurchaseInv, PurchaseFields
  <2> QED BY <2>1, <1>2, <1>3, <1>4, <1>5, <1>6, SMTT(30) DEF Evolves, PurchaseInv, PurchaseFields, Others
<1>8. CASE ~here
  <2>1. ui' = ui
    BY <1>1, <1>8
  <2> QED BY <2>1, <1>3, <1>4, <1>7, <1>8 DEF Offers, Shows, PurchaseInv, PurchaseFields, UiFields
<1>9. CASE here
  <2>1. /\ DOMAIN ui' = DOMAIN ui /\ ui'.plan = ui.plan /\ ui'.repriced = ui.repriced
        /\ ui'.listed = ui.listed /\ ui'.client = ui.client
    BY <1>1, <1>9 DEF PurchaseInv, PurchaseFields
  <2>2. /\ ui'.phase = Storage!Shown(s, kind, ui.phase)
        /\ ui'.order = IF s = "served" THEN o ELSE ui.order
        /\ ui'.error = (s # "served")
    BY <1>1, <1>9 DEF PurchaseInv, PurchaseFields
  <2>3. Offers
    BY <2>1 DEF Offers, PurchaseInv, PurchaseFields, UiFields
  <2>4. CASE s = "served"
    BY <2>2, <2>3, <2>4, <2>1, <1>2, <1>3, <1>4, <1>7, <1>9 DEF Storage!Shown, Shows, PurchaseInv,
       PurchaseFields
  <2>5. CASE s # "served"
    BY <2>2, <2>3, <2>5, <2>1, <1>3, <1>4, <1>7, <1>9 DEF Storage!Shown, Shows
  <2> QED BY <2>4, <2>5
<1> QED BY <1>8, <1>9

(* The invariant holds at first, ...                                       *)
LEMMA PurchaseInitially == Storage!Init => PurchaseInv
<1> SUFFICES ASSUME Storage!Init PROVE PurchaseInv
  OBVIOUS
<1>1. /\ ui.phase = "closed" /\ ui.plan = 0 /\ ui.listed = [r \in Rows |-> 0] /\ UiFields \subseteq DOMAIN ui
  BY DEF Storage!Init, UiFields
<1>2. /\ {"room", "orders", "custom", "taken", "faults"} \subseteq DOMAIN srv
      /\ srv.orders = [o \in Storage!Orders |-> Storage!NoOrder] /\ srv.taken = FALSE /\ srv.faults = 0
      /\ \E q \in 0..MaxRoom : srv.room = [r \in Rows |-> IF r = Home THEN q ELSE 1]
  BY DEF Storage!Init
<1>3. OrderFields \subseteq DOMAIN Storage!NoOrder /\ Storage!NoOrder.st = "none" /\
          Storage!NoOrder.size = 0 /\ Storage!NoOrder.held = "left"
  BY DEF Storage!NoOrder, OrderFields
<1>4. PurchaseFields
  <2>1. srv.room \in [Rows -> Int]
    BY <1>2
  <2>2. \A o \in Storage!Orders : srv.orders[o] = Storage!NoOrder
    BY <1>2
  <2>3. ui.plan \in Int /\ ui.listed \in [Rows -> Int] /\ srv.faults \in Nat /\ srv.taken \in BOOLEAN
        /\ DOMAIN srv.orders = Storage!Orders
    <3>1. ui.plan \in Int /\ ui.listed \in [Rows -> Int]
      BY <1>1
    <3>2. srv.faults \in Nat /\ srv.taken \in BOOLEAN
      <4>1. srv.faults \in Nat
        BY <1>2
      <4>2. srv.taken \in BOOLEAN
        BY <1>2, Zenon
      <4> QED BY <4>1, <4>2
    <3>3. DOMAIN srv.orders = Storage!Orders
      BY <1>2
    <3> QED BY <3>1, <3>2, <3>3
  <2>4. \A o \in Storage!Orders : /\ OrderFields \subseteq DOMAIN srv.orders[o]
                                  /\ srv.orders[o].size \in Int
                                  /\ (srv.orders[o].st # "none" =>
                                         srv.orders[o].kind \in {"purchase", "deposit"})
                                  /\ (srv.orders[o].st = "none" => srv.orders[o].held = "left")
    BY <2>2, <1>3
  <2> QED BY <2>1, <2>3, <2>4, <1>1, <1>2 DEF PurchaseFields, UiFields
<1>5. OfferFits
  <2>1. srv.room[Home] \in Int /\ srv.room[Home] >= 0 /\ ui.listed[Home] = 0
    BY ClientPagesAssumption, <1>1, <1>2
  <2> QED BY <2>1, <1>2, <1>3 DEF OfferFits
<1> QED BY <1>1, <1>2, <1>3, <1>4, <1>5
        DEF PurchaseInv, Abroad, ShownServed, Storage!PaidIsServed, Storage!SuccessIsServed

(* Phases in which no payment is under way and no success is shown.        *)
Quiet == {"closed", "select", "card", "custom", "failed"}
LEMMA QuietSteps ==
  ASSUME PurchaseInv, Evolves, Offers, ui'.phase \in Quiet
  PROVE  PurchaseInv'
<1>1. Shows /\ Abroad'
  BY DEF Shows, Abroad, Quiet
<1> QED BY <1>1, Serving

LEMMA ClosedIs ==
  ASSUME PurchaseInv, ui' = Storage!Closed
  PROVE  Offers /\ ui'.phase = "closed"
  BY DEF Storage!Closed, Offers, PurchaseInv, PurchaseFields, UiFields

(* ... choosing keeps it, ...                                              *)
LEMMA ChooseSteps ==
  ASSUME PurchaseInv, Storage!Choose PROVE PurchaseInv'
<1>1. CASE Storage!SubmitCustom
  <2>1. Evolves
    BY <1>1 DEF Storage!SubmitCustom, Storage!Fault, Storage!Hit, Evolves, PurchaseInv, PurchaseFields
  <2>2. Offers /\ ui'.phase \in Quiet
    <3>1. ui' = [ui EXCEPT !.phase = "custom", !.plan = 0] \/ ui' = [ui EXCEPT !.error = TRUE]
      BY <1>1 DEF Storage!SubmitCustom
    <3>2. ui.phase = "select"
      BY <1>1 DEF Storage!SubmitCustom, Storage!Choosing
    <3>3. CASE ui' = [ui EXCEPT !.phase = "custom", !.plan = 0]
      BY <3>3 DEF Offers, Quiet, PurchaseInv, PurchaseFields, UiFields
    <3>4. CASE ui' = [ui EXCEPT !.error = TRUE]
      BY <3>2, <3>4 DEF Offers, Quiet, PurchaseInv, PurchaseFields, UiFields
    <3> QED BY <3>1, <3>3, <3>4
  <2> QED BY <2>1, <2>2, QuietSteps
<1>2. CASE Storage!OpenPage \/ Storage!OpenApp \/ Storage!Refetch
  <2>1. UNCHANGED srv
    BY <1>2 DEF Storage!OpenPage, Storage!OpenApp, Storage!Refetch
  <2>2. Offers /\ ui'.phase \in Quiet
    BY <1>2 DEF Storage!OpenPage, Storage!OpenApp, Storage!Refetch, Storage!Offer, Offers, Quiet,
       PurchaseInv, PurchaseFields, UiFields
  <2> QED BY <2>1, <2>2, QuietSteps, Unmoved
<1>3. CASE Storage!ChooseCard \/ Storage!LeaveCard \/ Storage!SelectCustom
  <2>1. UNCHANGED srv
    BY <1>3 DEF Storage!ChooseCard, Storage!LeaveCard, Storage!SelectCustom
  <2>2. Offers /\ ui'.phase \in Quiet
    <3>1. CASE Storage!ChooseCard
      BY <3>1 DEF Storage!ChooseCard, Offers, Quiet, PurchaseInv, PurchaseFields, UiFields
    <3>2. CASE Storage!LeaveCard
      BY <3>2 DEF Storage!LeaveCard, Offers, Quiet, PurchaseInv, PurchaseFields, UiFields
    <3>3. CASE Storage!SelectCustom
      BY <3>3 DEF Storage!SelectCustom, Storage!Choosing, Offers, Quiet, PurchaseInv,
         PurchaseFields, UiFields
    <3> QED BY <1>3, <3>1, <3>2, <3>3
  <2> QED BY <2>1, <2>2, QuietSteps, Unmoved
<1>4. ASSUME NEW r \in Rows, Storage!SelectRow(r) \/ Storage!SelectServerApp(r) PROVE PurchaseInv'
  <2>1. UNCHANGED srv
    BY <1>4 DEF Storage!SelectRow, Storage!SelectServerApp
  <2>2. Offers /\ ui'.phase \in Quiet
    BY <1>4 DEF Storage!SelectRow, Storage!SelectServerApp, Storage!Choosing, Offers, Quiet,
       PurchaseInv, PurchaseFields, UiFields
  <2> QED BY <2>1, <2>2, QuietSteps, Unmoved
<1>5. ASSUME NEW t \in Storage!Tiers, Storage!SelectTier(t) \/ Storage!SelectTierApp(t) PROVE PurchaseInv'
  <2>1. UNCHANGED srv
    BY <1>5 DEF Storage!SelectTier, Storage!SelectTierApp
  <2>2. Offers /\ ui'.phase \in Quiet
    BY <1>5 DEF Storage!SelectTier, Storage!SelectTierApp, Storage!Choosing, Offers, Quiet,
       PurchaseInv, PurchaseFields, UiFields
  <2> QED BY <2>1, <2>2, QuietSteps, Unmoved
<1>6. ASSUME NEW z \in Storage!Sizes, Storage!SelectPlan(z) \/ Storage!SelectPlanApp(z) PROVE PurchaseInv'
  <2>1. UNCHANGED srv
    BY <1>6 DEF Storage!SelectPlan, Storage!SelectPlanApp
  <2>2. Offers /\ ui'.phase \in Quiet
    BY <1>6 DEF Storage!SelectPlan, Storage!SelectPlanApp, Storage!Choosing, Storage!Sizes, Offers,
       Quiet, PurchaseInv, PurchaseFields, UiFields
  <2> QED BY <2>1, <2>2, QuietSteps, Unmoved
<1> QED BY <1>1, <1>2, <1>3, <1>4, <1>5, <1>6 DEF Storage!Choose

(* Steps that show what was shown before.                                  *)
LEMMA SamePage ==
  ASSUME PurchaseInv, UNCHANGED ui, Evolves, NEW o \in Storage!Orders, Others(o),
         (ui.phase \in {"away", "return"} => ui.order # o /\ srv'.orders[o].held = "left")
  PROVE  PurchaseInv'
<1>1. Offers /\ Shows
  BY DEF Offers, Shows, PurchaseInv, PurchaseFields, UiFields
<1>2. Abroad'
  BY DEF Abroad, PurchaseInv, Others
<1> QED BY <1>1, <1>2, Serving

(* ... the payments of the page keep it, ...                               *)
LEMMA PaySteps ==
  ASSUME PurchaseInv, Storage!Pay PROVE PurchaseInv'
<1>1. CASE Storage!PayApple \/ Storage!PayGoogle \/ Storage!PayCard \/ Storage!PayRedirect
  <2>1. UNCHANGED ui /\ ui.phase \in Quiet /\ Storage!Free # {} /\
            \E way \in {"apple", "google", "card", "paypal"} : Storage!Begin(way)
    BY <1>1 DEF Storage!PayApple, Storage!PayGoogle, Storage!PayCard, Storage!PayRedirect,
       Storage!CanPay, Quiet
  <2>2. Evolves
    BY <2>1, BeginSteps
  <2>3. Offers
    BY <2>1 DEF Offers, PurchaseInv, PurchaseFields, UiFields
  <2> QED BY <2>1, <2>2, <2>3, QuietSteps
<1>2. CASE Storage!Return
  <2> DEFINE o == ui.order
  <2>1. ui.phase = "away" /\ o \in Storage!Orders /\ srv.orders[o].st = "created" /\ ui.client = "page"
        /\ srv.orders[o].way = "paypal" /\ \A p \in Storage!Orders : srv.orders[p].held = "left"
    BY <1>2 DEF Storage!Return, PurchaseInv, Abroad
  <2>2. CASE Storage!St(o, "approved") /\ ui' = [ui EXCEPT !.phase = "return"]
    <3>1. Evolves /\ Others(o) /\ srv'.orders[o].st = "approved"
          /\ srv'.orders[o].way = srv.orders[o].way /\ srv'.orders[o].held = srv.orders[o].held
      BY <2>1, <2>2, StSteps
    <3>2. Offers /\ ui'.phase = "return" /\ ui'.order = ui.order /\ ui'.client = ui.client
      BY <2>2 DEF Offers, PurchaseInv, PurchaseFields, UiFields
    <3>3. Shows /\ Abroad'
      BY <2>1, <3>1, <3>2 DEF Shows, Abroad, Others
    <3> QED BY <3>1, <3>2, <3>3, Serving
  <2>3. CASE Storage!Void(o) /\ ui' = [ui EXCEPT !.phase = "failed"]
    <3>1. Evolves
      BY <2>1, <2>3, VoidSteps
    <3>2. Offers /\ ui'.phase \in Quiet
      BY <2>3 DEF Offers, Quiet, PurchaseInv, PurchaseFields, UiFields
    <3> QED BY <3>1, <3>2, QuietSteps
  <2> QED BY <1>2, <2>2, <2>3 DEF Storage!Return
<1>3. CASE Storage!ReturnCapture
  <2> DEFINE o == ui.order
  <2>1. ui.phase = "return" /\ ~ui.error /\ o \in Storage!Orders /\ srv.orders[o].st = "approved" /\
            ui.client = "page"
        /\ srv.orders[o].way = "paypal" /\ (\A p \in Storage!Orders : srv.orders[p].held = "left")
        /\ Storage!Answer(o, srv.orders[o].kind, TRUE)
    BY <1>3 DEF Storage!ReturnCapture, PurchaseInv, Abroad
  <2> HIDE DEF o
  <2>2. /\ Evolves /\ Offers /\ Shows /\ Others(o)
        /\ srv'.orders[o].way = srv.orders[o].way /\ srv'.orders[o].held = srv.orders[o].held
        /\ ui'.client = ui.client
        /\ \/ ui'.phase = ui.phase /\ ui'.error = TRUE /\ ui'.order = ui.order
           \/ ui'.phase \in {"purchased", "requested", "complete"}
    BY <2>1, AnswerSteps
  <2>3. Abroad'
    BY <2>1, <2>2 DEF Abroad, Others, o
  <2> QED BY <2>2, <2>3, Serving
<1>4. CASE Storage!ReturnFails
  <2>1. Evolves
    BY <1>4, Unmoved DEF Storage!ReturnFails
  <2>2. Offers /\ ui'.phase \in Quiet
    BY <1>4 DEF Storage!ReturnFails, Offers, Quiet, PurchaseInv, PurchaseFields, UiFields
  <2> QED BY <2>1, <2>2, QuietSteps
<1>5. ASSUME NEW o \in Storage!Orders, Storage!CreateOrder(o) \/ (Storage!GetApprovalUrl(o) /\
          ~Storage!Accepts(o)) PROVE PurchaseInv'
  <2>1. srv.orders[o].st = "sheet" /\ Storage!Runs(o) /\ ui.client = "page"
    BY <1>5 DEF Storage!CreateOrder, Storage!GetApprovalUrl, Storage!InPage
  <2>2. ui.phase \notin {"away", "return"}
    BY <2>1 DEF Storage!Runs, PurchaseInv, Abroad
  <2>3. Evolves
    BY <1>5, <2>1, StSteps, VoidSteps DEF Storage!CreateOrder, Storage!GetApprovalUrl
  <2>4. \/ ui' = Storage!Tell(o, [ui EXCEPT !.error = FALSE]) \/
               ui' = Storage!Tell(o, [ui EXCEPT !.error = TRUE])
    BY <1>5 DEF Storage!CreateOrder, Storage!GetApprovalUrl
  <2>5. Offers /\ ui'.phase = ui.phase /\ ui'.order = ui.order
    BY <2>4 DEF Storage!Tell, Offers, PurchaseInv, PurchaseFields, UiFields
  <2>6. Shows /\ Abroad'
    BY <2>2, <2>5 DEF Shows, PurchaseInv, Abroad
  <2> QED BY <2>3, <2>5, <2>6, Serving
<1>6. ASSUME NEW o \in Storage!Orders, Storage!GetApprovalUrl(o), Storage!Accepts(o) PROVE PurchaseInv'
  <2>1. srv.orders[o].st = "sheet" /\ Storage!Runs(o) /\ ui.client = "page" /\
            srv.orders[o].way = "paypal" /\ Storage!Leave(o)
    BY <1>6 DEF Storage!GetApprovalUrl
  <2>2. /\ srv'.orders = [Storage!Hand("left") EXCEPT ![o].st = "created"]
        /\ DOMAIN srv' = DOMAIN srv /\ srv'.room = srv.room /\ srv'.taken = srv.taken /\
               srv'.faults = srv.faults
    BY <2>1 DEF Storage!Leave, PurchaseInv, PurchaseFields
  <2>3. DOMAIN srv'.orders = Storage!Orders /\ \A p \in Storage!Orders :
          /\ srv'.orders[p].st = (IF p = o THEN "created" ELSE srv.orders[p].st)
          /\ srv'.orders[p].kind = srv.orders[p].kind /\ srv'.orders[p].way = srv.orders[p].way
          /\ srv'.orders[p].size = srv.orders[p].size /\ srv'.orders[p].row = srv.orders[p].row
          /\ DOMAIN srv'.orders[p] = DOMAIN srv.orders[p] /\ srv'.orders[p].held = "left"
    BY <2>2 DEF Storage!Hand, PurchaseInv, PurchaseFields, OrderFields
  <2>4. Evolves
    BY <2>1, <2>2, <2>3 DEF Evolves, PurchaseInv, PurchaseFields
  <2>5. Offers /\ ui'.phase = "away" /\ ui'.order = o /\ ui'.client = ui.client
    <3>1. ui' = [Storage!Closed EXCEPT !.phase = "away", !.order = o]
      BY <2>1 DEF Storage!Leave
    <3>2. /\ DOMAIN Storage!Closed = DOMAIN ui /\ Storage!Closed.plan = 0
          /\ Storage!Closed.listed = [r \in Rows |-> 0]
          /\ Storage!Closed.repriced = ui.repriced /\ Storage!Closed.client = ui.client
      <4>1. DOMAIN Storage!Closed = DOMAIN ui
        BY DEF Storage!Closed
      <4>2. Storage!Closed.plan = 0 /\ Storage!Closed.listed = [r \in Rows |-> 0]
        BY DEF Storage!Closed, PurchaseInv, PurchaseFields
      <4>3. Storage!Closed.repriced = ui.repriced /\ Storage!Closed.client = ui.client
        BY DEF Storage!Closed, PurchaseInv, PurchaseFields
      <4> QED BY <4>1, <4>2, <4>3
    <3>3. /\ DOMAIN ui' = DOMAIN ui /\ ui'.plan = 0 /\ ui'.repriced = ui.repriced
          /\ ui'.listed = [r \in Rows |-> 0] /\ ui'.client = ui.client
          /\ ui'.phase = "away" /\ ui'.order = o
      BY <3>1, <3>2 DEF PurchaseInv, PurchaseFields
    <3> QED BY <3>3 DEF Offers, PurchaseInv, PurchaseFields, UiFields
  <2>6. Shows /\ Abroad'
    BY <2>1, <2>3, <2>5 DEF Shows, Abroad
  <2> QED BY <2>4, <2>5, <2>6, Serving
<1>7. ASSUME NEW o \in Storage!Orders, Storage!Confirm(o) PROVE PurchaseInv'
  <2>1. srv.orders[o].st = "created" /\ Storage!Runs(o) /\ Storage!St(o, "approved") /\ UNCHANGED ui
    BY <1>7 DEF Storage!Confirm
  <2>2. Evolves /\ Others(o)
    BY <2>1, StSteps
  <2> QED BY <2>1, <2>2, SamePage DEF Storage!Runs, PurchaseInv, Abroad
<1>8. ASSUME NEW o \in Storage!Orders, Storage!Cancel(o) PROVE PurchaseInv'
  <2>1. srv.orders[o].st # "served" /\ Storage!Runs(o) /\ Storage!Void(o) /\ UNCHANGED ui
    BY <1>8 DEF Storage!Cancel
  <2>2. Evolves /\ Others(o)
    BY <2>1, VoidSteps
  <2> QED BY <2>1, <2>2, SamePage DEF Storage!Runs, PurchaseInv, Abroad
<1>9. ASSUME NEW o \in Storage!Orders, Storage!Approve(o) PROVE PurchaseInv'
  <2>1. srv.orders[o].st = "approved" /\ Storage!Runs(o) /\ Storage!St(o, "capturing")
        /\ ui' = Storage!Tell(o, [ui EXCEPT !.busy = TRUE, !.error = FALSE])
    BY <1>9 DEF Storage!Approve
  <2>2. ui.phase \notin {"away", "return"}
    BY <2>1 DEF Storage!Runs, PurchaseInv, Abroad
  <2>3. Evolves
    BY <2>1, StSteps
  <2>5. Offers /\ ui'.phase = ui.phase /\ ui'.order = ui.order
    BY <2>1 DEF Storage!Tell, Offers, PurchaseInv, PurchaseFields, UiFields
  <2>6. Shows /\ Abroad'
    BY <2>2, <2>5 DEF Shows, PurchaseInv, Abroad
  <2> QED BY <2>3, <2>5, <2>6, Serving
<1>10. ASSUME NEW o \in Storage!Orders, Storage!ApproveAnswer(o) PROVE PurchaseInv'
  <2>1. srv.orders[o].st = "capturing" /\ srv.orders[o].way # "paypal"
        /\ \E kind : Storage!Answer(o, kind, Storage!InModal(o))
    BY <1>10 DEF Storage!ApproveAnswer, Storage!InPage
  <2>2. PICK kind : Storage!Answer(o, kind, Storage!InModal(o))
    BY <2>1
  <2>0. Storage!InModal(o) \in BOOLEAN
    BY DEF Storage!InModal
  <2>3. /\ Evolves /\ Offers /\ Shows /\ Others(o)
        /\ srv'.orders[o].way = srv.orders[o].way /\ srv'.orders[o].held = srv.orders[o].held
        /\ (~Storage!InModal(o) => ui' = ui)
        /\ Storage!InModal(o) => /\ ui'.client = ui.client
                                 /\ \/ ui'.phase = ui.phase /\ ui'.error = TRUE /\ ui'.order = ui.order
                                    \/ ui'.phase \in {"purchased", "requested", "complete"}
    BY <2>0, <2>1, <2>2, AnswerSteps
  <2>4. CASE Storage!InModal(o)
    <3>1. ui.phase \notin {"away", "return"}
      BY <2>4 DEF Storage!InModal, PurchaseInv, Abroad
    <3>2. Abroad'
      BY <2>3, <2>4, <3>1 DEF PurchaseInv, Abroad
    <3> QED BY <2>3, <3>2, Serving
  <2>5. CASE ~Storage!InModal(o)
    <3>1. ui.phase \in {"away", "return"} => ui.order # o /\ srv'.orders[o].held = "left"
      BY <2>1, <2>3 DEF PurchaseInv, Abroad
    <3>2. UNCHANGED ui /\ Evolves /\ Others(o)
      BY <2>3, <2>5
    <3>3. \/ ui.phase \notin {"away", "return"}
          \/ ui.order # o /\ srv'.orders[o].held = "left"
      BY <3>1
    <3> QED BY <3>2, <3>3, SamePage
  <2> QED BY <2>4, <2>5
<1> QED BY <1>1, <1>2, <1>3, <1>4, <1>5, <1>6, <1>7, <1>8, <1>9, <1>10 DEF Storage!Pay

(* Steps of the app, whose order is its own.                               *)
LEMMA AppPage ==
  ASSUME PurchaseInv, Evolves, Offers, ui'.phase \in {"processing", "verifying", "awaiting"}, ui'.order \in Storage!Orders
  PROVE  PurchaseInv'
<1>1. Shows /\ Abroad'
  BY DEF Shows, Abroad
<1> QED BY <1>1, Serving

LEMMA AppAnswer ==
  ASSUME PurchaseInv, NEW kind, Storage!Answer(ui.order, kind, TRUE), ui.order \in Storage!Orders,
         srv.orders[ui.order].st \notin {"none", "served"},
         ui.phase \in {"processing", "verifying", "awaiting"}
  PROVE  PurchaseInv'
<1>1. /\ Evolves /\ Offers /\ Shows
      /\ \/ ui'.phase = ui.phase /\ ui'.order = ui.order
         \/ ui'.phase \in {"purchased", "requested", "complete"}
  BY AnswerSteps
<1>2. Abroad'
  BY <1>1 DEF Abroad
<1> QED BY <1>1, <1>2, Serving

(* ... those of the app keep it, ...                                       *)
LEMMA PayAppSteps ==
  ASSUME PurchaseInv, Storage!PayApp PROVE PurchaseInv'
<1>1. ASSUME NEW way, Storage!StartApp(way) PROVE PurchaseInv'
  <2>1. Storage!Begin(way) /\ Storage!Free # {} /\
            ui' = [ui EXCEPT !.phase = "processing", !.order = Storage!NextOrder]
    BY <1>1 DEF Storage!StartApp, Storage!CanPayApp, Storage!CanPay
  <2>2. Evolves /\ Storage!NextOrder \in Storage!Orders
    BY <2>1, BeginSteps
  <2>3. Offers /\ ui'.phase = "processing" /\ ui'.order = Storage!NextOrder
    BY <2>1 DEF Offers, PurchaseInv, PurchaseFields, UiFields
  <2> QED BY <2>2, <2>3, AppPage
<1>2. CASE Storage!PayAppleApp \/ Storage!PayGoogleApp \/ Storage!PayPalApp
  BY <1>1, <1>2 DEF Storage!PayAppleApp, Storage!PayGoogleApp, Storage!PayPalApp
<1>3. CASE Storage!ChargeApple \/ Storage!ChargeGoogle
  BY <1>3, AppAnswer DEF Storage!ChargeApple, Storage!ChargeGoogle, Storage!AppOrder, Storage!Mine
<1>4. CASE Storage!GiveUpApp
  <2>1. Storage!Void(ui.order) /\ ui.order \in Storage!Orders /\ srv.orders[ui.order].st = "sheet"
        /\ ui' = [ui EXCEPT !.phase = "select", !.order = 0]
    BY <1>4 DEF Storage!GiveUpApp, Storage!Mine
  <2>2. Evolves
    BY <2>1, VoidSteps
  <2>3. Offers /\ ui'.phase \in Quiet
    BY <2>1 DEF Offers, Quiet, PurchaseInv, PurchaseFields, UiFields
  <2> QED BY <2>2, <2>3, QuietSteps
<1>5. CASE Storage!Failing
  <2>1. Evolves /\ ui.order \in Storage!Orders
    BY <1>5, Unmoved DEF Storage!Failing, PurchaseInv, Abroad
  <2>2. Offers /\ ui'.phase \in {"awaiting", "select"} /\ ui'.order = ui.order
    BY <1>5 DEF Storage!Failing, Offers, PurchaseInv, PurchaseFields, UiFields
  <2> QED BY <2>1, <2>2, AppPage, QuietSteps DEF Quiet
<1>6. CASE Storage!CardSheet
  <2>1. Storage!Begin("card") /\ Storage!Free # {} /\
            ui' = [ui EXCEPT !.phase = "verifying", !.order = Storage!NextOrder]
    BY <1>6 DEF Storage!CardSheet
  <2>2. Evolves /\ Storage!NextOrder \in Storage!Orders
    BY <2>1, BeginSteps
  <2>3. Offers /\ ui'.phase = "verifying" /\ ui'.order = Storage!NextOrder
    BY <2>1 DEF Offers, PurchaseInv, PurchaseFields, UiFields
  <2> QED BY <2>2, <2>3, AppPage
<1>7. CASE Storage!CardSuccess
  <2>1. ui.order \in Storage!Orders /\ srv.orders[ui.order].st = "sheet" /\ ui.phase = "verifying"
    BY <1>7 DEF Storage!CardSuccess, Storage!AppOrder, Storage!Mine
  <2>2. CASE ui.repriced
    <3> DEFINE o == ui.order
    <3>1. srv' = [srv EXCEPT !.orders[o].st = "paid"] /\ ui' = [ui EXCEPT !.error = TRUE]
      BY <1>7, <2>2 DEF Storage!CardSuccess, Storage!St, Storage!Mine
    <3>2. /\ srv'.orders[o].st = "paid" /\ srv'.orders[o].kind = srv.orders[o].kind
          /\ srv'.orders[o].size = srv.orders[o].size /\ srv'.orders[o].row = srv.orders[o].row
          /\ DOMAIN srv'.orders = Storage!Orders /\ DOMAIN srv'.orders[o] = DOMAIN srv.orders[o]
      BY <2>1, <3>1 DEF PurchaseInv, PurchaseFields, OrderFields
    <3>3. Others(o)
      BY <3>1 DEF PurchaseInv, PurchaseFields, Others
    <3>4. DOMAIN srv' = DOMAIN srv /\ srv'.room = srv.room /\ srv'.taken = srv.taken /\ srv'.faults = srv.faults
      BY <3>1 DEF PurchaseInv, PurchaseFields
    <3>5. Evolves
      BY <2>1, <2>2, <3>2, <3>3, <3>4 DEF Evolves, PurchaseInv, PurchaseFields, Others
    <3>6. Offers /\ ui'.phase = "verifying" /\ ui'.order = ui.order
      BY <2>1, <3>1 DEF Offers, PurchaseInv, PurchaseFields, UiFields
    <3> QED BY <2>1, <3>5, <3>6, AppPage
  <2>3. CASE ~ui.repriced
    BY <1>7, <2>1, <2>3, AppAnswer DEF Storage!CardSuccess, Storage!Mine
  <2> QED BY <2>2, <2>3
<1>8. CASE Storage!OpenPayPal
  <2>1. ui.order \in Storage!Orders /\ srv.orders[ui.order].st = "sheet" /\ Storage!St(ui.order, "created")
        /\ ui' = [ui EXCEPT !.phase = "awaiting"]
    BY <1>8 DEF Storage!OpenPayPal, Storage!AppOrder, Storage!Mine
  <2>2. Evolves
    BY <2>1, StSteps
  <2>3. Offers /\ ui'.phase = "awaiting" /\ ui'.order = ui.order
    BY <2>1 DEF Offers, PurchaseInv, PurchaseFields, UiFields
  <2> QED BY <2>1, <2>2, <2>3, AppPage
<1>9. CASE Storage!ApproveAtPayPal
  <2>1. PICK o \in Storage!Orders :
            ui.client = "app" /\ srv.orders[o].st = "created" /\ Storage!St(o, "approved")
    BY <1>9 DEF Storage!ApproveAtPayPal
  <2>2. Evolves /\ Others(o)
    BY <2>1, StSteps
  <2> QED BY <1>9, <2>1, <2>2, SamePage DEF Storage!ApproveAtPayPal, PurchaseInv, Abroad
<1>10. CASE Storage!VerifyPayPal
  <2>1. Evolves /\ ui.order \in Storage!Orders
    BY <1>10, Unmoved DEF Storage!VerifyPayPal, PurchaseInv, Abroad
  <2>2. Offers /\ ui'.phase = "verifying" /\ ui'.order = ui.order
    BY <1>10 DEF Storage!VerifyPayPal, Offers, PurchaseInv, PurchaseFields, UiFields
  <2> QED BY <2>1, <2>2, AppPage
<1>11. CASE Storage!VerifyAnswer
  <2>1. ui.order \in Storage!Orders /\ ui.phase = "verifying"
    BY <1>11 DEF Storage!VerifyAnswer, PurchaseInv, Abroad
  <2>2. CASE srv.orders[ui.order].st = "approved"
    BY <1>11, <2>1, <2>2, AppAnswer DEF Storage!VerifyAnswer, Storage!Mine
  <2>3. CASE srv.orders[ui.order].st # "approved"
    <3>1. Evolves /\ ui' = [ui EXCEPT !.error = TRUE]
      BY <1>11, <2>3, Unmoved DEF Storage!VerifyAnswer, Storage!Mine
    <3>2. Offers /\ ui'.phase = "verifying" /\ ui'.order = ui.order
      BY <2>1, <3>1 DEF Offers, PurchaseInv, PurchaseFields, UiFields
    <3> QED BY <2>1, <3>1, <3>2, AppPage
  <2> QED BY <2>2, <2>3
<1>12. CASE Storage!CloseApp
  <2>1. ui' = Storage!Closed /\ srv' = [srv EXCEPT !.orders = Storage!Hand("page")]
    BY <1>12 DEF Storage!CloseApp, Storage!Close
  <2> QED BY <2>1, HandSteps, ClosedIs, QuietSteps DEF Quiet
<1> QED BY <1>2, <1>3, <1>4, <1>5, <1>6, <1>7, <1>8, <1>9, <1>10, <1>11, <1>12 DEF Storage!PayApp

(* ... and so does every step; it is what the page promises, and more.     *)
LEMMA PurchaseStep == PurchaseInv /\ [Storage!Next]_Storage!vars => PurchaseInv'
<1> SUFFICES ASSUME PurchaseInv, [Storage!Next]_Storage!vars PROVE PurchaseInv'
  OBVIOUS
<1>1. CASE Storage!Done \/ Storage!ClosePage
  <2>1. ui' = Storage!Closed /\ srv' = [srv EXCEPT !.orders = Storage!Hand("page")]
    BY <1>1 DEF Storage!Done, Storage!ClosePage, Storage!Close
  <2> QED BY <2>1, HandSteps, ClosedIs, QuietSteps DEF Quiet
<1>2. CASE Storage!OthersBuy
  <2>1. PICK r \in Rows : srv.room[r] > 0 /\ srv' = [srv EXCEPT !.room[r] = @ - 1, !.taken = TRUE]
    BY <1>2 DEF Storage!OthersBuy
  <2>2. srv'.orders = srv.orders /\ srv'.taken = TRUE /\ srv'.faults = srv.faults /\ DOMAIN srv' = DOMAIN srv
        /\ srv'.room = [srv.room EXCEPT ![r] = srv.room[r] - 1]
    BY <2>1 DEF PurchaseInv, PurchaseFields
  <2>3. srv'.room \in [Rows -> Int]
    BY <2>2 DEF PurchaseInv, PurchaseFields
  <2>4. Evolves
    <3>1. \A o \in Storage!Orders : srv'.orders[o] = srv.orders[o]
      BY <2>2
    <3>2. {"room", "orders", "custom", "taken", "faults"} \subseteq DOMAIN srv' /\
              DOMAIN srv'.orders = Storage!Orders
          /\ srv'.faults \in Nat /\ srv'.faults >= srv.faults
      BY <2>2 DEF PurchaseInv, PurchaseFields
    <3>3. srv'.taken /\ srv'.taken \in BOOLEAN
      BY <2>2, Zenon
    <3>4. \A o \in Storage!Orders :
       /\ srv.orders[o].st = "served" =>
            srv'.orders[o].st = "served" /\ srv'.orders[o].kind = srv.orders[o].kind
       /\ srv'.orders[o].st # "none" =>
            /\ srv.orders[o].st # "none" /\ srv'.orders[o].kind = srv.orders[o].kind
            /\ srv'.orders[o].size = srv.orders[o].size /\ srv'.orders[o].row = srv.orders[o].row
       /\ srv'.orders[o].st = "none" => srv'.orders[o].size \in Int /\ srv'.orders[o].held = "left"
       /\ srv'.orders[o].st = "paid" => srv.orders[o].st = "paid"
       /\ OrderFields \subseteq DOMAIN srv'.orders[o]
      BY <3>1 DEF PurchaseInv, PurchaseFields
    <3> QED BY <3>2, <3>3, <3>4, <2>3 DEF Evolves
  <2>5. Offers /\ Shows /\ Abroad'
    BY <1>2, <2>2 DEF Storage!OthersBuy, Offers, Shows, Abroad, PurchaseInv, PurchaseFields, UiFields
  <2> QED BY <2>4, <2>5, Serving
<1>3. CASE UNCHANGED Storage!vars
  BY <1>3 DEF Storage!vars, PurchaseInv, PurchaseFields, Abroad, ShownServed, OfferFits,
            Untouched, Storage!PaidIsServed, Storage!SuccessIsServed
<1> QED BY <1>1, <1>2, <1>3, ChooseSteps, PaySteps, PayAppSteps DEF Storage!Next

----------------------------------------------------------------------------
(* Requests for access: the form, its deposit and what becomes of it.     *)

(* The fields the argument speaks of are there.                            *)
AccessFields ==
  /\ DOMAIN ui = {"client", "step", "card", "plan", "checked", "order"} /\ ui.client \in {"page", "app"}
  /\ DOMAIN srv = {"orders", "posts", "subs", "earlier", "capped", "changed", "failed"}
  /\ DOMAIN srv.orders = Access!Orders
  /\ \A o \in Access!Orders : DOMAIN srv.orders[o] = {"st", "plan", "run", "kept"}
  /\ DOMAIN srv.posts = Access!Posts
  /\ \A r \in Access!Posts : DOMAIN srv.posts[r] = {"at", "order", "plan"}
  /\ {srv.earlier, srv.capped, srv.changed, srv.failed} \subseteq BOOLEAN

(* An order approved on PayPal's own page is untouched until the visitor   *)
(* is back, and meanwhile nothing else runs unless the form was left.      *)
Elsewhere == {"away", "awaiting", "resume"}
Waiting ==
  /\ ui.step \in Elsewhere =>
       /\ ui.order \in Access!Orders /\ srv.orders[ui.order].st \in {"away", "approved"}
       /\ srv.orders[ui.order].run = "none"
  /\ ui.step \in {"away", "resume"} =>
       \A o \in Access!Orders : srv.orders[o].st # "sheet" /\ (srv.changed \/ srv.orders[o].run = "none")

(* Whatever is still to be captured or sent is for the plan in the form,   *)
(* and a page's check stands, as long as the form was not changed.         *)
Live(o) == \/ srv.orders[o].st = "sheet" \/ srv.orders[o].run \in {"capturing", "captured"}
           \/ ui.step \in Elsewhere /\ ui.order = o
Fresh == ~srv.changed => \A o \in Access!Orders :
  /\ srv.orders[o].run # "alone"
  /\ Live(o) => /\ srv.orders[o].plan = ui.plan
                /\ ui.client = "page" /\ ui.step \notin {"away", "resume"} => ui.checked

(* A post is for a deposit that was captured; the plan was compared.       *)
Paid == {"captured", "used"}
SentRight(r) == srv.posts[r].at # "none" =>
  /\ srv.posts[r].order \in Access!Orders /\ (r # Access!Other => srv.posts[r].order = r)
  /\ srv.orders[srv.posts[r].order].st \in Paid
  /\ srv.posts[r].at \in {"fits", "consumed"} \/ r = Access!Other \/ ~srv.changed =>
       srv.posts[r].plan = srv.orders[srv.posts[r].order].plan
Sent ==
  /\ \A r \in Access!Posts : SentRight(r)
  /\ \A o \in Access!Orders :
       /\ srv.orders[o].run \in {"capturing", "captured", "alone"} => srv.posts[o].at = "none"
       /\ srv.orders[o].run \in {"captured", "submitting"} => srv.orders[o].st \in Paid

(* A deposit is used for one post, which has made no request yet.          *)
Taken ==
  /\ \A r \in Access!Posts : srv.posts[r].at = "consumed" =>
       /\ srv.orders[srv.posts[r].order].st = "used"
       /\ \A x \in srv.subs : x.order # srv.posts[r].order
       /\ \A t \in Access!Posts : srv.posts[t].at = "consumed" /\ srv.posts[t].order = srv.posts[r].order => t = r
  /\ \A x \in srv.subs : x.order \in Access!Orders

(* What the visitor's own posts are told, and where a used deposit went.   *)
OwnAnswer == \A o \in Access!Orders :
  /\ srv.posts[o].at = "ok" => srv.capped \/ Access!Has(srv, 1)
  /\ srv.posts[o].at = "refused" =>
       srv.changed \/ srv.failed \/ Access!TakenByOther(o) \/ Access!Has(srv, 1)
  /\ srv.orders[o].st = "used" =>
       srv.posts[o].at = "consumed" \/ Access!Has(srv, 1) \/ srv.failed \/ Access!TakenByOther(o)

FormPart == AccessFields /\ Waiting /\ Fresh
PostPart == Sent /\ Taken /\ OwnAnswer /\ Access!OneRequestPerDeposit /\ Access!DepositIsServed
AccessInv == FormPart /\ PostPart /\ Access!ReceivedIsRecorded

(* It holds at first, ...                                                  *)
LEMMA AccessInitially == Access!Init => AccessInv
<1> SUFFICES ASSUME Access!Init PROVE AccessInv
  OBVIOUS
<1>1. AccessFields /\ ui.step = "form" /\ srv.subs = {}
  BY DEF Access!Init, AccessFields, Access!NoOrder, Access!NoPost
<1>2. /\ \A o \in Access!Orders : srv.orders[o].st = "none" /\ srv.orders[o].run = "none"
      /\ \A r \in Access!Posts : srv.posts[r].at = "none"
  BY DEF Access!Init, Access!NoOrder, Access!NoPost
<1>3. Access!Orders \subseteq Access!Posts
  BY DEF Access!Posts
<1>4. FormPart /\ Access!ReceivedIsRecorded
  BY <1>1, <1>2 DEF FormPart, Waiting, Elsewhere, Fresh, Live, Access!ReceivedIsRecorded
<1>5. PostPart
  BY <1>1, <1>2, <1>3 DEF PostPart, Sent, SentRight, Taken, OwnAnswer, Access!OneRequestPerDeposit, Access!DepositIsServed
<1>. QED
  BY <1>4, <1>5 DEF AccessInv

SamePosts == /\ srv'.posts = srv.posts /\ srv'.subs = srv.subs /\ srv'.earlier = srv.earlier
             /\ srv'.capped = srv.capped

(* ... what is posted and recorded is untouched by a step that leaves      *)
(* paid deposits alone and makes only what is followed up, ...             *)
LEMMA OrderSteps ==
  ASSUME AccessInv, AccessFields', SamePosts, srv.changed => srv'.changed, srv.failed => srv'.failed,
         \A o \in Access!Orders :
           /\ srv.orders[o].st \in {"charged", "captured", "used"} =>
                srv'.orders[o].st = srv.orders[o].st /\ srv'.orders[o].plan = srv.orders[o].plan
           /\ srv.orders[o].st # "used" => srv'.orders[o].st # "used"
           /\ srv'.orders[o].st \in {"charged", "captured", "used"} =>
                \/ srv'.orders[o].run # "none" \/ srv'.changed \/ srv'.failed
                \/ srv.orders[o].st \in {"charged", "captured", "used"} /\ srv.orders[o].run = "none"
           /\ srv'.orders[o].run \in {"capturing", "captured", "alone"} => srv.posts[o].at = "none"
           /\ srv'.orders[o].run \in {"captured", "submitting"} => srv'.orders[o].st \in Paid
  PROVE  PostPart'
<1>. USE DEF Paid
<1>1. \A o : Access!TakenByOther(o)' <=> Access!TakenByOther(o)
  BY DEF Access!TakenByOther, SamePosts
<1>2. Access!Has(srv', 1) <=> Access!Has(srv, 1)
  BY DEF Access!Has, SamePosts
<1>3. \A r \in Access!Posts : SentRight(r)'
  BY DEF AccessInv, PostPart, Sent, SentRight, SamePosts
<1>4. Sent'
  BY <1>3 DEF Sent, SamePosts
<1>5. Taken'
  BY DEF AccessInv, PostPart, Sent, SentRight, Taken, SamePosts
<1>6. OwnAnswer'
  BY <1>1, <1>2 DEF AccessInv, PostPart, OwnAnswer, SamePosts
<1>7. Access!OneRequestPerDeposit'
  BY DEF AccessInv, PostPart, Taken, Access!OneRequestPerDeposit, SamePosts
<1>8. Access!DepositIsServed'
  BY <1>1, <1>2 DEF AccessInv, PostPart, Access!DepositIsServed, SamePosts
<1>. QED
  BY <1>4, <1>5, <1>6, <1>7, <1>8 DEF PostPart

(* ... the parts are there to expand, ...                                  *)
LEMMA AccessParts ==
  ASSUME AccessInv PROVE AccessFields /\ Waiting /\ Fresh /\ Sent /\ Taken /\ OwnAnswer
BY DEF AccessInv, FormPart, PostPart

(* ... an unpaid order has no post, ...                                    *)
LEMMA NotPosted ==
  ASSUME AccessInv, NEW o \in Access!Orders, srv.orders[o].st \notin Paid
  PROVE  srv.posts[o].at = "none" /\ srv.orders[o].run \notin {"captured", "submitting"}
<1>1. o \in Access!Posts /\ o # Access!Other
  BY DEF Access!Posts, Access!Orders, Access!Other
<1>. QED
  BY <1>1, AccessParts DEF Sent, SentRight, Paid

(* ... a step of the form alone keeps everything as long as what is still   *)
(* to be captured fits what the form shows, ...                            *)
LEMMA FormShown ==
  ASSUME AccessInv, SamePosts, srv'.orders = srv.orders, srv'.failed = srv.failed, DOMAIN srv' = DOMAIN srv,
         srv'.changed \in BOOLEAN, srv.changed => srv'.changed, DOMAIN ui' = DOMAIN ui, ui'.client = ui.client
  PROVE  AccessFields' /\ PostPart'
<1>1. AccessFields'
  BY AccessParts DEF AccessFields, SamePosts
<1>2. PostPart'
  BY <1>1, AccessParts, OrderSteps DEF AccessInv, PostPart, Sent, Access!DepositIsServed, Paid, SamePosts
<1>. QED
  BY <1>1, <1>2

(* ... what was told stays true, ...                                       *)
LEMMA StillRecorded ==
  ASSUME AccessInv, SamePosts, ui'.step = "submitted" => ui.step = "submitted"
  PROVE  Access!ReceivedIsRecorded'
BY DEF AccessInv, Access!ReceivedIsRecorded, Access!Has, SamePosts

(* ... so that the visitor may fill it in at any time, ...                 *)
LEMMA FillIn ==
  ASSUME AccessInv, Access!Form
  PROVE  AccessInv'
<1>0. AccessFields /\ Waiting /\ Fresh
  BY AccessParts
<1>1. CASE Access!SelectPlan \/ Access!SelectPlanInApp
  <2>1. PICK pl \in Plans : /\ (Access!OnPage /\ ~ui.card) \/ (Access!InApp /\ ui.step \in {"form", "awaiting"})
                          /\ ui' = [ui EXCEPT !.plan = pl] /\ srv' = IF pl = ui.plan THEN srv ELSE Access!Changed
    BY <1>1 DEF Access!SelectPlan, Access!SelectPlanInApp, Access!Picks
  <2>2. /\ DOMAIN ui' = DOMAIN ui /\ ui'.client = ui.client /\ ui'.step = ui.step /\ ui'.order = ui.order
        /\ ui'.checked = ui.checked /\ ui'.plan = pl
    BY <1>0, <2>1 DEF AccessFields
  <2>3. /\ SamePosts /\ srv'.orders = srv.orders /\ srv'.failed = srv.failed /\ DOMAIN srv' = DOMAIN srv
        /\ srv'.changed \in BOOLEAN /\ (srv.changed => srv'.changed)
        /\ ~srv'.changed => pl = ui.plan \/ ~Access!Paying(srv)
    BY <1>0, <2>1 DEF Access!Changed, AccessFields, SamePosts
  <2>4. ASSUME ~Access!Paying(srv), NEW o \in Access!Orders PROVE ~Live(o)
    BY <1>0, <2>4 DEF Access!Paying, Live, Waiting
  <2>5. Fresh'
    BY <1>0, <2>2, <2>3, <2>4 DEF Fresh, Live, Elsewhere
  <2>6. Waiting'
    BY <1>0, <2>2, <2>3 DEF Waiting, Elsewhere
  <2>. QED
    BY <2>2, <2>3, <2>5, <2>6, FormShown, StillRecorded DEF AccessInv, FormPart
<1>2. CASE Access!SolveCheck \/ Access!ChooseCard \/ Access!LeaveCard
  <2>1. /\ DOMAIN ui' = DOMAIN ui /\ ui'.client = ui.client /\ ui'.step = ui.step /\ ui'.order = ui.order
        /\ ui.checked => ui'.checked
        /\ ui'.plan = ui.plan /\ srv' = srv
    BY <1>0, <1>2 DEF Access!SolveCheck, Access!ChooseCard, Access!LeaveCard, AccessFields
  <2>2. Fresh' /\ Waiting'
    BY <1>0, <2>1 DEF Fresh, Live, Elsewhere, Waiting
  <2>3. SamePosts
    BY <2>1 DEF SamePosts
  <2>. QED
    BY <1>0, <2>1, <2>2, <2>3, FormShown, StillRecorded DEF AccessInv, FormPart, AccessFields
<1>3. CASE Access!CheckLapses
  <2>1. /\ DOMAIN ui' = DOMAIN ui /\ ui'.client = ui.client /\ ui'.step = ui.step /\ ui'.order = ui.order
        /\ ui'.plan = ui.plan /\ ui.step \in {"form", "pending", "resume"}
    BY <1>0, <1>3 DEF Access!CheckLapses, Access!CheckShown, AccessFields
  <2>2. /\ SamePosts /\ srv'.orders = srv.orders /\ srv'.failed = srv.failed /\ DOMAIN srv' = DOMAIN srv
        /\ srv'.changed \in BOOLEAN /\ (srv.changed => srv'.changed)
        /\ ~srv'.changed => ui.step = "resume" \/ ~Access!Paying(srv)
    BY <1>0, <1>3 DEF Access!CheckLapses, Access!Changed, AccessFields, SamePosts
  <2>3. ASSUME ~Access!Paying(srv), NEW o \in Access!Orders PROVE ~Live(o)
    BY <1>0, <2>3 DEF Access!Paying, Live, Waiting
  <2>4. Fresh' /\ Waiting'
    BY <1>0, <2>1, <2>2, <2>3 DEF Fresh, Live, Elsewhere, Waiting
  <2>. QED
    BY <2>1, <2>2, <2>4, FormShown, StillRecorded DEF AccessInv, FormPart
<1>. QED
  BY <1>1, <1>2, <1>3 DEF Access!Form

(* A step that touches one order, and none of the posts, ...               *)
OnlyOrder(o) ==
  /\ SamePosts /\ DOMAIN srv' = DOMAIN srv /\ srv'.failed = srv.failed /\ srv'.changed = srv.changed
  /\ DOMAIN srv'.orders = DOMAIN srv.orders /\ DOMAIN srv'.orders[o] = DOMAIN srv.orders[o]
  /\ \A x \in Access!Orders \ {o} : srv'.orders[x] = srv.orders[x]
SameClient == DOMAIN ui' = DOMAIN ui /\ ui'.client = ui.client

(* ... that is not paid keeps what is posted and recorded, ...             *)
LEMMA OneOrder ==
  ASSUME AccessInv, SameClient, NEW o \in Access!Orders, OnlyOrder(o),
         srv.orders[o].st \in {"none", "sheet", "away", "approved"},
         srv'.orders[o].st \in {"sheet", "away", "approved", "void"},
         srv'.orders[o].run \in {"none", "capturing", srv.orders[o].run}
  PROVE  AccessFields' /\ PostPart'
<1>1. AccessFields'
  BY AccessParts DEF AccessFields, SamePosts, OnlyOrder, SameClient
<1>2. srv.posts[o].at = "none" /\ srv.orders[o].run \notin {"captured", "submitting"}
  BY NotPosted DEF Paid
<1>3. \A x \in Access!Orders :
        /\ srv'.orders[x].run \in {"capturing", "captured", "alone"} => srv.posts[x].at = "none"
        /\ srv'.orders[x].run \in {"captured", "submitting"} => srv'.orders[x].st \in Paid
  BY <1>2, AccessParts DEF Sent, OnlyOrder
<1>. QED
  BY <1>1, <1>3, OrderSteps DEF OnlyOrder

(* ... such as to make an order from the form, ...                         *)
LEMMA MadeSteps ==
  ASSUME AccessInv, NEW o \in Access!Orders, srv.orders[o].st = "none", NEW way \in {"sheet", "away"},
         srv' = [srv EXCEPT !.orders[o] = [Access!NoOrder EXCEPT !.st = way, !.plan = ui.plan]]
  PROVE  /\ OnlyOrder(o) /\ srv'.orders[o].st = way /\ srv'.orders[o].run = "none"
         /\ srv'.orders[o].plan = ui.plan /\ (SameClient => AccessFields' /\ PostPart')
<1>1. /\ OnlyOrder(o) /\ srv'.orders[o].st = way /\ srv'.orders[o].run = "none"
      /\ srv'.orders[o].plan = ui.plan
  BY AccessParts DEF AccessFields, OnlyOrder, SamePosts, Access!NoOrder
<1>. QED
  BY <1>1, OneOrder

(* ... in either client, ...                                               *)
LEMMA MakeOrder ==
  ASSUME AccessInv, Access!HandleCreateOrder \/ Access!HandlePayPal \/ Access!HandleChooseCard
  PROVE  AccessInv'
<1>. USE DEF Elsewhere
<1>0. AccessFields /\ Waiting /\ Fresh
  BY AccessParts
<1>1. PICK o \in Access!Orders : o = Access!NextOrder /\ srv.orders[o].st = "none"
  BY DEF Access!HandleCreateOrder, Access!HandlePayPal, Access!HandleChooseCard, Access!PayOnPage,
         Access!PayInApp, Access!CanPay, Access!NextOrder, Access!Free
<1>2. ui.step = "form" /\ (ui.client = "page" => ui.checked)
  BY DEF Access!HandleCreateOrder, Access!HandlePayPal, Access!HandleChooseCard, Access!PayOnPage,
         Access!PayInApp, Access!CanPay, Access!Ready
<1>3. PICK way \in {"sheet", "away"} :
        /\ srv' = [srv EXCEPT !.orders[o] = [Access!NoOrder EXCEPT !.st = way, !.plan = ui.plan]]
        /\ \/ way = "sheet" /\ ui.client = "page" /\ ui' = ui
           \/ way = "away" /\ ui.client = "app" /\ ui' = [ui EXCEPT !.step = "awaiting", !.order = o]
           \/ way = "sheet" /\ ui.client = "app" /\ ui' = [ui EXCEPT !.step = "card", !.order = o]
  BY <1>1 DEF Access!HandleCreateOrder, Access!HandlePayPal, Access!HandleChooseCard, Access!Made,
              Access!PayOnPage, Access!PayInApp, Access!InApp
<1>4. /\ SameClient /\ ui'.plan = ui.plan /\ ui'.checked = ui.checked
      /\ \/ ui'.step \in {"form", "card"}
         \/ ui'.step = "awaiting" /\ ui'.order = o /\ way = "away" /\ ui.client = "app"
  BY <1>0, <1>2, <1>3 DEF AccessFields, SameClient
<1>5. /\ OnlyOrder(o) /\ srv'.orders[o].st = way /\ srv'.orders[o].run = "none"
      /\ srv'.orders[o].plan = ui.plan /\ AccessFields' /\ PostPart'
  BY <1>1, <1>3, <1>4, MadeSteps
<1>6. Waiting'
  BY <1>4, <1>5 DEF Waiting
<1>7. Fresh'
  BY <1>0, <1>2, <1>4, <1>5 DEF Fresh, Live, OnlyOrder, SameClient
<1>. QED
  BY <1>4, <1>5, <1>6, <1>7, StillRecorded DEF AccessInv, FormPart, OnlyOrder

(* ... to approve one at PayPal, ...                                       *)
LEMMA ApproveStep ==
  ASSUME AccessInv, Access!ApproveAway
  PROVE  AccessInv'
<1>. USE DEF Elsewhere
<1>0. AccessFields /\ Waiting /\ Fresh
  BY AccessParts
<1>1. PICK o \in Access!Orders : /\ srv.orders[o].st = "away" /\ UNCHANGED ui
                               /\ srv' = [srv EXCEPT !.orders[o].st = "approved"]
  BY DEF Access!ApproveAway
<1>2. /\ OnlyOrder(o) /\ srv'.orders[o].st = "approved" /\ srv'.orders[o].run = srv.orders[o].run
      /\ srv'.orders[o].plan = srv.orders[o].plan
  BY <1>0, <1>1 DEF AccessFields, OnlyOrder, SamePosts
<1>3. AccessFields' /\ PostPart'
  BY <1>1, <1>2, OneOrder DEF SameClient
<1>4. Waiting' /\ Fresh'
  BY <1>0, <1>1, <1>2 DEF Waiting, Fresh, Live, OnlyOrder
<1>. QED
  BY <1>1, <1>2, <1>3, <1>4, StillRecorded DEF AccessInv, FormPart, OnlyOrder

(* ... to have one captured, ...                                           *)
LEMMA StartStep ==
  ASSUME AccessInv, NEW o \in Access!Orders, NEW keep, Access!Starts(o, keep), Live(o),
         srv.orders[o].st \in {"sheet", "away", "approved"}, ui.step \in {"away", "resume"} => ui.checked
  PROVE  AccessInv'
<1>. USE DEF Elsewhere
<1>0. AccessFields /\ Waiting /\ Fresh
  BY AccessParts
<1>1. /\ SameClient /\ ui'.plan = ui.plan /\ ui'.checked = ui.checked /\ ui'.step = "pending"
  BY <1>0 DEF AccessFields, Access!Starts, SameClient
<1>2. /\ OnlyOrder(o) /\ srv'.orders[o].st \in {"away", "approved"} /\ srv'.orders[o].run = "capturing"
      /\ srv'.orders[o].plan = srv.orders[o].plan
  BY <1>0 DEF AccessFields, Access!Starts, OnlyOrder, SamePosts
<1>3. AccessFields' /\ PostPart'
  BY <1>1, <1>2, OneOrder
<1>4. Waiting'
  BY <1>1 DEF Waiting
<1>5. ASSUME NEW x \in Access!Orders, Live(x)' PROVE Live(x)
  BY <1>1, <1>2, <1>5 DEF Live, OnlyOrder
<1>6. Fresh'
  BY <1>0, <1>1, <1>2, <1>5 DEF Fresh, OnlyOrder, SameClient
<1>. QED
  BY <1>1, <1>2, <1>3, <1>4, <1>6, StillRecorded DEF AccessInv, FormPart, OnlyOrder

(* ... to cancel one that is not paid, where the form stays or has nothing *)
(* else under way, ...                                                     *)
LEMMA VoidStep ==
  ASSUME AccessInv, SameClient, NEW o \in Access!Orders, Access!Void(o),
         srv.orders[o].st \in {"sheet", "away", "approved"}, ui'.step \in {"form", ui.step},
         ui'.step \in Elsewhere => ui'.order = ui.order /\ o # ui.order /\ ui'.plan = ui.plan,
         \/ ui'.plan = ui.plan /\ ui'.checked = ui.checked /\ ui.step \notin {"away", "resume"}
         \/ ui.step = "away" /\ ui'.step = "form" /\ o = ui.order
  PROVE  AccessInv'
<1>. USE DEF Elsewhere
<1>0. AccessFields /\ Waiting /\ Fresh
  BY AccessParts
<1>1. /\ OnlyOrder(o) /\ srv'.orders[o].st = "void" /\ srv'.orders[o].run = srv.orders[o].run
      /\ srv'.orders[o].plan = srv.orders[o].plan
  BY <1>0 DEF Access!Void, OnlyOrder, SamePosts, AccessFields
<1>2. AccessFields' /\ PostPart'
  BY <1>1, OneOrder
<1>3. Waiting'
  BY <1>0, <1>1 DEF Waiting, OnlyOrder
<1>4. ASSUME NEW x \in Access!Orders, ~srv'.changed, Live(x)' PROVE Live(x) /\ ui.step # "away"
  BY <1>0, <1>1, <1>4 DEF Live, OnlyOrder, Waiting
<1>5. Fresh'
  BY <1>0, <1>1, <1>4 DEF Fresh, OnlyOrder, SameClient
<1>. QED
  BY <1>1, <1>2, <1>3, <1>5, StillRecorded DEF AccessInv, FormPart, OnlyOrder

(* ... in the sheet, in the app, or back from PayPal, ...                  *)
LEMMA CancelSteps ==
  ASSUME AccessInv, Access!CancelSheet \/ Access!CancelAwaiting \/ Access!ReturnCancelled
  PROVE  AccessInv'
<1>. USE DEF Elsewhere
<1>0. AccessFields /\ Waiting /\ Fresh
  BY AccessParts
<1>1. CASE Access!CancelSheet
  <2>1. PICK o \in Access!Orders : srv.orders[o].st = "sheet" /\ Access!Void(o)
    BY <1>1 DEF Access!CancelSheet
  <2>2. ui' = ui \/ ui' = [ui EXCEPT !.step = "form", !.order = 0]
    BY <1>1 DEF Access!CancelSheet
  <2>3. /\ SameClient /\ ui'.plan = ui.plan /\ ui'.checked = ui.checked
        /\ ui' = ui \/ ui'.step = "form"
    BY <1>0, <2>2 DEF AccessFields, SameClient
  <2>4. (ui.step \in Elsewhere => o # ui.order) /\ ui.step \notin {"away", "resume"}
    BY <1>0, <2>1 DEF Waiting
  <2>. QED
    BY <2>1, <2>3, <2>4, VoidStep
<1>2. CASE Access!CancelAwaiting
  <2>1. /\ SameClient /\ ui'.plan = ui.plan /\ ui'.checked = ui.checked /\ ui'.step = "form" /\ ui.step = "awaiting"
    BY <1>0, <1>2 DEF AccessFields, SameClient, Access!CancelAwaiting
  <2>. QED
    BY <1>0, <1>2, <2>1, VoidStep DEF Waiting, Access!CancelAwaiting
<1>3. CASE Access!ReturnCancelled
  <2>1. SameClient /\ ui'.step = "form" /\ ui.step = "away"
    BY <1>0, <1>3 DEF AccessFields, SameClient, Access!ReturnCancelled, Access!Blank
  <2>. QED
    BY <1>0, <1>3, <2>1, VoidStep DEF Waiting, Access!ReturnCancelled
<1>. QED
  BY <1>1, <1>2, <1>3

(* ... to come back from PayPal, ...                                       *)
LEMMA ReturnStep ==
  ASSUME AccessInv, Access!ReturnApproved
  PROVE  AccessInv'
<1>. USE DEF Elsewhere
<1>0. AccessFields /\ Waiting /\ Fresh /\ ui.step = "away" /\ ui.order \in Access!Orders
  BY AccessParts DEF Access!ReturnApproved, Waiting
<1>1. CASE UNCHANGED srv /\ ui' = [ui EXCEPT !.step = "resume", !.plan = srv.orders[ui.order].plan]
  <2>1. /\ SameClient /\ ui'.step = "resume" /\ ui'.order = ui.order /\ ui'.plan = srv.orders[ui.order].plan
        /\ srv' = srv /\ SamePosts
    BY <1>0, <1>1 DEF AccessFields, SameClient, SamePosts
  <2>2. AccessFields' /\ PostPart'
    BY <1>0, <2>1, FormShown DEF AccessFields, SameClient
  <2>3. Waiting' /\ Fresh'
    BY <1>0, <2>1 DEF Waiting, Fresh, Live, SameClient
  <2>. QED
    BY <2>1, <2>2, <2>3, StillRecorded DEF AccessInv, FormPart
<1>2. CASE Access!Void(ui.order) /\ ui' = Access!Blank
  <2>1. SameClient /\ ui'.step = "form"
    BY <1>0, <1>2 DEF AccessFields, SameClient, Access!Blank
  <2>. QED
    BY <1>0, <1>2, <2>1, VoidStep DEF Waiting
<1>. QED
  BY <1>1, <1>2 DEF Access!ReturnApproved

(* ... or to go on with one.                                               *)
LEMMA StartSteps ==
  ASSUME AccessInv, Access!HandleDepositApprove \/ Access!Resume \/ Access!HandleVerifyPayPal
  PROVE  AccessInv'
<1>0. Waiting
  BY AccessParts
<1>1. CASE Access!HandleDepositApprove
  <2>1. PICK o \in Access!Orders : srv.orders[o].st = "sheet" /\ Access!Starts(o, FALSE)
    BY <1>1 DEF Access!HandleDepositApprove
  <2>2. Live(o) /\ ui.step \notin {"away", "resume"}
    BY <1>0, <2>1 DEF Live, Waiting
  <2>. QED
    BY <2>1, <2>2, StartStep
<1>2. CASE Access!Resume \/ Access!HandleVerifyPayPal
  <2>1. PICK keep \in BOOLEAN : Access!Starts(ui.order, keep)
    BY <1>2 DEF Access!Resume, Access!HandleVerifyPayPal
  <2>2. /\ ui.order \in Access!Orders /\ srv.orders[ui.order].st \in {"away", "approved"} /\ Live(ui.order)
        /\ ui.step \in {"away", "resume"} => ui.checked
    BY <1>0, <1>2 DEF Live, Waiting, Elsewhere, Access!Resume, Access!HandleVerifyPayPal
  <2>. QED
    BY <2>1, <2>2, StartStep
<1>. QED
  BY <1>1, <1>2

(* A form that is left drops its sheets, and follows nothing up.           *)
LEMMA LeaveStep ==
  ASSUME AccessInv, Access!Leave
  PROVE  AccessInv'
<1>. USE DEF Elsewhere
<1>0. AccessFields /\ Waiting /\ Fresh /\ Sent
  BY AccessParts
<1>1. /\ SameClient /\ ui'.step = "gone"
  BY <1>0 DEF Access!Leave, AccessFields, SameClient
<1>2. /\ SamePosts /\ DOMAIN srv' = DOMAIN srv /\ srv'.failed = srv.failed /\ DOMAIN srv'.orders = Access!Orders
      /\ srv'.changed = (srv.changed \/ \E o \in Access!Orders : srv.orders[o].run # "none")
  BY <1>0 DEF Access!Leave, Access!Abandoned, AccessFields, SamePosts
<1>3. ASSUME NEW o \in Access!Orders
      PROVE  /\ DOMAIN srv'.orders[o] = {"st", "plan", "run", "kept"} /\ srv'.orders[o].plan = srv.orders[o].plan
             /\ srv'.orders[o].st = IF srv.orders[o].st = "sheet" THEN "void" ELSE srv.orders[o].st
             /\ srv'.orders[o].run = IF srv.orders[o].run \in {"capturing", "alone"} THEN "alone" ELSE "none"
  <2>1. srv' = Access!Abandoned(srv)
    BY DEF Access!Leave
  <2>2. DOMAIN srv.orders[o] = {"st", "plan", "run", "kept"} /\ "orders" \in DOMAIN srv
    BY <1>0 DEF AccessFields
  <2>3. srv'.orders[o] = [srv.orders[o] EXCEPT !.st = IF @ = "sheet" THEN "void" ELSE @,
                                               !.run = IF @ \in {"capturing", "alone"} THEN "alone" ELSE "none"]
    BY <2>1, <2>2 DEF Access!Abandoned
  <2>. QED
    BY <2>2, <2>3
<1>4. AccessFields'
  BY <1>0, <1>1, <1>2, <1>3 DEF AccessFields, SamePosts, SameClient
<1>5. PostPart'
  <2>1. ASSUME NEW o \in Access!Orders, srv.orders[o].st \in {"charged", "captured", "used"}
        PROVE  srv'.orders[o].run # "none" \/ srv'.changed \/ srv'.failed \/ srv.orders[o].run = "none"
    BY <1>2
  <2>. QED
    BY <1>0, <1>2, <1>3, <1>4, <2>1, OrderSteps DEF Sent
<1>6. Waiting' /\ Fresh'
  BY <1>0, <1>1, <1>2, <1>3 DEF Waiting, Fresh, Live
<1>. QED
  BY <1>1, <1>2, <1>4, <1>5, <1>6, StillRecorded DEF AccessInv, FormPart

(* Nor does one that gives way to PayPal's page, for an order of its own.  *)
LEMMA ApprovalUrlStep ==
  ASSUME AccessInv, Access!HandleGetApprovalUrl
  PROVE  AccessInv'
<1>. USE DEF Elsewhere
<1>0. AccessFields /\ Waiting /\ Fresh /\ Sent
  BY AccessParts
<1>1. PICK n \in Access!Orders : n = Access!NextOrder /\ srv.orders[n].st = "none"
  BY DEF Access!HandleGetApprovalUrl, Access!PayOnPage, Access!CanPay, Access!NextOrder, Access!Free
<1>2. /\ SameClient /\ ui'.step = "away" /\ ui'.order = n /\ ui'.plan = ui.plan
  BY <1>0, <1>1 DEF Access!HandleGetApprovalUrl, AccessFields, SameClient
<1>. DEFINE m == Access!Made("away")
<1>3. /\ m.posts = srv.posts /\ m.subs = srv.subs /\ m.earlier = srv.earlier /\ m.capped = srv.capped
      /\ DOMAIN m = DOMAIN srv /\ m.failed = srv.failed /\ m.changed = srv.changed
      /\ DOMAIN m.orders = Access!Orders /\ DOMAIN m.orders[n] = {"st", "plan", "run", "kept"}
      /\ m.orders[n].st = "away" /\ m.orders[n].run = "none" /\ m.orders[n].plan = ui.plan
      /\ \A o \in Access!Orders \ {n} : m.orders[o] = srv.orders[o]
  BY <1>0, <1>1 DEF Access!Made, AccessFields, Access!NoOrder
<1>4. srv' = Access!Abandoned(m)
  BY DEF Access!HandleGetApprovalUrl
<1>. HIDE DEF m
<1>5. /\ SamePosts /\ DOMAIN srv' = DOMAIN srv /\ srv'.failed = srv.failed /\ DOMAIN srv'.orders = Access!Orders
      /\ srv'.changed = (srv.changed \/ \E o \in Access!Orders : m.orders[o].run # "none")
  BY <1>0, <1>3, <1>4 DEF Access!Abandoned, AccessFields, SamePosts
<1>6. ASSUME NEW o \in Access!Orders
      PROVE  /\ DOMAIN srv'.orders[o] = {"st", "plan", "run", "kept"} /\ srv'.orders[o].plan = m.orders[o].plan
             /\ srv'.orders[o].st = IF m.orders[o].st = "sheet" THEN "void" ELSE m.orders[o].st
             /\ srv'.orders[o].run = IF m.orders[o].run \in {"capturing", "alone"} THEN "alone" ELSE "none"
  <2>1. DOMAIN m.orders[o] = {"st", "plan", "run", "kept"} /\ "orders" \in DOMAIN m
    BY <1>0, <1>3 DEF AccessFields
  <2>2. srv'.orders[o] = [m.orders[o] EXCEPT !.st = IF @ = "sheet" THEN "void" ELSE @,
                                             !.run = IF @ \in {"capturing", "alone"} THEN "alone" ELSE "none"]
    BY <1>4, <2>1 DEF Access!Abandoned
  <2>. QED
    BY <2>1, <2>2
<1>7. AccessFields'
  BY <1>0, <1>2, <1>5, <1>6 DEF AccessFields, SamePosts, SameClient
<1>8. PostPart'
  <2>1. ASSUME NEW o \in Access!Orders, srv.orders[o].st \in {"charged", "captured", "used"}
        PROVE  /\ srv'.orders[o].st = srv.orders[o].st /\ srv'.orders[o].plan = srv.orders[o].plan
               /\ srv'.orders[o].run # "none" \/ srv'.changed \/ srv'.failed \/ srv.orders[o].run = "none"
    <3>1. m.orders[o] = srv.orders[o]
      BY <1>1, <1>3, <2>1
    <3>2. srv'.orders[o].st = srv.orders[o].st /\ srv'.orders[o].plan = srv.orders[o].plan
      BY <1>6, <2>1, <3>1
    <3>3. srv.orders[o].run = "none" \/ srv'.changed
      BY <1>5, <3>1
    <3>. QED
      BY <3>2, <3>3
  <2>2. ASSUME NEW o \in Access!Orders
        PROVE  /\ srv'.orders[o].st \in {"charged", "captured", "used"} => srv'.orders[o].st = srv.orders[o].st
               /\ srv'.orders[o].run \in {"capturing", "captured", "alone"} =>
                    srv.orders[o].run \in {"capturing", "captured", "alone"}
               /\ srv'.orders[o].run \notin {"captured", "submitting"}
    BY <1>1, <1>3, <1>6
  <2>. QED
    BY <1>0, <1>5, <1>7, <2>1, <2>2, OrderSteps DEF Sent
<1>9. Waiting' /\ Fresh'
  <2>1. Waiting'
    BY <1>1, <1>2, <1>3, <1>5, <1>6 DEF Waiting
  <2>2. ASSUME ~srv'.changed, NEW o \in Access!Orders
        PROVE  /\ srv'.orders[o].run # "alone"
               /\ Live(o)' => o = n
    BY <1>1, <1>2, <1>3, <1>5, <1>6, <2>2 DEF Live
  <2>3. srv'.orders[n].plan = ui'.plan
    BY <1>2, <1>3, <1>6
  <2>. QED
    BY <1>2, <2>1, <2>2, <2>3 DEF Fresh
<1>. QED
  BY <1>2, <1>5, <1>7, <1>8, <1>9, StillRecorded DEF AccessInv, FormPart

(* The capture ends where its run tells the form, ...                      *)
LEMMA CaptureStep ==
  ASSUME AccessInv, Access!CaptureInterestDepositOrder
  PROVE  AccessInv'
<1>. USE DEF Elsewhere
<1>0. AccessFields /\ Waiting /\ Fresh /\ Sent
  BY AccessParts
<1>1. PICK o \in Access!Orders :
        /\ srv.orders[o].run \in {"capturing", "alone"}
        /\ \/ /\ srv.orders[o].st = "approved" /\ UNCHANGED ui
              /\ srv' = [srv EXCEPT !.orders[o].st = "captured",
                                     !.orders[o].run = IF @ = "alone" THEN "none" ELSE "captured"]
           \/ srv.orders[o].st = "away" /\ srv' = Access!RunEnds(o, "void") /\ ui' = Access!Told(o, Access!Back)
           \/ /\ srv.orders[o].st = "approved" /\ ui' = Access!Told(o, Access!Back)
              /\ \E st \in {"approved", "charged", "captured"} :
                    srv' = [Access!RunEnds(o, st) EXCEPT !.failed = TRUE]
  BY DEF Access!CaptureInterestDepositOrder
<1>2. /\ SameClient /\ ui'.plan = ui.plan /\ ui'.checked = ui.checked /\ ui'.order = ui.order
      /\ ui'.step = ui.step \/ ui'.step = "form"
  BY <1>0, <1>1 DEF Access!Told, Access!Back, AccessFields, SameClient
<1>3. PICK st \in {"void", "approved", "charged", "captured"} :
        /\ SamePosts /\ DOMAIN srv' = DOMAIN srv /\ srv'.changed = srv.changed /\ srv'.failed \in {srv.failed, TRUE}
        /\ DOMAIN srv'.orders = DOMAIN srv.orders /\ DOMAIN srv'.orders[o] = DOMAIN srv.orders[o]
        /\ \A x \in Access!Orders \ {o} : srv'.orders[x] = srv.orders[x]
        /\ srv'.orders[o].st = st /\ srv'.orders[o].plan = srv.orders[o].plan
        /\ \/ st = "captured" /\ srv'.orders[o].run = (IF srv.orders[o].run = "alone" THEN "none" ELSE "captured")
           \/ st = "void" /\ srv'.orders[o].run = "none"
           \/ srv'.orders[o].run = "none" /\ srv'.failed
  <2>1. CASE srv' = [srv EXCEPT !.orders[o].st = "captured",
                                !.orders[o].run = IF @ = "alone" THEN "none" ELSE "captured"]
    BY <1>0, <2>1 DEF AccessFields, SamePosts
  <2>2. CASE srv' = Access!RunEnds(o, "void")
    BY <1>0, <2>2 DEF Access!RunEnds, AccessFields, SamePosts
  <2>3. ASSUME NEW st \in {"approved", "charged", "captured"}, srv' = [Access!RunEnds(o, st) EXCEPT !.failed = TRUE]
        PROVE  /\ SamePosts /\ DOMAIN srv' = DOMAIN srv /\ srv'.changed = srv.changed
               /\ DOMAIN srv'.orders = DOMAIN srv.orders /\ DOMAIN srv'.orders[o] = DOMAIN srv.orders[o]
               /\ \A x \in Access!Orders \ {o} : srv'.orders[x] = srv.orders[x]
               /\ srv'.orders[o].st = st /\ srv'.orders[o].plan = srv.orders[o].plan
               /\ srv'.orders[o].run = "none" /\ srv'.failed = TRUE
    BY <1>0, <2>3 DEF Access!RunEnds, AccessFields, SamePosts
  <2>. QED
    BY <1>1, <2>1, <2>2, <2>3
<1>4. srv.orders[o].st \in {"away", "approved"} /\ srv.posts[o].at = "none"
  BY <1>0, <1>1 DEF Sent
<1>5. AccessFields'
  <2>1. srv'.failed \in BOOLEAN
    BY <1>0, <1>3 DEF AccessFields
  <2>. QED
    BY <1>0, <1>2, <1>3, <2>1 DEF AccessFields, SamePosts, SameClient
<1>6. PostPart'
  <2>1. srv.orders[o].run = "alone" => srv'.changed
    BY <1>0, <1>3 DEF Fresh, AccessFields
  <2>2. \A x \in Access!Orders \ {o} :
          /\ srv'.orders[x].run \in {"capturing", "captured", "alone"} => srv.posts[x].at = "none"
          /\ srv'.orders[x].run \in {"captured", "submitting"} => srv'.orders[x].st \in Paid
    BY <1>0, <1>3 DEF Sent
  <2>3. /\ srv'.orders[o].st \in {"charged", "captured", "used"} =>
                  srv'.orders[o].run # "none" \/ srv'.changed \/ srv'.failed
        /\ srv'.orders[o].run \in {"captured", "submitting"} => srv'.orders[o].st \in Paid
        /\ srv'.orders[o].st # "used" /\ (srv.failed => srv'.failed) /\ (srv.changed => srv'.changed)
    BY <1>3, <2>1 DEF Paid
  <2>. QED
    BY <1>3, <1>4, <1>5, <2>2, <2>3, OrderSteps
<1>7. Waiting' /\ Fresh'
  <2>1. ui.step \in Elsewhere => o # ui.order
    BY <1>0, <1>1 DEF Waiting
  <2>2. Waiting'
    BY <1>0, <1>1, <1>2, <1>3, <2>1 DEF Waiting
  <2>3. ASSUME NEW x \in Access!Orders, Live(x)' PROVE Live(x)
    BY <1>1, <1>2, <1>3, <2>3 DEF Live
  <2>4. ~srv.changed => ui.step \notin {"away", "resume"}
    BY <1>0, <1>1 DEF Waiting
  <2>. QED
    BY <1>0, <1>2, <1>3, <2>2, <2>3, <2>4 DEF Fresh, SameClient
<1>. QED
  BY <1>2, <1>5, <1>6, <1>7, <1>3, StillRecorded DEF AccessInv, FormPart

(* A step of one post leaves the form and the orders alone; ...            *)
OnlyPost(r, to) ==
  /\ ui' = ui /\ DOMAIN srv' = DOMAIN srv /\ srv'.subs = srv.subs /\ srv'.earlier = srv.earlier
  /\ srv'.orders = srv.orders /\ srv'.changed = srv.changed
  /\ DOMAIN srv'.posts = DOMAIN srv.posts /\ DOMAIN srv'.posts[r] = DOMAIN srv.posts[r]
  /\ \A x \in Access!Posts \ {r} : srv'.posts[x] = srv.posts[x]
  /\ srv'.posts[r].at = to /\ srv'.posts[r].order = srv.posts[r].order /\ srv'.posts[r].plan = srv.posts[r].plan
  /\ srv'.capped \in BOOLEAN /\ (srv.capped => srv'.capped)
  /\ srv'.failed \in BOOLEAN /\ (srv.failed => srv'.failed)

(* ... it keeps everything where its outcome has a reason, ...             *)
LEMMA PostStep ==
  ASSUME AccessInv, NEW r \in Access!Posts, NEW to \in {"new", "fits", "ok", "refused"}, OnlyPost(r, to),
         srv.posts[r].at # "none", srv.posts[r].at = "consumed" => srv'.failed,
         to = "fits" => srv.posts[r].plan = srv.orders[srv.posts[r].order].plan,
         r # Access!Other /\ to = "ok" => srv'.capped \/ Access!Has(srv, 1),
         r # Access!Other /\ to = "refused" =>
           srv.changed \/ srv'.failed \/ Access!TakenByOther(r) \/ Access!Has(srv, 1)
  PROVE  AccessInv'
<1>0. AccessFields /\ Waiting /\ Fresh /\ Sent /\ Taken /\ OwnAnswer
  BY AccessParts
<1>1. AccessFields'
  BY <1>0 DEF AccessFields, OnlyPost
<1>2. Waiting' /\ Fresh'
  BY <1>0 DEF Waiting, Elsewhere, Fresh, Live, OnlyPost
<1>3. Access!Has(srv', 1) <=> Access!Has(srv, 1)
  BY DEF Access!Has, OnlyPost
<1>4. Access!Other \in Access!Posts /\ Access!Orders \subseteq Access!Posts
  BY DEF Access!Posts
<1>5. ASSUME NEW o, Access!TakenByOther(o) PROVE Access!TakenByOther(o)' \/ srv'.failed
  BY <1>4, <1>5 DEF Access!TakenByOther, OnlyPost
<1>6. ASSUME NEW x \in Access!Posts PROVE SentRight(x)'
  <2>1. SentRight(x)
    BY <1>0 DEF Sent
  <2>. QED
    BY <2>1 DEF SentRight, OnlyPost
<1>7. Sent'
  BY <1>0, <1>4, <1>6 DEF Sent, OnlyPost
<1>8. Taken'
  BY <1>0 DEF Taken, OnlyPost
<1>9. OwnAnswer'
  <2>1. Access!Other \notin Access!Orders
    BY DEF Access!Other, Access!Orders
  <2>. QED
    BY <1>0, <1>3, <1>4, <1>5, <2>1 DEF OwnAnswer, OnlyPost
<1>10. Access!OneRequestPerDeposit'
  BY DEF AccessInv, PostPart, Access!OneRequestPerDeposit, OnlyPost
<1>11. Access!DepositIsServed'
  BY <1>3, <1>5 DEF AccessInv, PostPart, Access!DepositIsServed, OnlyPost
<1>12. Access!ReceivedIsRecorded'
  BY <1>3 DEF AccessInv, Access!ReceivedIsRecorded, OnlyPost
<1>. QED
  BY <1>1, <1>2, <1>7, <1>8, <1>9, <1>10, <1>11, <1>12 DEF AccessInv, FormPart, PostPart

(* ... as the checks before the deposit is used have, ...                  *)
LEMMA CheckSteps ==
  ASSUME AccessInv, Access!CheckCaps \/ Access!CheckDeposit \/ Access!PostFails
  PROVE  AccessInv'
<1>0. AccessFields /\ Sent
  BY AccessParts
<1>1. CASE Access!CheckCaps
  <2>1. PICK r \in Access!Posts :
          /\ srv.posts[r].at = "asked" /\ UNCHANGED ui
          /\ \/ srv' = [Access!At(srv, r, "ok") EXCEPT !.capped = TRUE]
             \/ srv' = Access!At(srv, r, IF Access!Has(srv, r) THEN "ok" ELSE "new")
    BY <1>1 DEF Access!CheckCaps
  <2>2. CASE srv' = [Access!At(srv, r, "ok") EXCEPT !.capped = TRUE]
    <3>1. OnlyPost(r, "ok") /\ srv'.capped
      BY <1>0, <2>1, <2>2 DEF Access!At, AccessFields, OnlyPost
    <3>. QED
      BY <2>1, <3>1, PostStep
  <2>3. CASE srv' = Access!At(srv, r, IF Access!Has(srv, r) THEN "ok" ELSE "new")
    <3>. DEFINE to == IF Access!Has(srv, r) THEN "ok" ELSE "new"
    <3>1. OnlyPost(r, to) /\ to \in {"ok", "new"}
      BY <1>0, <2>1, <2>3 DEF Access!At, AccessFields, OnlyPost
    <3>2. r # Access!Other /\ to = "ok" => Access!Has(srv, 1)
      BY DEF Access!Has, Access!Other
    <3>. QED
      BY <2>1, <3>1, <3>2, PostStep
  <2>. QED
    BY <2>1, <2>2, <2>3
<1>2. CASE Access!CheckDeposit
  <2>1. PICK r \in Access!Posts :
          /\ srv.posts[r].at = "new" /\ UNCHANGED ui
          /\ LET d == srv.orders[srv.posts[r].order] IN
             srv' = Access!At(srv, r, IF d.st \in {"captured", "used"} /\ d.plan = srv.posts[r].plan
                                      THEN "fits" ELSE "refused")
    BY <1>2 DEF Access!CheckDeposit
  <2>2. PICK to \in {"fits", "refused"} :
          /\ srv' = Access!At(srv, r, to)
          /\ to = "fits" => srv.orders[srv.posts[r].order].plan = srv.posts[r].plan
          /\ to = "refused" => \/ srv.orders[srv.posts[r].order].st \notin Paid
                              \/ srv.orders[srv.posts[r].order].plan # srv.posts[r].plan
    BY <2>1 DEF Paid
  <2>3. OnlyPost(r, to)
    BY <1>0, <2>1, <2>2 DEF Access!At, AccessFields, OnlyPost
  <2>4. to = "refused" /\ r # Access!Other => srv.changed
    BY <1>0, <2>1, <2>2 DEF Sent, SentRight
  <2>. QED
    BY <2>1, <2>2, <2>3, <2>4, PostStep
<1>3. CASE Access!PostFails
  <2>1. PICK r \in Access!Posts : /\ srv.posts[r].at \notin {"none", "ok", "refused"} /\ UNCHANGED ui
                                /\ srv' = [Access!At(srv, r, "refused") EXCEPT !.failed = TRUE]
    BY <1>3 DEF Access!PostFails
  <2>2. OnlyPost(r, "refused") /\ srv'.failed
    BY <1>0, <2>1 DEF Access!At, AccessFields, OnlyPost
  <2>. QED
    BY <2>1, <2>2, PostStep
<1>. QED
  BY <1>1, <1>2, <1>3

(* ... a deposit that is captured is used by the first post to ask, ...    *)
LEMMA ConsumeStep ==
  ASSUME AccessInv, Access!ConsumeInterestDepositOrder
  PROVE  AccessInv'
<1>0. AccessFields /\ Waiting /\ Fresh /\ Sent /\ Taken /\ OwnAnswer
  BY AccessParts
<1>1. PICK r \in Access!Posts :
        /\ srv.posts[r].at = "fits" /\ UNCHANGED ui
        /\ srv' = IF Access!Consumable(srv, srv.posts[r].order)
                  THEN [Access!At(srv, r, "consumed") EXCEPT !.orders[srv.posts[r].order].st = "used"]
                  ELSE Access!At(srv, r, "refused")
  BY DEF Access!ConsumeInterestDepositOrder
<1>2. PICK o \in Access!Orders :
        /\ o = srv.posts[r].order /\ srv.orders[o].st \in Paid /\ srv.posts[r].plan = srv.orders[o].plan
        /\ r # Access!Other => o = r
  BY <1>0, <1>1 DEF Sent, SentRight
<1>3. CASE ~Access!Consumable(srv, o)
  <2>1. OnlyPost(r, "refused")
    BY <1>0, <1>1, <1>2, <1>3 DEF Access!At, AccessFields, OnlyPost
  <2>2. srv.orders[o].st = "used"
    BY <1>2, <1>3 DEF Paid, Access!Consumable
  <2>3. r # Access!Other => srv.failed \/ Access!TakenByOther(r) \/ Access!Has(srv, 1)
    BY <1>0, <1>1, <1>2, <2>2 DEF OwnAnswer
  <2>. QED
    BY <1>1, <2>1, <2>3, PostStep DEF OnlyPost
<1>4. CASE Access!Consumable(srv, o)
  <2>1. /\ ui' = ui /\ DOMAIN srv' = DOMAIN srv /\ srv'.subs = srv.subs /\ srv'.earlier = srv.earlier
        /\ srv'.changed = srv.changed /\ srv'.capped = srv.capped /\ srv'.failed = srv.failed
        /\ DOMAIN srv'.posts = DOMAIN srv.posts /\ DOMAIN srv'.posts[r] = DOMAIN srv.posts[r]
        /\ \A x \in Access!Posts \ {r} : srv'.posts[x] = srv.posts[x]
        /\ srv'.posts[r].at = "consumed" /\ srv'.posts[r].order = o /\ srv'.posts[r].plan = srv.posts[r].plan
        /\ DOMAIN srv'.orders = DOMAIN srv.orders /\ DOMAIN srv'.orders[o] = DOMAIN srv.orders[o]
        /\ \A x \in Access!Orders \ {o} : srv'.orders[x] = srv.orders[x]
        /\ srv'.orders[o].st = "used" /\ srv'.orders[o].run = srv.orders[o].run
        /\ srv'.orders[o].plan = srv.orders[o].plan
    <3>1. srv' = [Access!At(srv, r, "consumed") EXCEPT !.orders[o].st = "used"]
      BY <1>1, <1>2, <1>4
    <3>. QED
      <4>. DEFINE m == Access!At(srv, r, "consumed")
      <4>1. /\ DOMAIN m = DOMAIN srv /\ m.subs = srv.subs /\ m.earlier = srv.earlier /\ m.orders = srv.orders
            /\ m.changed = srv.changed /\ m.capped = srv.capped /\ m.failed = srv.failed
            /\ m.posts = [srv.posts EXCEPT ![r].at = "consumed"]
        BY <1>0 DEF Access!At, AccessFields
      <4>. HIDE DEF m
      <4>2. /\ DOMAIN srv' = DOMAIN m /\ srv'.subs = m.subs /\ srv'.earlier = m.earlier /\ srv'.posts = m.posts
            /\ srv'.changed = m.changed /\ srv'.capped = m.capped /\ srv'.failed = m.failed
            /\ srv'.orders = [m.orders EXCEPT ![o].st = "used"]
        BY <1>0, <3>1, <4>1 DEF AccessFields, m
      <4>3. /\ DOMAIN srv'.posts = DOMAIN srv.posts /\ DOMAIN srv'.posts[r] = DOMAIN srv.posts[r]
            /\ \A x \in Access!Posts \ {r} : srv'.posts[x] = srv.posts[x]
            /\ srv'.posts[r].at = "consumed" /\ srv'.posts[r].order = o /\ srv'.posts[r].plan = srv.posts[r].plan
        BY <1>0, <1>2, <4>1, <4>2 DEF AccessFields
      <4>4. srv'.orders = [srv.orders EXCEPT ![o].st = "used"]
        BY <4>1, <4>2
      <4>5. DOMAIN srv.orders = Access!Orders /\ DOMAIN srv.orders[o] = {"st", "plan", "run", "kept"}
        BY <1>0, <1>2 DEF AccessFields
      <4>6. /\ DOMAIN srv'.orders = DOMAIN srv.orders /\ \A x \in Access!Orders \ {o} : srv'.orders[x] = srv.orders[x]
            /\ srv'.orders[o] = [srv.orders[o] EXCEPT !.st = "used"]
        BY <4>4, <4>5
      <4>7. /\ DOMAIN srv'.orders[o] = DOMAIN srv.orders[o] /\ srv'.orders[o].st = "used"
            /\ srv'.orders[o].run = srv.orders[o].run /\ srv'.orders[o].plan = srv.orders[o].plan
        BY <4>5, <4>6
      <4>8. ui' = ui
        BY <1>1
      <4>. QED
        BY <4>1, <4>2, <4>3, <4>6, <4>7, <4>8
  <2>2. srv.orders[o].st = "captured"
    BY <1>4 DEF Access!Consumable
  <2>0. ASSUME NEW y \in Access!Orders
        PROVE  /\ srv'.orders[y].plan = srv.orders[y].plan /\ srv'.orders[y].run = srv.orders[y].run
               /\ srv.orders[y].st \in Paid => srv'.orders[y].st \in Paid
               /\ srv'.orders[y].st = "used" <=> srv.orders[y].st = "used" \/ y = o
    BY <2>1 DEF Paid
  <2>3. AccessFields'
    BY <1>0, <1>2, <2>1 DEF AccessFields
  <2>4. Waiting' /\ Fresh'
    <3>1. Waiting'
      BY <1>0, <1>2, <2>1, <2>2 DEF Waiting, Elsewhere
    <3>2. ASSUME NEW x \in Access!Orders, Live(x)' PROVE Live(x)
      BY <2>1, <3>2 DEF Live, Elsewhere
    <3>. QED
      BY <1>0, <2>1, <3>1, <3>2 DEF Fresh
  <2>5. Access!Has(srv', 1) <=> Access!Has(srv, 1)
    BY <2>1 DEF Access!Has
  <2>6. Access!Other \in Access!Posts /\ Access!Orders \subseteq Access!Posts
    BY DEF Access!Posts
  <2>7. ASSUME NEW x, Access!TakenByOther(x) PROVE Access!TakenByOther(x)'
    BY <1>1, <2>1, <2>6, <2>7 DEF Access!TakenByOther
  <2>8. ASSUME NEW x \in Access!Posts PROVE SentRight(x)'
    <3>1. SentRight(x)
      BY <1>0 DEF Sent
    <3>2. CASE x = r
      BY <1>2, <2>0, <2>1, <3>2 DEF SentRight
    <3>3. CASE x # r
      BY <2>0, <2>1, <3>1, <3>3 DEF SentRight
    <3>. QED
      BY <3>2, <3>3
  <2>9. Sent'
    <3>1. ASSUME NEW x \in Access!Orders, srv'.orders[x].run \in {"capturing", "captured", "alone"}
          PROVE  srv'.posts[x].at = "none"
      <4>1. srv.posts[x].at = "none"
        BY <1>0, <2>0, <3>1 DEF Sent
      <4>. QED
        BY <1>1, <2>1, <2>6, <4>1
    <3>. QED
      BY <1>0, <2>0, <2>8, <3>1 DEF Sent
  <2>10. \A x \in srv.subs : x.order # o
    BY <2>2 DEF AccessInv, PostPart, Access!OneRequestPerDeposit
  <2>11. Taken'
    <3>1. ASSUME NEW x \in Access!Posts, srv'.posts[x].at = "consumed"
          PROVE  /\ x = r \/ (srv.posts[x].at = "consumed" /\ srv'.posts[x] = srv.posts[x] /\ srv.posts[x].order # o)
                 /\ x # r => srv'.orders[srv.posts[x].order].st = "used"
      <4>1. CASE x # r
        <5>1. srv.posts[x].at = "consumed" /\ srv'.posts[x] = srv.posts[x]
          BY <2>1, <3>1, <4>1
        <5>2. srv.orders[srv.posts[x].order].st = "used" /\ srv.posts[x].order \in Access!Orders
          BY <1>0, <5>1 DEF Taken, Sent, SentRight
        <5>. QED
          BY <2>0, <2>2, <5>1, <5>2
      <4>. QED
        BY <4>1
    <3>2. srv'.subs = srv.subs /\ srv'.posts[r].order = o /\ srv'.orders[o].st = "used"
      BY <2>1
    <3>. QED
      BY <1>0, <2>10, <3>1, <3>2 DEF Taken
  <2>12. OwnAnswer'
    <3>1. Access!Other \notin Access!Orders
      BY DEF Access!Other, Access!Orders
    <3>2. r = Access!Other => Access!TakenByOther(o)'
      BY <2>1 DEF Access!TakenByOther
    <3>3. ASSUME NEW x \in Access!Orders, srv'.orders[x].st = "used"
          PROVE  srv'.posts[x].at = "consumed" \/ Access!Has(srv', 1) \/ srv'.failed \/ Access!TakenByOther(x)'
      <4>1. CASE x = o
        BY <1>2, <2>1, <3>2, <4>1
      <4>2. CASE x # o
        <5>1. srv.orders[x].st = "used"
          BY <2>1, <3>3, <4>2
        <5>2. srv.posts[x].at = "consumed" \/ Access!Has(srv, 1) \/ srv.failed \/ Access!TakenByOther(x)
          BY <1>0, <5>1 DEF OwnAnswer
        <5>3. srv.posts[x].at = "consumed" => srv'.posts[x].at = "consumed"
          BY <1>1, <2>1, <2>6
        <5>4. srv'.failed = srv.failed
          BY <2>1
        <5>. QED
          BY <2>5, <2>7, <5>2, <5>3, <5>4
      <4>. QED
        BY <4>1, <4>2
    <3>. QED
      BY <1>0, <2>1, <2>5, <2>6, <2>7, <3>1, <3>3 DEF OwnAnswer
  <2>13. Access!OneRequestPerDeposit'
    BY <1>0, <2>0, <2>1 DEF AccessInv, PostPart, Access!OneRequestPerDeposit, Taken
  <2>14. Access!DepositIsServed'
    <3>1. \A x \in Access!Orders : /\ srv'.orders[x].st \in {"charged", "captured", "used"} =>
                                      srv.orders[x].st \in {"charged", "captured", "used"}
                                  /\ srv'.orders[x].run = srv.orders[x].run
      BY <2>1, <2>2
    <3>. QED
      BY <2>1, <2>5, <2>7, <3>1 DEF AccessInv, PostPart, Access!DepositIsServed
  <2>15. Access!ReceivedIsRecorded'
    BY <2>1, <2>5 DEF AccessInv, Access!ReceivedIsRecorded
  <2>. QED
    BY <2>3, <2>4, <2>9, <2>11, <2>12, <2>13, <2>14, <2>15 DEF AccessInv, FormPart, PostPart
<1>. QED
  BY <1>3, <1>4

(* ... which then makes a request of it, ...                               *)
LEMMA CreateStep ==
  ASSUME AccessInv, Access!CreateInterestSubmission
  PROVE  AccessInv'
<1>0. AccessFields /\ Waiting /\ Fresh /\ Sent /\ Taken /\ OwnAnswer
  BY AccessParts
<1>1. PICK r \in Access!Posts :
        /\ srv.posts[r].at = "consumed" /\ UNCHANGED ui
        /\ srv' = [Access!At(srv, r, "ok") EXCEPT
                     !.subs = @ \cup {[who |-> r, order |-> srv.posts[r].order, plan |-> srv.posts[r].plan]}]
  BY DEF Access!CreateInterestSubmission
<1>. DEFINE o == srv.posts[r].order
            new == [who |-> r, order |-> o, plan |-> srv.posts[r].plan]
<1>2. /\ o \in Access!Orders /\ srv.orders[o].st = "used" /\ srv.posts[r].plan = srv.orders[o].plan
      /\ \A x \in srv.subs : x.order # o
  BY <1>0, <1>1 DEF Sent, SentRight, Taken
<1>3. new.who = r /\ new.order = o /\ new.plan = srv.orders[o].plan
  BY <1>2
<1>4. /\ ui' = ui /\ DOMAIN srv' = DOMAIN srv /\ srv'.subs = srv.subs \cup {new} /\ srv'.earlier = srv.earlier
      /\ srv'.changed = srv.changed /\ srv'.capped = srv.capped /\ srv'.failed = srv.failed
      /\ srv'.orders = srv.orders
      /\ DOMAIN srv'.posts = DOMAIN srv.posts /\ DOMAIN srv'.posts[r] = DOMAIN srv.posts[r]
      /\ \A x \in Access!Posts \ {r} : srv'.posts[x] = srv.posts[x]
      /\ srv'.posts[r].at = "ok" /\ srv'.posts[r].order = srv.posts[r].order /\ srv'.posts[r].plan = srv.posts[r].plan
  BY <1>0, <1>1 DEF Access!At, AccessFields
<1>. HIDE DEF new
<1>5. AccessFields' /\ Waiting' /\ Fresh'
  BY <1>0, <1>4 DEF AccessFields, Waiting, Elsewhere, Fresh, Live
<1>6. Access!Other \in Access!Posts /\ Access!Orders \subseteq Access!Posts /\ Access!Other \notin Access!Orders
  BY DEF Access!Posts, Access!Other, Access!Orders
<1>7. Access!Has(srv, 1) => Access!Has(srv', 1)
  BY <1>4 DEF Access!Has
<1>8. r # Access!Other => Access!Has(srv', 1)
  BY <1>3, <1>4 DEF Access!Has, Access!Other
<1>9. ASSUME NEW x, Access!TakenByOther(x) PROVE Access!TakenByOther(x)'
  <2>1. CASE r = Access!Other /\ x = o
    BY <1>3, <1>4, <2>1 DEF Access!TakenByOther
  <2>2. CASE ~(r = Access!Other /\ x = o)
    BY <1>4, <1>6, <1>9, <2>2 DEF Access!TakenByOther
  <2>. QED
    BY <2>1, <2>2
<1>10. ASSUME NEW x \in Access!Posts PROVE SentRight(x)'
  <2>1. SentRight(x)
    BY <1>0 DEF Sent
  <2>. QED
    BY <1>1, <1>4, <2>1 DEF SentRight
<1>11. Sent'
  BY <1>0, <1>1, <1>4, <1>6, <1>10 DEF Sent
<1>12. Taken'
  <2>1. ASSUME NEW x \in Access!Posts, srv'.posts[x].at = "consumed"
        PROVE  x # r /\ srv'.posts[x] = srv.posts[x] /\ srv.posts[x].order # o
    <3>1. x # r
      BY <1>4, <2>1
    <3>2. srv'.posts[x] = srv.posts[x]
      BY <1>4, <3>1
    <3>3. srv.posts[x].order # o
      BY <1>0, <1>1, <2>1, <3>1, <3>2 DEF Taken
    <3>. QED
      BY <3>1, <3>2, <3>3
  <2>2. \A y \in srv'.subs : y = new \/ y \in srv.subs
    BY <1>4
  <2>3. ASSUME NEW x \in Access!Posts, srv'.posts[x].at = "consumed"
        PROVE  /\ srv'.orders[srv'.posts[x].order].st = "used" /\ \A y \in srv'.subs : y.order # srv'.posts[x].order
               /\ \A t \in Access!Posts : srv'.posts[t].at = "consumed" /\ srv'.posts[t].order = srv'.posts[x].order => t = x
    <3>1. /\ srv.posts[x].at = "consumed" /\ srv'.posts[x] = srv.posts[x] /\ srv.posts[x].order # o
      BY <2>1, <2>3
    <3>2. \A y \in srv'.subs : y.order # srv'.posts[x].order
      BY <1>0, <1>3, <2>2, <3>1 DEF Taken
    <3>3. srv'.orders[srv'.posts[x].order].st = "used"
      BY <1>0, <1>4, <3>1 DEF Taken
    <3>4. ASSUME NEW t \in Access!Posts, srv'.posts[t].at = "consumed", srv'.posts[t].order = srv'.posts[x].order
          PROVE  t = x
      BY <1>0, <2>1, <3>1, <3>4 DEF Taken
    <3>. QED
      BY <3>2, <3>3, <3>4
  <2>4. \A y \in srv'.subs : y.order \in Access!Orders
    BY <1>0, <1>2, <1>3, <2>2 DEF Taken
  <2>. QED
    BY <2>3, <2>4 DEF Taken
<1>13. OwnAnswer'
  BY <1>0, <1>4, <1>6, <1>7, <1>8, <1>9 DEF OwnAnswer
<1>14. Access!OneRequestPerDeposit'
  BY <1>2, <1>3, <1>4 DEF AccessInv, PostPart, Access!OneRequestPerDeposit
<1>15. Access!DepositIsServed'
  BY <1>4, <1>7, <1>9 DEF AccessInv, PostPart, Access!DepositIsServed
<1>16. Access!ReceivedIsRecorded'
  BY <1>4, <1>7 DEF AccessInv, Access!ReceivedIsRecorded
<1>. QED
  BY <1>5, <1>11, <1>12, <1>13, <1>14, <1>15, <1>16 DEF AccessInv, FormPart, PostPart

(* ... and a post that begins, from elsewhere ...                          *)
LEMMA AskSteps ==
  ASSUME AccessInv, AccessFields', Waiting', Fresh', NEW r \in Access!Posts, NEW o \in Access!Orders,
         srv.posts[r].at = "none", srv.orders[o].st \in Paid, r # Access!Other => o = r,
         ui' = ui, srv'.subs = srv.subs, srv'.earlier = srv.earlier, srv'.changed = srv.changed,
         srv'.capped = srv.capped, srv'.failed = srv.failed,
         \A x \in Access!Posts \ {r} : srv'.posts[x] = srv.posts[x],
         srv'.posts[r].at = "asked", srv'.posts[r].order = o,
         r = Access!Other \/ ~srv.changed => srv'.posts[r].plan = srv.orders[o].plan,
         \A x \in Access!Orders : /\ srv'.orders[x].st = srv.orders[x].st /\ srv'.orders[x].plan = srv.orders[x].plan
                                 /\ \/ srv'.orders[x].run = srv.orders[x].run /\ x # r
                                    \/ srv'.orders[x].run = srv.orders[x].run /\ r = Access!Other
                                    \/ srv'.orders[x].run = "submitting" /\ x = r
  PROVE  AccessInv'
<1>0. AccessFields /\ Sent /\ Taken /\ OwnAnswer
  BY AccessParts
<1>1. Access!Has(srv', 1) <=> Access!Has(srv, 1)
  BY DEF Access!Has
<1>2. Access!Other \in Access!Posts /\ Access!Orders \subseteq Access!Posts /\ Access!Other \notin Access!Orders
  BY DEF Access!Posts, Access!Other, Access!Orders
<1>3. ASSUME NEW x, Access!TakenByOther(x) PROVE Access!TakenByOther(x)'
  <2>1. CASE \E y \in srv.subs : y.who = Access!Other /\ y.order = x
    BY <2>1 DEF Access!TakenByOther
  <2>2. CASE srv.posts[Access!Other].at = "consumed" /\ srv.posts[Access!Other].order = x
    <3>1. srv'.posts[Access!Other] = srv.posts[Access!Other]
      BY <1>2, <2>2
    <3>. QED
      BY <2>2, <3>1 DEF Access!TakenByOther
  <2>. QED
    BY <1>3, <2>1, <2>2 DEF Access!TakenByOther
<1>4. ASSUME NEW x \in Access!Posts PROVE SentRight(x)'
  <2>1. SentRight(x)
    BY <1>0 DEF Sent
  <2>2. CASE x = r
    BY <2>2 DEF SentRight
  <2>3. CASE x # r
    BY <2>1, <2>3 DEF SentRight
  <2>. QED
    BY <2>2, <2>3
<1>5. Sent'
  <2>1. ASSUME NEW x \in Access!Orders
        PROVE  /\ srv'.orders[x].run \in {"capturing", "captured", "alone"} => srv'.posts[x].at = "none"
               /\ srv'.orders[x].run \in {"captured", "submitting"} => srv'.orders[x].st \in Paid
    <3>1. CASE x = r
      BY <1>2, <3>1
    <3>2. CASE x # r
      BY <1>0, <1>2, <3>2 DEF Sent
    <3>. QED
      BY <3>1, <3>2
  <2>. QED
    BY <1>4, <2>1 DEF Sent
<1>6. Taken'
  <2>1. ASSUME NEW x \in Access!Posts, srv'.posts[x].at = "consumed"
        PROVE  x # r /\ srv.posts[x].at = "consumed" /\ srv'.posts[x] = srv.posts[x] /\ srv.posts[x].order \in Access!Orders
    BY <1>0, <2>1 DEF Sent, SentRight
  <2>. QED
    BY <1>0, <2>1 DEF Taken
<1>7. OwnAnswer'
  <2>1. ASSUME NEW x \in Access!Orders
        PROVE  x \in Access!Posts /\ (x # r => srv'.posts[x] = srv.posts[x])
    BY <1>2
  <2>. QED
    BY <1>0, <1>1, <1>3, <2>1 DEF OwnAnswer
<1>8. Access!OneRequestPerDeposit'
  BY <1>0 DEF AccessInv, PostPart, Access!OneRequestPerDeposit, Taken
<1>9. Access!DepositIsServed'
  BY <1>1, <1>3 DEF AccessInv, PostPart, Access!DepositIsServed
<1>10. Access!ReceivedIsRecorded'
  BY <1>1 DEF AccessInv, Access!ReceivedIsRecorded
<1>. QED
  BY <1>5, <1>6, <1>7, <1>8, <1>9, <1>10 DEF AccessInv, FormPart, PostPart

(* A run that ends touches its order alone.                                *)
LEMMA RunEnding ==
  ASSUME AccessInv, NEW o \in Access!Orders, NEW st, srv' = Access!RunEnds(o, st)
  PROVE  /\ OnlyOrder(o) /\ srv'.orders[o].st = st /\ srv'.orders[o].run = "none"
         /\ srv'.orders[o].plan = srv.orders[o].plan
<1>1. AccessFields
  BY AccessParts
<1>. QED
  BY <1>1 DEF Access!RunEnds, AccessFields, OnlyOrder, SamePosts

(* ... by somebody else who knows the order's number, ...                  *)
LEMMA OtherPostsStep ==
  ASSUME AccessInv, Access!OtherPosts
  PROVE  AccessInv'
<1>0. AccessFields /\ Waiting /\ Fresh
  BY AccessParts
<1>1. PICK o \in Access!Orders :
        /\ srv.posts[Access!Other].at = "none" /\ srv.orders[o].st \in {"captured", "used"} /\ UNCHANGED ui
        /\ srv' = [srv EXCEPT !.posts[Access!Other] = [at |-> "asked", order |-> o, plan |-> srv.orders[o].plan]]
  BY DEF Access!OtherPosts
<1>2. Access!Other \in Access!Posts
  BY DEF Access!Posts
<1>3. /\ DOMAIN srv' = DOMAIN srv /\ srv'.subs = srv.subs /\ srv'.earlier = srv.earlier
      /\ srv'.changed = srv.changed /\ srv'.capped = srv.capped /\ srv'.failed = srv.failed
      /\ srv'.orders = srv.orders /\ DOMAIN srv'.posts = DOMAIN srv.posts
      /\ \A x \in Access!Posts \ {Access!Other} : srv'.posts[x] = srv.posts[x]
      /\ srv'.posts[Access!Other] = [at |-> "asked", order |-> o, plan |-> srv.orders[o].plan]
  BY <1>0, <1>1, <1>2 DEF AccessFields
<1>4. AccessFields' /\ Waiting' /\ Fresh'
  BY <1>0, <1>1, <1>3 DEF AccessFields, Waiting, Elsewhere, Fresh, Live
<1>5. /\ srv'.posts[Access!Other].at = "asked" /\ srv'.posts[Access!Other].order = o
      /\ srv'.posts[Access!Other].plan = srv.orders[o].plan
  BY <1>3
<1>. QED
  BY <1>1, <1>2, <1>3, <1>4, <1>5, AskSteps DEF Paid

(* ... or by the form itself, for the plan it shows.                       *)
LEMMA SubmitStep ==
  ASSUME AccessInv, Access!SubmitInterestForm
  PROVE  AccessInv'
<1>0. AccessFields /\ Waiting /\ Fresh /\ Sent
  BY AccessParts
<1>1. PICK o \in Access!Orders :
        /\ srv.orders[o].run = "captured"
        /\ LET plan == IF srv.orders[o].kept THEN srv.orders[o].plan ELSE ui.plan
           IN IF ui.client = "page" /\ ~ui.checked
              THEN srv' = Access!RunEnds(o, srv.orders[o].st) /\ ui' = Access!Back
              ELSE /\ srv' = [srv EXCEPT !.orders[o].run = "submitting",
                                         !.posts[o] = [at |-> "asked", order |-> o, plan |-> plan]]
                   /\ UNCHANGED ui
  BY DEF Access!SubmitInterestForm
<1>2. /\ srv.posts[o].at = "none" /\ srv.orders[o].st \in Paid /\ o # Access!Other /\ o \in Access!Posts
      /\ ui.step \in Elsewhere => o # ui.order
      /\ ~srv.changed => srv.orders[o].plan = ui.plan /\ (ui.client = "page" => ui.checked)
  <2>1. o # Access!Other /\ o \in Access!Posts
    BY DEF Access!Posts, Access!Other, Access!Orders
  <2>2. ~srv.changed => ui.step \notin {"away", "resume"}
    BY <1>0, <1>1 DEF Waiting
  <2>. QED
    BY <1>0, <1>1, <2>1, <2>2 DEF Sent, Waiting, Fresh, Live
<1>3. CASE ui.client = "page" /\ ~ui.checked
  <2>1. /\ SameClient /\ ui'.step = "form" /\ srv.changed
    BY <1>0, <1>1, <1>2, <1>3 DEF Access!Back, AccessFields, SameClient
  <2>2. /\ OnlyOrder(o) /\ srv'.orders[o].st = srv.orders[o].st /\ srv'.orders[o].run = "none"
        /\ srv'.orders[o].plan = srv.orders[o].plan
    <3>1. srv' = Access!RunEnds(o, srv.orders[o].st)
      BY <1>1, <1>3
    <3>. QED
      BY <3>1, RunEnding
  <2>3. AccessFields'
    BY <1>0, <2>1, <2>2 DEF AccessFields, OnlyOrder, SamePosts, SameClient
  <2>4. Waiting' /\ Fresh'
    BY <2>1, <2>2 DEF Waiting, Elsewhere, Fresh, OnlyOrder
  <2>5. \A x \in Access!Orders :
          /\ srv'.orders[x].run \in {"capturing", "captured", "alone"} => srv.posts[x].at = "none"
          /\ srv'.orders[x].run \in {"captured", "submitting"} => srv'.orders[x].st \in Paid
    BY <1>0, <2>2 DEF Sent, OnlyOrder
  <2>6. PostPart'
    BY <2>1, <2>2, <2>3, <2>5, OrderSteps DEF OnlyOrder
  <2>. QED
    BY <2>1, <2>2, <2>3, <2>4, <2>6, StillRecorded DEF AccessInv, FormPart, OnlyOrder
<1>4. CASE ~(ui.client = "page" /\ ~ui.checked)
  <2>. DEFINE plan == IF srv.orders[o].kept THEN srv.orders[o].plan ELSE ui.plan
  <2>1. /\ UNCHANGED ui
        /\ srv' = [srv EXCEPT !.orders[o].run = "submitting", !.posts[o] = [at |-> "asked", order |-> o, plan |-> plan]]
    BY <1>1, <1>4
  <2>2. ~srv.changed => plan = srv.orders[o].plan
    BY <1>2
  <2>. HIDE DEF plan
  <2>3. /\ DOMAIN srv' = DOMAIN srv /\ srv'.subs = srv.subs /\ srv'.earlier = srv.earlier
        /\ srv'.changed = srv.changed /\ srv'.capped = srv.capped /\ srv'.failed = srv.failed
        /\ srv'.orders = [srv.orders EXCEPT ![o].run = "submitting"]
        /\ srv'.posts = [srv.posts EXCEPT ![o] = [at |-> "asked", order |-> o, plan |-> plan]]
    BY <1>0, <2>1 DEF AccessFields
  <2>4. /\ DOMAIN srv'.orders = DOMAIN srv.orders /\ DOMAIN srv'.orders[o] = DOMAIN srv.orders[o]
        /\ \A x \in Access!Orders \ {o} : srv'.orders[x] = srv.orders[x]
        /\ srv'.orders[o].st = srv.orders[o].st /\ srv'.orders[o].run = "submitting"
        /\ srv'.orders[o].plan = srv.orders[o].plan
    BY <1>0, <2>3 DEF AccessFields
  <2>5. /\ DOMAIN srv'.posts = DOMAIN srv.posts /\ \A x \in Access!Posts \ {o} : srv'.posts[x] = srv.posts[x]
        /\ srv'.posts[o] = [at |-> "asked", order |-> o, plan |-> plan]
    BY <1>0, <1>2, <2>3 DEF AccessFields
  <2>6. /\ DOMAIN srv'.posts[o] = {"at", "order", "plan"} /\ srv'.posts[o].at = "asked"
        /\ srv'.posts[o].order = o /\ srv'.posts[o].plan = plan
    BY <2>5
  <2>7. AccessFields'
    BY <1>0, <2>1, <2>3, <2>4, <2>5, <2>6 DEF AccessFields
  <2>8. Waiting'
    BY <1>0, <1>1, <1>2, <2>1, <2>3, <2>4 DEF Waiting, Elsewhere
  <2>9. ASSUME NEW x \in Access!Orders, Live(x)' PROVE Live(x)
    BY <1>2, <2>1, <2>4, <2>9 DEF Live, Elsewhere
  <2>10. Fresh'
    BY <1>0, <2>1, <2>3, <2>4, <2>9 DEF Fresh
  <2>11. ASSUME NEW x \in Access!Orders
         PROVE  /\ srv'.orders[x].st = srv.orders[x].st /\ srv'.orders[x].plan = srv.orders[x].plan
                /\ (srv'.orders[x].run = srv.orders[x].run /\ x # o) \/ (srv'.orders[x].run = "submitting" /\ x = o)
    BY <2>4
  <2>. QED
    BY <1>2, <2>1, <2>2, <2>3, <2>5, <2>6, <2>7, <2>8, <2>10, <2>11, AskSteps
<1>. QED
  BY <1>3, <1>4

(* An answer frees the post; ...                                           *)
Freed(r) ==
  /\ srv'.subs = srv.subs /\ srv'.earlier = srv.earlier /\ srv'.capped = srv.capped
  /\ (srv.changed => srv'.changed) /\ (srv.failed => srv'.failed) /\ srv'.posts[r].at = "none"
  /\ \A x \in Access!Posts \ {r} : srv'.posts[x] = srv.posts[x]
  /\ \A x \in Access!Orders : srv'.orders[x].st = srv.orders[x].st /\ srv'.orders[x].plan = srv.orders[x].plan

(* ... what is posted and recorded is kept if the answer has a reason, ... *)
LEMMA FreeSteps ==
  ASSUME AccessInv, NEW r \in Access!Posts, Freed(r), srv.posts[r].at \in {"ok", "refused"},
         \A x \in Access!Orders : srv'.orders[x].run = srv.orders[x].run \/ (x = r /\ srv'.orders[x].run = "none"),
         \/ srv'.orders = srv.orders
         \/ srv.posts[r].at = "ok" \/ srv'.changed \/ srv'.failed \/ Access!TakenByOther(r) \/ Access!Has(srv, 1)
  PROVE  PostPart' /\ (Access!Has(srv', 1) <=> Access!Has(srv, 1))
<1>0. AccessFields /\ Sent /\ Taken /\ OwnAnswer
  BY AccessParts
<1>1. Access!Has(srv', 1) <=> Access!Has(srv, 1)
  BY DEF Access!Has, Freed
<1>2. Access!Other \in Access!Posts /\ Access!Orders \subseteq Access!Posts /\ Access!Other \notin Access!Orders
  BY DEF Access!Posts, Access!Other, Access!Orders
<1>3. ASSUME NEW x, Access!TakenByOther(x) PROVE Access!TakenByOther(x)'
  BY <1>2, <1>3 DEF Access!TakenByOther, Freed
<1>4. ASSUME NEW x \in Access!Posts PROVE SentRight(x)' /\ (x = r \/ srv'.posts[x] = srv.posts[x])
  <2>1. SentRight(x)
    BY <1>0 DEF Sent
  <2>. QED
    BY <2>1 DEF SentRight, Freed
<1>5. Sent'
  <2>1. ASSUME NEW x \in Access!Orders
        PROVE  /\ srv'.orders[x].run \in {"capturing", "captured", "alone"} => srv'.posts[x].at = "none"
               /\ srv'.orders[x].run \in {"captured", "submitting"} => srv'.orders[x].st \in Paid
    BY <1>0, <1>2, <1>4 DEF Sent, Freed
  <2>. QED
    BY <1>4, <2>1 DEF Sent
<1>6. Taken'
  <2>1. ASSUME NEW x \in Access!Posts, srv'.posts[x].at = "consumed"
        PROVE  /\ srv.posts[x].at = "consumed" /\ srv'.posts[x] = srv.posts[x]
               /\ srv.posts[x].order \in Access!Orders
    BY <1>0, <1>4, <2>1 DEF Sent, SentRight, Freed
  <2>. QED
    BY <1>0, <2>1 DEF Taken, Freed
<1>7. OwnAnswer'
  BY <1>0, <1>1, <1>2, <1>3, <1>4 DEF OwnAnswer, Freed
<1>8. Access!OneRequestPerDeposit'
  BY <1>0 DEF AccessInv, PostPart, Access!OneRequestPerDeposit, Taken, Freed
<1>9. Access!DepositIsServed'
  BY <1>0, <1>1, <1>3 DEF AccessInv, PostPart, Access!DepositIsServed, OwnAnswer, Freed
<1>. QED
  BY <1>1, <1>5, <1>6, <1>7, <1>8, <1>9 DEF PostPart

(* ... and it has, whatever the visitor does with the form.                *)
LEMMA AnswerStep ==
  ASSUME AccessInv, Access!Answers
  PROVE  AccessInv'
<1>0. AccessFields /\ Waiting /\ Fresh /\ OwnAnswer
  BY AccessParts
<1>1. PICK r \in Access!Posts, lost \in BOOLEAN :
        /\ srv.posts[r].at \in {"ok", "refused"}
        /\ IF r # Access!Other /\ srv.orders[r].run = "submitting"
           THEN LET done == [Access!RunEnds(r, srv.orders[r].st) EXCEPT !.posts[r] = Access!NoPost, !.failed = @ \/ lost] IN
                IF ~lost /\ srv.posts[r].at = "ok" THEN srv' = done /\ ui' = [ui EXCEPT !.step = "submitted"]
                ELSE /\ srv' = [done EXCEPT !.changed = @ \/ Access!Paying(done)]
                     /\ ui' = [ui EXCEPT !.step = "form", !.checked = FALSE]
           ELSE srv' = [srv EXCEPT !.posts[r] = Access!NoPost] /\ UNCHANGED ui
  BY DEF Access!Answers
<1>2. CASE ~(r # Access!Other /\ srv.orders[r].run = "submitting")
  <2>1. /\ ui' = ui /\ DOMAIN srv' = DOMAIN srv /\ srv'.changed = srv.changed /\ srv'.failed = srv.failed
        /\ srv'.orders = srv.orders /\ DOMAIN srv'.posts = DOMAIN srv.posts
        /\ DOMAIN srv'.posts[r] = {"at", "order", "plan"} /\ Freed(r)
    BY <1>0, <1>1, <1>2 DEF AccessFields, Freed, Access!NoPost
  <2>2. PostPart' /\ (Access!Has(srv', 1) <=> Access!Has(srv, 1))
    <3>1. \A x \in Access!Orders : srv'.orders[x].run = srv.orders[x].run
      BY <2>1
    <3>. QED
      BY <1>1, <2>1, <3>1, FreeSteps
  <2>3. AccessFields' /\ Waiting' /\ Fresh'
    BY <1>0, <2>1 DEF AccessFields, Waiting, Elsewhere, Fresh, Live, Freed
  <2>4. Access!ReceivedIsRecorded'
    BY <2>1, <2>2 DEF AccessInv, Access!ReceivedIsRecorded, Freed
  <2>. QED
    BY <2>2, <2>3, <2>4 DEF AccessInv, FormPart
<1>3. CASE r # Access!Other /\ srv.orders[r].run = "submitting"
  <2>. DEFINE done == [Access!RunEnds(r, srv.orders[r].st) EXCEPT !.posts[r] = Access!NoPost, !.failed = @ \/ lost]
  <2>1. r \in Access!Orders
    BY <1>3 DEF Access!Posts
  <2>2. /\ DOMAIN done = DOMAIN srv /\ done.subs = srv.subs /\ done.earlier = srv.earlier /\ done.capped = srv.capped
        /\ done.changed = srv.changed /\ done.failed = (srv.failed \/ lost)
        /\ done.posts = [srv.posts EXCEPT ![r] = Access!NoPost]
        /\ done.orders = [srv.orders EXCEPT ![r].st = srv.orders[r].st, ![r].run = "none"]
    BY <1>0, <2>1 DEF Access!RunEnds, AccessFields
  <2>3. /\ DOMAIN done.orders = DOMAIN srv.orders /\ DOMAIN done.orders[r] = DOMAIN srv.orders[r]
        /\ \A x \in Access!Orders \ {r} : done.orders[x] = srv.orders[x]
        /\ done.orders[r].st = srv.orders[r].st /\ done.orders[r].run = "none"
        /\ done.orders[r].plan = srv.orders[r].plan
    BY <1>0, <2>1, <2>2 DEF AccessFields
  <2>4. /\ DOMAIN done.posts = DOMAIN srv.posts /\ done.posts[r].at = "none"
        /\ DOMAIN done.posts[r] = {"at", "order", "plan"}
        /\ \A x \in Access!Posts \ {r} : done.posts[x] = srv.posts[x]
    BY <1>0, <2>2 DEF AccessFields, Access!NoPost
  <2>5. /\ \/ ~lost /\ srv.posts[r].at = "ok" /\ srv' = done /\ ui' = [ui EXCEPT !.step = "submitted"]
           \/ /\ srv' = [done EXCEPT !.changed = @ \/ Access!Paying(done)]
              /\ lost \/ srv.posts[r].at = "refused"
              /\ ui' = [ui EXCEPT !.step = "form", !.checked = FALSE]
    BY <1>1, <1>3
  <2>. HIDE DEF done
  <2>6. /\ DOMAIN srv' = DOMAIN done /\ srv'.subs = done.subs /\ srv'.earlier = done.earlier /\ srv'.capped = done.capped
        /\ srv'.failed = done.failed /\ srv'.posts = done.posts /\ srv'.orders = done.orders
        /\ srv'.changed \in {srv.changed, srv.changed \/ Access!Paying(done)}
    BY <1>0, <2>2, <2>5 DEF AccessFields
  <2>7. /\ SameClient /\ ui'.plan = ui.plan /\ ui'.order = ui.order
        /\ \/ ui'.step = "submitted" /\ ~lost /\ srv.posts[r].at = "ok" /\ ui'.checked = ui.checked
              /\ srv'.changed = srv.changed
           \/ ui'.step = "form" /\ (lost \/ srv.posts[r].at = "refused")
              /\ srv'.changed = (srv.changed \/ Access!Paying(done))
    BY <1>0, <2>2, <2>5 DEF AccessFields, SameClient
  <2>8. Freed(r)
    <3>1. \A x \in Access!Orders : srv'.orders[x].st = srv.orders[x].st /\ srv'.orders[x].plan = srv.orders[x].plan
      BY <2>3, <2>6
    <3>2. \A x \in Access!Posts \ {r} : srv'.posts[x] = srv.posts[x]
      BY <2>4, <2>6
    <3>3. (srv.changed => srv'.changed) /\ (srv.failed => srv'.failed) /\ srv'.posts[r].at = "none"
      BY <2>2, <2>4, <2>6, <2>7
    <3>. QED
      BY <2>2, <2>6, <3>1, <3>2, <3>3 DEF Freed
  <2>9. AccessFields'
    <3>1. srv'.changed \in BOOLEAN /\ srv'.failed \in BOOLEAN
      BY <1>0, <2>2, <2>6 DEF AccessFields, Access!Paying
    <3>. QED
      BY <1>0, <2>1, <2>2, <2>3, <2>4, <2>6, <2>7, <3>1 DEF AccessFields, SameClient
  <2>10. PostPart' /\ (Access!Has(srv', 1) <=> Access!Has(srv, 1))
    <3>1. \/ srv.posts[r].at = "ok" \/ srv'.changed \/ srv'.failed
          \/ Access!TakenByOther(r) \/ Access!Has(srv, 1)
      BY <1>0, <1>1, <2>1, <2>8 DEF OwnAnswer, Freed
    <3>2. \A x \in Access!Orders : srv'.orders[x].run = srv.orders[x].run \/ (x = r /\ srv'.orders[x].run = "none")
      BY <2>3, <2>6
    <3>. QED
      BY <1>1, <2>8, <3>1, <3>2, FreeSteps
  <2>11. Waiting'
    BY <2>7 DEF Waiting, Elsewhere
  <2>12. Fresh'
    <3>1. ASSUME NEW x \in Access!Orders, ~srv'.changed, Live(x)'
          PROVE  Live(x) /\ ui'.step = "submitted" /\ ~srv.changed
      BY <1>3, <2>3, <2>6, <2>7, <3>1 DEF Live, Elsewhere, Access!Paying
    <3>2. ~srv.changed => ui.step \notin {"away", "resume"}
      BY <1>0, <1>3, <2>1 DEF Waiting
    <3>3. ASSUME NEW x \in Access!Orders, ~srv'.changed PROVE srv'.orders[x].run # "alone" /\ ~srv.changed
      BY <1>0, <2>3, <2>6, <2>7, <3>3 DEF Fresh
    <3>4. \A x \in Access!Orders : srv'.orders[x].plan = srv.orders[x].plan
      BY <2>3, <2>6
    <3>. QED
      BY <1>0, <2>7, <3>1, <3>2, <3>3, <3>4 DEF Fresh, SameClient
  <2>13. Access!ReceivedIsRecorded'
    BY <1>0, <1>1, <2>1, <2>2, <2>6, <2>7, <2>10 DEF OwnAnswer, Access!ReceivedIsRecorded
  <2>. QED
    BY <2>9, <2>10, <2>11, <2>12, <2>13 DEF AccessInv, FormPart
<1>. QED
  BY <1>2, <1>3

(* So every step keeps it, ...                                             *)
LEMMA AccessStep == AccessInv /\ [Access!Next]_Access!vars => AccessInv'
<1> SUFFICES ASSUME AccessInv, [Access!Next]_Access!vars PROVE AccessInv'
  OBVIOUS
<1>1. CASE UNCHANGED Access!vars
  BY <1>1 DEF Access!vars, AccessInv, FormPart, PostPart, AccessFields, Waiting, Elsewhere, Fresh, Live, Sent,
     SentRight, Paid, Taken, OwnAnswer, Access!Has, Access!TakenByOther, Access!OneRequestPerDeposit,
     Access!DepositIsServed, Access!ReceivedIsRecorded
<1>2. CASE Access!Form
  BY <1>2, FillIn
<1>3. CASE Access!Deposit
  BY <1>3, MakeOrder, ApprovalUrlStep, ApproveStep, StartSteps, CancelSteps, ReturnStep, LeaveStep DEF Access!Deposit
<1>4. CASE Access!Server
  BY <1>4, CaptureStep, SubmitStep, OtherPostsStep, CheckSteps, ConsumeStep, CreateStep, AnswerStep DEF Access!Server
<1>. QED
  BY <1>1, <1>2, <1>3, <1>4 DEF Access!Next

(* ... and it holds what the page promises.                                *)
LEMMA AccessPromises ==
  AccessInv => /\ Access!OneRequestPerDeposit /\ Access!ReceivedIsRecorded
               /\ Access!DepositIsServed
BY DEF AccessInv, PostPart

----------------------------------------------------------------------------
(* Invitations.  A link is mailed by the call that made it, a row is used  *)
(* by who found it with its link, and neither is taken back: so it is      *)
(* enough to follow a link from the row to the mail, and a registration    *)
(* from the link to the row.                                               *)
Row == {"to", "link", "mail", "accepted", "revoked"}
Job == {"at", "kind", "inv", "to", "link", "mine"}

(* The fields the argument speaks of, and what the calls name.             *)
InviteRows ==
  /\ DOMAIN srv.inv = Invites!Invs
  /\ \A i \in Invites!Invs : /\ DOMAIN srv.inv[i] = Row /\ srv.inv[i].to \in Guests \cup {Invites!Nobody}
                             /\ srv.inv[i].accepted \in BOOLEAN /\ srv.inv[i].revoked \in BOOLEAN
InviteCalls ==
  /\ DOMAIN srv.jobs = Jobs
  /\ \A j \in Jobs : /\ DOMAIN srv.jobs[j] = Job /\ srv.jobs[j].mine \in BOOLEAN
                     /\ srv.jobs[j].at = "asked" =>
                          \/ srv.jobs[j].kind \in {"resend", "revoke"} /\ srv.jobs[j].inv \in Invites!Invs
                          \/ srv.jobs[j].kind \in {"create", "provision"} /\ srv.jobs[j].to \in Guests
                     /\ srv.jobs[j].at = "read" => srv.jobs[j].inv \in Invites!Invs
InviteFields ==
  /\ DOMAIN srv = {"inv", "made", "jobs", "reg", "known", "account", "moved"}
  /\ DOMAIN srv.account = Guests /\ DOMAIN srv.reg = {"at", "inv", "link"}
  /\ InviteRows /\ InviteCalls

(* A registration under way came by the link its row has, or had when the  *)
(* registration began.                                                     *)
CameByLink ==
  srv.reg.at # "none" =>
    /\ srv.reg.inv \in Invites!Invs /\ srv.inv[srv.reg.inv].to \in Guests
    /\ srv.inv[srv.reg.inv].link = srv.reg.link \/ srv.reg.inv \in srv.moved
MadeOfRows == \A g \in Guests : srv.account[g] # 0 => srv.account[g] \in Invites!Invs

InvitesInv == /\ InviteFields /\ CameByLink /\ MadeOfRows
              /\ Invites!OneOpenEach /\ Invites!LinkIsMailed /\ Invites!UsedIsAccepted

(* It holds at first, ...                                                  *)
LEMMA InvitesInitially == Invites!Init => InvitesInv
<1> SUFFICES ASSUME Invites!Init PROVE InvitesInv
  OBVIOUS
<1>1. /\ InviteFields /\ srv.reg.at = "none" /\ \A g \in Guests : srv.account[g] = 0
      /\ \A i \in Invites!Invs : ~Invites!Open(srv.inv[i])
  BY DEF Invites!Init, InviteFields, InviteRows, InviteCalls, Row, Job, Invites!Open, Invites!NoInv, Invites!NoJob, Invites!NoReg
<1>. QED
  BY <1>1 DEF InvitesInv, CameByLink, MadeOfRows, Invites!OneOpenEach, Invites!LinkIsMailed, Invites!UsedIsAccepted

(* ... a step that opens no row and moves a link only with notice keeps    *)
(* what registrations and accounts rest on, ...                            *)
LEMMA RowsKept ==
  ASSUME InvitesInv, srv'.reg = srv.reg, srv'.account = srv.account, srv.moved \subseteq srv'.moved,
         \A i \in Invites!Invs :
           /\ srv'.inv[i].to = srv.inv[i].to /\ (srv.inv[i].accepted => srv'.inv[i].accepted)
           /\ srv'.inv[i].link = srv.inv[i].link \/ (Invites!InUse(i) => i \in srv'.moved)
           /\ Invites!Open(srv'.inv[i]) => Invites!Open(srv.inv[i])
  PROVE  CameByLink' /\ MadeOfRows' /\ Invites!OneOpenEach' /\ Invites!UsedIsAccepted'
<1>1. CameByLink'
  BY DEF InvitesInv, CameByLink, Invites!InUse
<1>2. MadeOfRows' /\ Invites!UsedIsAccepted'
  BY DEF InvitesInv, MadeOfRows, Invites!UsedIsAccepted
<1>3. Invites!OneOpenEach'
  BY DEF InvitesInv, Invites!OneOpenEach
<1>. QED
  BY <1>1, <1>2, <1>3

(* ... so that a step that touches nothing but the calls, and no mail that *)
(* is due, keeps all, ...                                                  *)
OnlyJobs == /\ DOMAIN srv' = DOMAIN srv /\ srv'.inv = srv.inv /\ srv'.reg = srv.reg /\ srv'.account = srv.account
            /\ srv'.moved = srv.moved /\ DOMAIN srv'.jobs = Jobs
            /\ \A j \in Jobs : /\ DOMAIN srv'.jobs[j] = Job /\ srv'.jobs[j].mine \in BOOLEAN
                               /\ srv.jobs[j].at = "mail" => srv'.jobs[j].at = "mail" /\ srv'.jobs[j].link = srv.jobs[j].link
                               /\ srv'.jobs[j].at = "asked" =>
                                    \/ srv'.jobs[j].kind \in {"resend", "revoke"} /\ srv'.jobs[j].inv \in Invites!Invs
                                    \/ srv'.jobs[j].kind \in {"create", "provision"} /\ srv'.jobs[j].to \in Guests
                               /\ srv'.jobs[j].at = "read" => srv'.jobs[j].inv \in Invites!Invs
LEMMA JobsStep == ASSUME InvitesInv, OnlyJobs PROVE InvitesInv'
<1>1. InviteFields'
  BY DEF InvitesInv, InviteFields, InviteRows, InviteCalls, OnlyJobs
<1>2. Invites!LinkIsMailed'
  BY DEF InvitesInv, Invites!LinkIsMailed, OnlyJobs
<1>3. CameByLink' /\ MadeOfRows' /\ Invites!OneOpenEach' /\ Invites!UsedIsAccepted'
  BY RowsKept DEF OnlyJobs
<1>. QED
  BY <1>1, <1>2, <1>3 DEF InvitesInv

(* ... such as to ask for something, ...                                   *)
LEMMA AskStep ==
  ASSUME InvitesInv, NEW kind, NEW i, NEW to, NEW mine \in BOOLEAN, Invites!Asks(kind, i, to, mine),
         \/ kind \in {"resend", "revoke"} /\ i \in Invites!Invs
         \/ kind \in {"create", "provision"} /\ to \in Guests
  PROVE  InvitesInv'
<1>1. PICK j \in Jobs : /\ srv.jobs[j].at = "none"
                        /\ srv' = [srv EXCEPT !.jobs[j] = [at |-> "asked", kind |-> kind, inv |-> i, to |-> to,
                                                           link |-> 0, mine |-> mine]]
  BY DEF Invites!Asks
<1>2. OnlyJobs
  BY <1>1 DEF InvitesInv, InviteFields, InviteRows, InviteCalls, OnlyJobs, Job
<1>. QED
  BY <1>2, JobsStep

(* ... in whatever section of the page, ...                                *)
LEMMA PageSteps == ASSUME InvitesInv, Invites!Page PROVE InvitesInv'
<1>1. CASE Invites!OpenTab
  <2>1. OnlyJobs
    BY <1>1 DEF Invites!OpenTab, InvitesInv, InviteFields, InviteRows, InviteCalls, OnlyJobs, Job, Invites!NoJob
  <2>. QED
    BY <2>1, JobsStep
<1>2. CASE Invites!CopyLink
  <2>1. PICK i \in Invites!Invs : srv' = [srv EXCEPT !.inv[i].mail = "at hand"]
    BY <1>2 DEF Invites!CopyLink
  <2>2. /\ srv'.reg = srv.reg /\ srv'.account = srv.account /\ srv'.moved = srv.moved /\ srv'.jobs = srv.jobs
        /\ DOMAIN srv' = DOMAIN srv /\ srv'.inv = [srv.inv EXCEPT ![i].mail = "at hand"]
    BY <2>1 DEF InvitesInv, InviteFields
  <2>3. DOMAIN srv.inv = Invites!Invs /\ \A k \in Invites!Invs : DOMAIN srv.inv[k] = Row
    BY DEF InvitesInv, InviteFields, InviteRows
  <2>4. DOMAIN srv'.inv = DOMAIN srv.inv /\ \A k \in Invites!Invs \ {i} : srv'.inv[k] = srv.inv[k]
    BY <2>2, <2>3
  <2>5. srv'.inv[i] = [srv.inv[i] EXCEPT !.mail = "at hand"]
    BY <2>2, <2>3
  <2>6. /\ DOMAIN srv'.inv[i] = Row /\ srv'.inv[i].to = srv.inv[i].to /\ srv'.inv[i].link = srv.inv[i].link
        /\ srv'.inv[i].mail = "at hand"
        /\ srv'.inv[i].accepted = srv.inv[i].accepted /\ srv'.inv[i].revoked = srv.inv[i].revoked
    BY <2>3, <2>5 DEF Row
  <2>7. InviteRows'
    BY <2>4, <2>6 DEF InvitesInv, InviteFields, InviteRows
  <2>8. InviteFields'
    BY <2>2, <2>7 DEF InvitesInv, InviteFields, InviteCalls
  <2>9. Invites!LinkIsMailed'
    <3> SUFFICES ASSUME NEW k \in Invites!Invs, Invites!Open(srv'.inv[k]), srv'.inv[k].mail = "due"
                 PROVE  \E j \in Jobs : srv'.jobs[j].at = "mail" /\ srv'.jobs[j].link = srv'.inv[k].link
      BY DEF Invites!LinkIsMailed
    <3>1. srv'.inv[k] = srv.inv[k]
      BY <2>4, <2>6
    <3>2. PICK j \in Jobs : srv.jobs[j].at = "mail" /\ srv.jobs[j].link = srv.inv[k].link
      BY <3>1 DEF InvitesInv, Invites!LinkIsMailed
    <3>. QED
      BY <2>2, <3>1, <3>2
  <2>10. \A k \in Invites!Invs : Invites!Open(srv'.inv[k]) => Invites!Open(srv.inv[k])
    <3> SUFFICES ASSUME NEW k \in Invites!Invs, Invites!Open(srv'.inv[k]) PROVE Invites!Open(srv.inv[k])
      OBVIOUS
    <3>1. CASE k = i
      BY <2>6, <3>1 DEF Invites!Open
    <3>2. CASE k # i
      BY <2>4, <3>2
    <3>. QED
      BY <3>1, <3>2
  <2>11. \A k \in Invites!Invs : /\ srv'.inv[k].to = srv.inv[k].to /\ srv'.inv[k].link = srv.inv[k].link
                                 /\ srv'.inv[k].accepted = srv.inv[k].accepted
    BY <2>4, <2>6
  <2>12. CameByLink' /\ MadeOfRows' /\ Invites!OneOpenEach' /\ Invites!UsedIsAccepted'
    BY <2>2, <2>10, <2>11, RowsKept
  <2>. QED
    BY <2>8, <2>9, <2>12 DEF InvitesInv
<1>3. CASE Invites!Invite \/ Invites!Resend \/ Invites!Revoke \/ Invites!SendInvite \/ Invites!OtherAsks
  BY <1>3, AskStep DEF Invites!Invite, Invites!Resend, Invites!Revoke, Invites!SendInvite, Invites!OtherAsks
<1>4. CASE Invites!Provision \/ Invites!ClosePanel
  <2>1. OnlyJobs
    BY <1>4 DEF Invites!Provision, Invites!ClosePanel, InvitesInv, InviteFields, InviteRows, InviteCalls, OnlyJobs
  <2>. QED
    BY <2>1, JobsStep
<1>. QED
  BY <1>1, <1>2, <1>3, <1>4 DEF Invites!Page

(* ... to end a call whose mail is not due, ...                            *)
LEMMA EndSteps ==
  ASSUME InvitesInv, NEW j \in Jobs, NEW at \in {"ok", "refused"}
  PROVE  LET e == Invites!Ends(j, at) IN
         /\ DOMAIN e = DOMAIN srv /\ e.inv = srv.inv /\ e.reg = srv.reg /\ e.account = srv.account
         /\ e.moved = srv.moved /\ e.made = srv.made /\ e.known = srv.known
         /\ DOMAIN e.jobs = Jobs /\ DOMAIN e.jobs[j] = Job /\ e.jobs[j].mine \in BOOLEAN
         /\ e.jobs[j].at \in {"ok", "refused", "none"}
         /\ \A k \in Jobs \ {j} : e.jobs[k] = srv.jobs[k]
BY DEF InvitesInv, InviteFields, InviteRows, InviteCalls, Invites!Ends, Invites!NoJob, Job

(* ... to mail a link, or fail to, ...                                     *)
LEMMA MailSteps ==
  ASSUME InvitesInv, NEW j \in Jobs, srv.jobs[j].at = "mail", NEW at \in {"ok", "refused"},
         NEW fate, fate # "due", NEW e, e = Invites!Ends(j, at), NEW m, m = Invites!Mailed(j, fate),
         srv' = [e EXCEPT !.inv = m]
  PROVE  InvitesInv'
<1>1. /\ DOMAIN srv' = DOMAIN srv /\ srv'.reg = srv.reg /\ srv'.account = srv.account /\ srv'.moved = srv.moved
      /\ DOMAIN srv'.jobs = Jobs /\ DOMAIN srv'.jobs[j] = Job /\ srv'.jobs[j].mine \in BOOLEAN
      /\ srv'.jobs[j].at \in {"ok", "refused", "none"} /\ \A k \in Jobs \ {j} : srv'.jobs[k] = srv.jobs[k]
      /\ srv'.inv = m
  <2>2. /\ DOMAIN e = DOMAIN srv /\ e.reg = srv.reg /\ e.account = srv.account /\ e.moved = srv.moved
        /\ DOMAIN e.jobs = Jobs /\ DOMAIN e.jobs[j] = Job /\ e.jobs[j].mine \in BOOLEAN
        /\ e.jobs[j].at \in {"ok", "refused", "none"} /\ \A k \in Jobs \ {j} : e.jobs[k] = srv.jobs[k]
    BY EndSteps
  <2>3. DOMAIN e = {"inv", "made", "jobs", "reg", "known", "account", "moved"}
    BY <2>2 DEF InvitesInv, InviteFields, InviteRows, InviteCalls
  <2>6. /\ DOMAIN srv' = DOMAIN e /\ srv'.reg = e.reg /\ srv'.account = e.account /\ srv'.moved = e.moved
        /\ srv'.jobs = e.jobs /\ srv'.inv = m
    BY <2>3
  <2>. QED
    BY <2>2, <2>6
<1>2. /\ DOMAIN srv'.inv = Invites!Invs
      /\ \A i \in Invites!Invs : /\ DOMAIN srv'.inv[i] = Row /\ srv'.inv[i].to = srv.inv[i].to
                                 /\ srv'.inv[i].link = srv.inv[i].link
                                 /\ srv'.inv[i].accepted = srv.inv[i].accepted
                                 /\ srv'.inv[i].revoked = srv.inv[i].revoked
                                 /\ \/ srv'.inv[i].mail # "due"
                                    \/ srv.inv[i].mail = "due" /\ srv.inv[i].link # srv.jobs[j].link
  <2>1. srv'.inv = [i \in Invites!Invs |-> IF srv.inv[i].link = srv.jobs[j].link /\ srv.inv[i].mail = "due"
                                           THEN [srv.inv[i] EXCEPT !.mail = fate] ELSE srv.inv[i]]
    BY <1>1 DEF Invites!Mailed
  <2>2. \A i \in Invites!Invs : DOMAIN srv.inv[i] = {"to", "link", "mail", "accepted", "revoked"}
    BY DEF InvitesInv, InviteFields, InviteRows, InviteCalls, Row
  <2>. QED
    BY <2>1, <2>2 DEF Row
<1>3. InviteFields'
  <2>1. InviteRows'
    BY <1>1, <1>2 DEF InvitesInv, InviteFields, InviteRows
  <2>2. InviteCalls'
    BY <1>1, <1>2 DEF InvitesInv, InviteFields, InviteCalls
  <2>. QED
    BY <1>1, <1>2, <2>1, <2>2 DEF InvitesInv, InviteFields
<1>4. Invites!LinkIsMailed'
  <2> SUFFICES ASSUME NEW i \in Invites!Invs, Invites!Open(srv'.inv[i]), srv'.inv[i].mail = "due"
               PROVE  \E k \in Jobs : srv'.jobs[k].at = "mail" /\ srv'.jobs[k].link = srv'.inv[i].link
    BY DEF Invites!LinkIsMailed
  <2>1. Invites!Open(srv.inv[i]) /\ srv.inv[i].mail = "due"
    BY <1>2 DEF Invites!Open
  <2>2. PICK k \in Jobs : srv.jobs[k].at = "mail" /\ srv.jobs[k].link = srv.inv[i].link
    BY <2>1 DEF InvitesInv, Invites!LinkIsMailed
  <2>. QED
    BY <1>1, <1>2, <2>2
<1>5. CameByLink' /\ MadeOfRows' /\ Invites!OneOpenEach' /\ Invites!UsedIsAccepted'
  BY <1>1, <1>2, RowsKept DEF Invites!Open
<1>. QED
  BY <1>3, <1>4, <1>5 DEF InvitesInv

(* ... to end it otherwise, ...                                            *)
LEMMA EndedStep ==
  ASSUME InvitesInv, NEW j \in Jobs, srv.jobs[j].at # "mail", NEW at \in {"ok", "refused"}, srv' = Invites!Ends(j, at)
  PROVE  InvitesInv'
<1>1. OnlyJobs
  BY EndSteps DEF InvitesInv, InviteFields, InviteRows, InviteCalls, OnlyJobs
<1>. QED
  BY <1>1, JobsStep

(* ... to make an invitation for who has none that is open, ...            *)
LEMMA CreateInvitationStep == ASSUME InvitesInv, Invites!CreateInvitation PROVE InvitesInv'
<1>1. PICK j \in Jobs :
        /\ srv.jobs[j].at = "asked" /\ srv.jobs[j].kind \in {"create", "provision"}
        /\ \/ srv' = Invites!Ends(j, "refused")
           \/ /\ ~Invites!Pending(srv.jobs[j].to) /\ \E i \in Invites!Invs : srv.inv[i].to = Invites!Nobody
              /\ srv' = [srv EXCEPT !.inv[Invites!NewRow] =
                                      [Invites!NoInv EXCEPT !.to = srv.jobs[j].to, !.link = Invites!NewLink],
                                    !.jobs[j] = [@ EXCEPT !.at = "mail", !.to = Invites!Nobody, !.link = Invites!NewLink],
                                    !.made = Invites!NewLink]
  BY DEF Invites!CreateInvitation
<1>2. CASE srv' = Invites!Ends(j, "refused")
  BY <1>1, <1>2, EndedStep
<1>3. CASE srv' # Invites!Ends(j, "refused")
  <2>1. PICK n \in Invites!Invs : n = Invites!NewRow /\ srv.inv[n].to = Invites!Nobody
    BY <1>1, <1>3 DEF Invites!NewRow
  <2>2. srv.jobs[j].to \in Guests /\ Invites!Nobody \notin Guests
    BY <1>1, NamesAssumption DEF InvitesInv, InviteFields, InviteRows, InviteCalls, Invites!Nobody
  <2>3. /\ DOMAIN srv' = DOMAIN srv /\ srv'.reg = srv.reg /\ srv'.account = srv.account /\ srv'.moved = srv.moved
        /\ DOMAIN srv'.inv = Invites!Invs /\ DOMAIN srv'.inv[n] = Row /\ srv'.inv[n].to = srv.jobs[j].to
        /\ srv'.inv[n].link = Invites!NewLink /\ srv'.inv[n].accepted = FALSE /\ srv'.inv[n].revoked = FALSE
        /\ \A i \in Invites!Invs \ {n} : srv'.inv[i] = srv.inv[i]
        /\ DOMAIN srv'.jobs = Jobs /\ DOMAIN srv'.jobs[j] = Job /\ srv'.jobs[j].mine = srv.jobs[j].mine
        /\ srv'.jobs[j].at = "mail" /\ srv'.jobs[j].link = Invites!NewLink
        /\ \A k \in Jobs \ {j} : srv'.jobs[k] = srv.jobs[k]
    <3>1. PICK l : l = Invites!NewLink
      OBVIOUS
    <3>2. PICK x : x = [Invites!NoInv EXCEPT !.to = srv.jobs[j].to, !.link = l]
      OBVIOUS
    <3>3. DOMAIN x = Row /\ x.to = srv.jobs[j].to /\ x.link = l /\ x.accepted = FALSE /\ x.revoked = FALSE
      BY <3>2 DEF Invites!NoInv, Row
    <3>4. srv' = [srv EXCEPT !.inv[n] = x,
                             !.jobs[j] = [@ EXCEPT !.at = "mail", !.to = Invites!Nobody, !.link = l], !.made = l]
      BY <1>1, <1>3, <2>1, <3>1, <3>2
    <3>5. /\ DOMAIN srv' = DOMAIN srv /\ srv'.reg = srv.reg /\ srv'.account = srv.account /\ srv'.moved = srv.moved
          /\ DOMAIN srv'.inv = Invites!Invs /\ srv'.inv[n] = x
          /\ \A i \in Invites!Invs \ {n} : srv'.inv[i] = srv.inv[i]
      BY <3>4 DEF InvitesInv, InviteFields, InviteRows, InviteCalls
    <3>6. /\ DOMAIN srv'.jobs = Jobs /\ \A k \in Jobs \ {j} : srv'.jobs[k] = srv.jobs[k]
          /\ DOMAIN srv'.jobs[j] = Job /\ srv'.jobs[j].mine = srv.jobs[j].mine
          /\ srv'.jobs[j].at = "mail" /\ srv'.jobs[j].link = l
      BY <3>4 DEF InvitesInv, InviteFields, InviteRows, InviteCalls, Job
    <3>. QED
      BY <3>1, <3>3, <3>5, <3>6
  <2>4. InviteFields'
    <3>1. InviteRows'
      BY <2>2, <2>3 DEF InvitesInv, InviteFields, InviteRows
    <3>2. InviteCalls'
      BY <2>2, <2>3 DEF InvitesInv, InviteFields, InviteCalls
    <3>. QED
      BY <2>2, <2>3, <3>1, <3>2 DEF InvitesInv, InviteFields
  <2>5. CameByLink'
    BY <2>1, <2>2, <2>3 DEF InvitesInv, CameByLink
  <2>6. MadeOfRows' /\ Invites!UsedIsAccepted'
    BY <2>1, <2>2, <2>3 DEF InvitesInv, MadeOfRows, Invites!UsedIsAccepted
  <2>7. Invites!LinkIsMailed'
    <3> SUFFICES ASSUME NEW i \in Invites!Invs, Invites!Open(srv'.inv[i]), srv'.inv[i].mail = "due"
                 PROVE  \E k \in Jobs : srv'.jobs[k].at = "mail" /\ srv'.jobs[k].link = srv'.inv[i].link
      BY DEF Invites!LinkIsMailed
    <3>1. CASE i = n
      BY <2>3, <3>1
    <3>2. CASE i # n
      <4>1. PICK k \in Jobs : srv.jobs[k].at = "mail" /\ srv.jobs[k].link = srv.inv[i].link
        BY <2>3, <3>2 DEF InvitesInv, Invites!LinkIsMailed
      <4>. QED
        BY <1>1, <2>3, <3>2, <4>1
    <3>. QED
      BY <3>1, <3>2
  <2>8. Invites!OneOpenEach'
    <3> SUFFICES ASSUME NEW i \in Invites!Invs, NEW k \in Invites!Invs, Invites!Open(srv'.inv[i]),
                        Invites!Open(srv'.inv[k]), srv'.inv[i].to = srv'.inv[k].to
                 PROVE  i = k
      BY DEF Invites!OneOpenEach
    <3>1. \A x \in Invites!Invs \ {n} : Invites!Open(srv'.inv[x]) => Invites!Open(srv.inv[x]) /\ srv'.inv[x].to # srv.jobs[j].to
      BY <1>1, <1>3, <2>3 DEF Invites!Pending
    <3>. QED
      BY <2>3, <3>1 DEF InvitesInv, Invites!OneOpenEach
  <2>. QED
    BY <2>4, <2>5, <2>6, <2>7, <2>8 DEF InvitesInv
<1>. QED
  BY <1>2, <1>3

(* ... to give it a new link, which is mailed next, ...                    *)
LEMMA RefreshStep == ASSUME InvitesInv, Invites!RefreshInvitationToken PROVE InvitesInv'
<1>1. PICK j \in Jobs :
        /\ srv.jobs[j].at = "read"
        /\ srv' = [srv EXCEPT !.inv[srv.jobs[j].inv] = IF Invites!Open(srv.inv[srv.jobs[j].inv])
                                                       THEN [@ EXCEPT !.link = Invites!NewLink, !.mail = "due"] ELSE @,
                              !.jobs[j] = [@ EXCEPT !.at = "mail", !.link = Invites!NewLink], !.made = Invites!NewLink,
                              !.moved = IF Invites!InUse(srv.jobs[j].inv) THEN @ \cup {srv.jobs[j].inv} ELSE @]
  BY DEF Invites!RefreshInvitationToken
<1>2. PICK n \in Invites!Invs : n = srv.jobs[j].inv
  BY <1>1 DEF InvitesInv, InviteFields, InviteRows, InviteCalls
<1>3. /\ DOMAIN srv' = DOMAIN srv /\ srv'.reg = srv.reg /\ srv'.account = srv.account
      /\ srv.moved \subseteq srv'.moved /\ (Invites!InUse(n) => n \in srv'.moved)
      /\ DOMAIN srv'.inv = Invites!Invs /\ \A i \in Invites!Invs \ {n} : srv'.inv[i] = srv.inv[i]
      /\ DOMAIN srv'.jobs = Jobs /\ DOMAIN srv'.jobs[j] = Job /\ srv'.jobs[j].mine = srv.jobs[j].mine
      /\ srv'.jobs[j].at = "mail" /\ srv'.jobs[j].link = Invites!NewLink
      /\ \A k \in Jobs \ {j} : srv'.jobs[k] = srv.jobs[k]
  BY <1>1, <1>2 DEF InvitesInv, InviteFields, InviteRows, InviteCalls, Job
<1>4. /\ DOMAIN srv'.inv[n] = Row /\ srv'.inv[n].to = srv.inv[n].to
      /\ srv'.inv[n].accepted = srv.inv[n].accepted /\ srv'.inv[n].revoked = srv.inv[n].revoked
      /\ Invites!Open(srv.inv[n]) => srv'.inv[n].link = Invites!NewLink
  BY <1>1, <1>2 DEF InvitesInv, InviteFields, InviteRows, InviteCalls, Row
<1>5. InviteFields'
  <2>1. InviteRows'
    BY <1>3, <1>4 DEF InvitesInv, InviteFields, InviteRows
  <2>2. InviteCalls'
    BY <1>3, <1>4 DEF InvitesInv, InviteFields, InviteCalls
  <2>. QED
    BY <1>3, <1>4, <2>1, <2>2 DEF InvitesInv, InviteFields
<1>6. Invites!LinkIsMailed'
  <2> SUFFICES ASSUME NEW i \in Invites!Invs, Invites!Open(srv'.inv[i]), srv'.inv[i].mail = "due"
               PROVE  \E k \in Jobs : srv'.jobs[k].at = "mail" /\ srv'.jobs[k].link = srv'.inv[i].link
    BY DEF Invites!LinkIsMailed
  <2>1. CASE i = n
    BY <1>3, <1>4, <2>1 DEF Invites!Open
  <2>2. CASE i # n
    <3>1. PICK k \in Jobs : srv.jobs[k].at = "mail" /\ srv.jobs[k].link = srv.inv[i].link
      BY <1>3, <2>2 DEF InvitesInv, Invites!LinkIsMailed
    <3>2. k # j
      BY <1>1, <3>1
    <3>3. srv'.jobs[k].at = "mail" /\ srv'.jobs[k].link = srv'.inv[i].link
      BY <1>3, <2>2, <3>1, <3>2
    <3>. QED
      BY <3>3
  <2>. QED
    BY <2>1, <2>2
<1>7. CameByLink' /\ MadeOfRows' /\ Invites!OneOpenEach' /\ Invites!UsedIsAccepted'
  BY <1>3, <1>4, RowsKept DEF Invites!Open
<1>. QED
  BY <1>5, <1>6, <1>7 DEF InvitesInv

(* ... or to close it, ...                                                 *)
LEMMA RevokeStep == ASSUME InvitesInv, Invites!RevokeInvitation PROVE InvitesInv'
<1>1. PICK j \in Jobs : /\ srv.jobs[j].at = "asked" /\ srv.jobs[j].kind = "revoke"
                        /\ srv' = [Invites!Ends(j, "ok") EXCEPT !.inv[srv.jobs[j].inv].revoked = TRUE]
  BY DEF Invites!RevokeInvitation
<1>2. PICK n \in Invites!Invs : n = srv.jobs[j].inv
  BY <1>1 DEF InvitesInv, InviteFields, InviteRows, InviteCalls
<1>3. /\ DOMAIN srv' = DOMAIN srv /\ srv'.reg = srv.reg /\ srv'.account = srv.account /\ srv'.moved = srv.moved
      /\ DOMAIN srv'.jobs = Jobs /\ DOMAIN srv'.jobs[j] = Job /\ srv'.jobs[j].mine \in BOOLEAN
      /\ srv'.jobs[j].at \in {"ok", "refused", "none"} /\ \A k \in Jobs \ {j} : srv'.jobs[k] = srv.jobs[k]
      /\ srv'.inv = [srv.inv EXCEPT ![n].revoked = TRUE]
  <2>1. PICK e : e = Invites!Ends(j, "ok")
    OBVIOUS
  <2>2. /\ DOMAIN e = DOMAIN srv /\ e.inv = srv.inv /\ e.reg = srv.reg /\ e.account = srv.account /\ e.moved = srv.moved
        /\ DOMAIN e.jobs = Jobs /\ DOMAIN e.jobs[j] = Job /\ e.jobs[j].mine \in BOOLEAN
        /\ e.jobs[j].at \in {"ok", "refused", "none"} /\ \A k \in Jobs \ {j} : e.jobs[k] = srv.jobs[k]
    BY <2>1, EndSteps
  <2>3. DOMAIN e = {"inv", "made", "jobs", "reg", "known", "account", "moved"}
    BY <2>2 DEF InvitesInv, InviteFields
  <2>4. srv' = [e EXCEPT !.inv[n].revoked = TRUE]
    BY <1>1, <1>2, <2>1
  <2>5. /\ DOMAIN srv' = DOMAIN e /\ srv'.reg = e.reg /\ srv'.account = e.account /\ srv'.moved = e.moved
        /\ srv'.jobs = e.jobs /\ srv'.inv = [e.inv EXCEPT ![n].revoked = TRUE]
    BY <2>3, <2>4
  <2>. QED
    BY <2>2, <2>5
<1>4. /\ DOMAIN srv'.inv = Invites!Invs
      /\ \A i \in Invites!Invs : /\ DOMAIN srv'.inv[i] = Row /\ srv'.inv[i].to = srv.inv[i].to
                                 /\ srv'.inv[i].link = srv.inv[i].link /\ srv'.inv[i].mail = srv.inv[i].mail
                                 /\ srv'.inv[i].accepted = srv.inv[i].accepted
                                 /\ srv'.inv[i].revoked \in {srv.inv[i].revoked, TRUE}
  BY <1>3 DEF InvitesInv, InviteFields, InviteRows, InviteCalls, Row
<1>5. \A i \in Invites!Invs : Invites!Open(srv'.inv[i]) => Invites!Open(srv.inv[i])
  BY <1>4 DEF Invites!Open, InvitesInv, InviteFields, InviteRows, InviteCalls
<1>6. InviteFields'
  <2>1. InviteRows'
    BY <1>3, <1>4 DEF InvitesInv, InviteFields, InviteRows
  <2>2. InviteCalls'
    BY <1>3, <1>4 DEF InvitesInv, InviteFields, InviteCalls
  <2>. QED
    BY <1>3, <1>4, <2>1, <2>2 DEF InvitesInv, InviteFields
<1>7. Invites!LinkIsMailed'
  <2> SUFFICES ASSUME NEW i \in Invites!Invs, Invites!Open(srv'.inv[i]), srv'.inv[i].mail = "due"
               PROVE  \E k \in Jobs : srv'.jobs[k].at = "mail" /\ srv'.jobs[k].link = srv'.inv[i].link
    BY DEF Invites!LinkIsMailed
  <2>1. PICK k \in Jobs : srv.jobs[k].at = "mail" /\ srv.jobs[k].link = srv.inv[i].link
    <3>1. Invites!Open(srv.inv[i]) /\ srv.inv[i].mail = "due"
      BY <1>4, <1>5
    <3>. QED
      BY <3>1 DEF InvitesInv, Invites!LinkIsMailed
  <2>2. k # j
    BY <1>1, <2>1
  <2>. QED
    BY <1>3, <1>4, <2>1, <2>2
<1>8. CameByLink' /\ MadeOfRows' /\ Invites!OneOpenEach' /\ Invites!UsedIsAccepted'
  BY <1>3, <1>4, <1>5, RowsKept
<1>. QED
  BY <1>6, <1>7, <1>8 DEF InvitesInv

(* ... so no call breaks it, ...                                           *)
LEMMA CallSteps == ASSUME InvitesInv, Invites!Calls PROVE InvitesInv'
<1>1. CASE Invites!GetInvitationByID
  <2>1. PICK j \in Jobs : /\ srv.jobs[j].at = "asked" /\ srv.jobs[j].kind = "resend"
                          /\ srv' = [srv EXCEPT !.jobs[j].at = "read"] \/ srv' = Invites!Ends(j, "refused")
    BY <1>1 DEF Invites!GetInvitationByID
  <2>2. CASE srv' = [srv EXCEPT !.jobs[j].at = "read"]
    <3>1. OnlyJobs
      BY <2>1, <2>2 DEF InvitesInv, InviteFields, InviteRows, InviteCalls, OnlyJobs, Job
    <3>. QED
      BY <3>1, JobsStep
  <2>. QED
    BY <2>1, <2>2, EndedStep
<1>2. CASE Invites!SendInvitation
  <2>1. PICK j \in Jobs, fate \in {"at hand", "lost"} :
          srv.jobs[j].at = "mail" /\ srv' = [Invites!Ends(j, "ok") EXCEPT !.inv = Invites!Mailed(j, fate)]
    BY <1>2 DEF Invites!SendInvitation
  <2>2. PICK e : e = Invites!Ends(j, "ok")
    OBVIOUS
  <2>3. PICK m : m = Invites!Mailed(j, fate)
    OBVIOUS
  <2>. QED
    BY <2>1, <2>2, <2>3, MailSteps
<1>3. CASE Invites!JobFails
  <2>1. PICK j \in Jobs :
          srv' = [Invites!Ends(j, "refused") EXCEPT !.inv = IF srv.jobs[j].at = "mail" THEN Invites!Mailed(j, "lost") ELSE @]
    BY <1>3 DEF Invites!JobFails
  <2>2. CASE srv.jobs[j].at = "mail"
    <3>1. PICK e : e = Invites!Ends(j, "refused")
      OBVIOUS
    <3>2. PICK m : m = Invites!Mailed(j, "lost")
      OBVIOUS
    <3>. QED
      BY <2>1, <2>2, <3>1, <3>2, MailSteps
  <2>3. CASE srv.jobs[j].at # "mail"
    <3>1. OnlyJobs
      BY <2>1, <2>3, EndSteps DEF InvitesInv, InviteFields, InviteRows, InviteCalls, OnlyJobs
    <3>. QED
      BY <3>1, JobsStep
  <2>. QED
    BY <2>2, <2>3
<1>4. CASE Invites!Answers
  <2>0. PICK j \in Jobs : srv.jobs[j].at \in {"ok", "refused"} /\ srv' = [srv EXCEPT !.jobs[j] = Invites!NoJob]
    BY <1>4 DEF Invites!Answers
  <2>1. OnlyJobs
    BY <2>0 DEF InvitesInv, InviteFields, InviteRows, InviteCalls, OnlyJobs, Job, Invites!NoJob
  <2>. QED
    BY <2>1, JobsStep
<1>. QED
  BY <1>1, <1>2, <1>3, <1>4, CreateInvitationStep, RefreshStep, RevokeStep DEF Invites!Calls

(* ... nor does the guest, whose account spends the row it was made of.    *)
LEMMA GuestSteps == ASSUME InvitesInv, Invites!Guest PROVE InvitesInv'
<1>0. InviteFields /\ Invites!Nobody \notin Guests
  BY NamesAssumption DEF InvitesInv, Invites!Nobody
<1>1. CASE Invites!ValidateInvitation \/ Invites!KcCreateUser
  <2>1. /\ DOMAIN srv' = DOMAIN srv /\ srv'.inv = srv.inv /\ srv'.jobs = srv.jobs /\ srv'.account = srv.account
        /\ srv'.moved = srv.moved /\ DOMAIN srv'.reg = {"at", "inv", "link"}
        /\ srv.reg.at \in {"none", "valid"} /\ srv'.reg.at # "made"
        /\ \/ srv'.reg.at = "none"
           \/ srv'.reg.inv = srv.reg.inv /\ srv'.reg.link = srv.reg.link /\ srv.reg.at # "none"
           \/ /\ srv'.reg.inv \in Invites!Invs /\ Invites!Open(srv.inv[srv'.reg.inv])
              /\ srv'.reg.link = srv.inv[srv'.reg.inv].link
    <3>1. CASE Invites!ValidateInvitation
      <4>1. PICK i \in Invites!Invs :
              /\ srv.reg.at = "none" /\ Invites!Open(srv.inv[i])
              /\ srv' = [srv EXCEPT !.reg = [at |-> "valid", inv |-> i, link |-> srv.inv[i].link]]
        BY <3>1 DEF Invites!ValidateInvitation
      <4>2. srv'.reg = [at |-> "valid", inv |-> i, link |-> srv.inv[i].link]
        BY <1>0, <4>1 DEF InviteFields, InviteRows, InviteCalls
      <4>3. /\ DOMAIN srv' = DOMAIN srv /\ srv'.inv = srv.inv /\ srv'.jobs = srv.jobs /\ srv'.account = srv.account
            /\ srv'.moved = srv.moved
        BY <1>0, <4>1 DEF InviteFields, InviteRows, InviteCalls
      <4>. QED
        BY <4>1, <4>2, <4>3
    <3>2. CASE Invites!KcCreateUser
      <4>1. /\ srv.reg.at = "valid"
            /\ \/ srv' = [srv EXCEPT !.reg = Invites!NoReg]
               \/ srv' = [srv EXCEPT !.known = @ \cup {srv.inv[srv.reg.inv].to}, !.reg.at = "known"]
        BY <3>2 DEF Invites!KcCreateUser
      <4>2. /\ DOMAIN srv' = DOMAIN srv /\ srv'.inv = srv.inv /\ srv'.jobs = srv.jobs /\ srv'.account = srv.account
            /\ srv'.moved = srv.moved
        BY <1>0, <4>1 DEF InviteFields, InviteRows, InviteCalls
      <4>3. srv'.reg = Invites!NoReg \/ srv'.reg = [srv.reg EXCEPT !.at = "known"]
        BY <1>0, <4>1 DEF InviteFields, InviteRows, InviteCalls
      <4>4. /\ DOMAIN srv'.reg = {"at", "inv", "link"} /\ srv'.reg.at \in {"none", "known"}
            /\ srv'.reg.at = "none" \/ (srv'.reg.inv = srv.reg.inv /\ srv'.reg.link = srv.reg.link)
        <5>1. CASE srv'.reg = Invites!NoReg
          BY <5>1 DEF Invites!NoReg
        <5>2. CASE srv'.reg = [srv.reg EXCEPT !.at = "known"]
          BY <1>0, <5>2 DEF InviteFields, InviteRows, InviteCalls
        <5>. QED
          BY <4>3, <5>1, <5>2
      <4>. QED
        BY <4>1, <4>2, <4>4
    <3>. QED
      BY <1>1, <3>1, <3>2
  <2>2. InviteFields' /\ MadeOfRows' /\ Invites!OneOpenEach' /\ Invites!LinkIsMailed'
    BY <2>1 DEF InvitesInv, InviteFields, InviteRows, InviteCalls, MadeOfRows, Invites!OneOpenEach, Invites!LinkIsMailed
  <2>3. CameByLink'
    BY <1>0, <2>1 DEF InvitesInv, InviteFields, InviteRows, InviteCalls, CameByLink, Invites!Open
  <2>4. Invites!UsedIsAccepted'
    BY <2>1 DEF InvitesInv, Invites!UsedIsAccepted
  <2>. QED
    BY <2>2, <2>3, <2>4 DEF InvitesInv
<1>2. CASE Invites!ProvisionInvitedAppUser
  <2>1. PICK g \in Guests : g = srv.inv[srv.reg.inv].to
    BY <1>2 DEF Invites!ProvisionInvitedAppUser, InvitesInv, CameByLink
  <2>2. /\ DOMAIN srv' = DOMAIN srv /\ srv'.inv = srv.inv /\ srv'.jobs = srv.jobs /\ srv'.moved = srv.moved
        /\ DOMAIN srv'.reg = {"at", "inv", "link"} /\ srv.reg.at = "known" /\ srv'.reg.at = "made"
        /\ srv'.reg.inv = srv.reg.inv /\ srv'.reg.link = srv.reg.link
        /\ DOMAIN srv'.account = Guests /\ srv'.account[g] = srv.reg.inv
        /\ \A x \in Guests \ {g} : srv'.account[x] = srv.account[x]
    BY <1>0, <1>2, <2>1 DEF Invites!ProvisionInvitedAppUser, InviteFields, InviteRows, InviteCalls
  <2>3. InviteFields' /\ Invites!OneOpenEach' /\ Invites!LinkIsMailed' /\ CameByLink'
    BY <2>2 DEF InvitesInv, InviteFields, InviteRows, InviteCalls, CameByLink, Invites!OneOpenEach, Invites!LinkIsMailed
  <2>4. MadeOfRows'
    BY <2>2 DEF InvitesInv, MadeOfRows, CameByLink
  <2>5. Invites!UsedIsAccepted'
    BY <2>1, <2>2 DEF InvitesInv, Invites!UsedIsAccepted
  <2>. QED
    BY <2>3, <2>4, <2>5 DEF InvitesInv
<1>3. CASE Invites!AcceptInvitation
  <2>1. PICK n \in Invites!Invs : n = srv.reg.inv
    BY <1>3 DEF Invites!AcceptInvitation, InvitesInv, CameByLink
  <2>2. /\ DOMAIN srv' = DOMAIN srv /\ srv'.jobs = srv.jobs /\ srv'.moved = srv.moved /\ srv'.account = srv.account
        /\ DOMAIN srv'.reg = {"at", "inv", "link"} /\ srv'.reg.at = "none" /\ srv.reg.at = "made"
        /\ DOMAIN srv'.inv = Invites!Invs
        /\ \A i \in Invites!Invs \ {n} : srv'.inv[i] = srv.inv[i]
    BY <1>0, <1>3, <2>1 DEF Invites!AcceptInvitation, InviteFields, InviteRows, InviteCalls, Invites!NoReg
  <2>3. /\ DOMAIN srv'.inv[n] = Row /\ srv'.inv[n].to = srv.inv[n].to
        /\ srv'.inv[n].link = srv.inv[n].link /\ srv'.inv[n].mail = srv.inv[n].mail
        /\ srv'.inv[n].accepted = (srv.inv[n].accepted \/ srv.inv[n].link = srv.reg.link)
        /\ srv'.inv[n].revoked = srv.inv[n].revoked
    BY <1>0, <1>3, <2>1 DEF Invites!AcceptInvitation, InviteFields, InviteRows, InviteCalls, Row
  <2>4. \A i \in Invites!Invs : Invites!Open(srv'.inv[i]) => Invites!Open(srv.inv[i])
    <3> SUFFICES ASSUME NEW i \in Invites!Invs, Invites!Open(srv'.inv[i]) PROVE Invites!Open(srv.inv[i])
      OBVIOUS
    <3>1. CASE i = n
      BY <2>3, <3>1 DEF Invites!Open
    <3>2. CASE i # n
      BY <2>2, <3>2
    <3>. QED
      BY <3>1, <3>2
  <2>5. \A i \in Invites!Invs : /\ srv'.inv[i].to = srv.inv[i].to /\ srv'.inv[i].link = srv.inv[i].link
                                /\ srv'.inv[i].mail = srv.inv[i].mail
                                /\ srv.inv[i].accepted => srv'.inv[i].accepted
    BY <2>2, <2>3
  <2>6. InviteFields'
    <3>1. InviteRows'
      BY <1>0, <2>2, <2>3 DEF InviteFields, InviteRows
    <3>2. InviteCalls'
      BY <1>0, <2>2 DEF InviteFields, InviteCalls
    <3>. QED
      BY <1>0, <2>2, <3>1, <3>2 DEF InviteFields
  <2>7. Invites!OneOpenEach' /\ MadeOfRows' /\ CameByLink'
    <3>1. Invites!OneOpenEach'
      BY <2>4, <2>5 DEF InvitesInv, Invites!OneOpenEach
    <3>2. MadeOfRows' /\ CameByLink'
      BY <2>2 DEF InvitesInv, MadeOfRows, CameByLink
    <3>. QED
      BY <3>1, <3>2
  <2>8. Invites!LinkIsMailed'
    BY <2>2, <2>4, <2>5 DEF InvitesInv, Invites!LinkIsMailed
  <2>9. srv'.inv[n].accepted \/ n \in srv'.moved
    BY <2>1, <2>2, <2>3 DEF InvitesInv, CameByLink
  <2>10. Invites!UsedIsAccepted'
    BY <2>1, <2>2, <2>5, <2>9 DEF InvitesInv, MadeOfRows, Invites!UsedIsAccepted
  <2>. QED
    BY <2>6, <2>7, <2>8, <2>10 DEF InvitesInv
<1>4. CASE Invites!RegisterFails
  <2>1. /\ DOMAIN srv' = DOMAIN srv /\ srv'.inv = srv.inv /\ srv'.jobs = srv.jobs /\ srv'.account = srv.account
        /\ srv.moved \subseteq srv'.moved /\ DOMAIN srv'.reg = {"at", "inv", "link"} /\ srv'.reg.at = "none"
        /\ srv.reg.at = "made" => srv.reg.inv \in srv'.moved
    BY <1>0, <1>4 DEF Invites!RegisterFails, Invites!NoReg, InviteFields, InviteRows, InviteCalls
  <2>2. /\ InviteFields' /\ MadeOfRows' /\ Invites!OneOpenEach' /\ Invites!LinkIsMailed' /\ CameByLink'
    BY <2>1 DEF InvitesInv, InviteFields, InviteRows, InviteCalls, MadeOfRows, CameByLink, Invites!OneOpenEach, Invites!LinkIsMailed
  <2>3. Invites!UsedIsAccepted'
    BY <2>1 DEF InvitesInv, Invites!UsedIsAccepted
  <2>. QED
    BY <2>2, <2>3 DEF InvitesInv
<1>. QED
  BY <1>1, <1>2, <1>3, <1>4 DEF Invites!Guest

(* So every step keeps it.                                                 *)
LEMMA InvitesStep == InvitesInv /\ [Invites!Next]_Invites!vars => InvitesInv'
<1> SUFFICES ASSUME InvitesInv, [Invites!Next]_Invites!vars PROVE InvitesInv'
  OBVIOUS
<1>1. CASE UNCHANGED Invites!vars
  BY <1>1 DEF Invites!vars, InvitesInv, InviteFields, InviteRows, InviteCalls, CameByLink, MadeOfRows, Invites!OneOpenEach,
     Invites!LinkIsMailed, Invites!UsedIsAccepted, Invites!Open
<1>. QED
  BY <1>1, PageSteps, CallSteps, GuestSteps DEF Invites!Next

----------------------------------------------------------------------------
(* The pages side by side.                                                 *)

(* Each page has its own.                                                  *)
AccountsInv ==
  /\ page = "storage" => PurchaseInv
  /\ page = "expansion" => ExpansionInv
  /\ page = "orders" => OrdersInv
  /\ page = "users" => UsersInv
  /\ page = "bans" => BansInv
  /\ page = "register" => SlotsKept
  /\ page = "access" => AccessInv
  /\ page = "invites" => InvitesInv

(* Each holds when its page is opened ...                                  *)
LEMMA AccountsInitially == Init => AccountsInv
BY PurchaseInitially, ExpansionInitially, OrdersInitially, UsersInitially, BansInitially, RegInitially,
   AccessInitially, InvitesInitially
   DEF Init, AccountsInv

(* ... and is kept while the page is shown, by whoever takes a step.       *)
LEMMA AccountsStep == AccountsInv /\ [Next]_vars => AccountsInv'
<1> SUFFICES ASSUME AccountsInv, [Next]_vars PROVE AccountsInv'
  OBVIOUS
<1>1. page' = page
  BY DEF Next, vars
<1>0. ASSUME page = "storage" PROVE PurchaseInv'
  <2>1. PurchaseInv /\ [Storage!Next]_Storage!vars
    BY <1>0 DEF AccountsInv, Next, vars, Storage!vars
  <2>. QED
    BY <2>1, PurchaseStep
<1>2. ASSUME page = "expansion" PROVE ExpansionInv'
  <2>1. ExpansionInv /\ [Expansion!Next]_Expansion!vars
    BY <1>2 DEF AccountsInv, Next, vars, Expansion!vars
  <2>. QED
    BY <2>1, ExpansionStep
<1>3. ASSUME page = "orders" PROVE OrdersInv'
  <2>1. OrdersInv /\ [Orders!Next]_Orders!vars
    BY <1>3 DEF AccountsInv, Next, vars, Orders!vars
  <2>. QED
    BY <2>1, OrdersStep
<1>4. ASSUME page = "users" PROVE UsersInv'
  <2>1. UsersInv /\ [Users!Next]_Users!vars
    BY <1>4 DEF AccountsInv, Next, vars, Users!vars
  <2>. QED
    BY <2>1, UsersStep
<1>6. ASSUME page = "bans" PROVE BansInv'
  <2>1. BansInv /\ [Bans!Next]_Bans!vars
    BY <1>6 DEF AccountsInv, Next, vars, Bans!vars
  <2>. QED
    BY <2>1, BansStep
<1>7. ASSUME page = "access" PROVE AccessInv'
  <2>1. AccessInv /\ [Access!Next]_Access!vars
    BY <1>7 DEF AccountsInv, Next, vars, Access!vars
  <2>. QED
    BY <2>1, AccessStep
<1>8. ASSUME page = "invites" PROVE InvitesInv'
  <2>1. InvitesInv /\ [Invites!Next]_Invites!vars
    BY <1>8 DEF AccountsInv, Next, vars, Invites!vars
  <2>. QED
    BY <2>1, InvitesStep
<1>5. ASSUME page = "register" PROVE SlotsKept'
  <2>1. SlotsKept /\ [Invite!Next]_Invite!vars
    BY <1>5 DEF AccountsInv, Next, vars, Invite!vars
  <2>. QED
    BY <2>1, RegStep
<1>. QED
  BY <1>0, <1>1, <1>2, <1>3, <1>4, <1>5, <1>6, <1>7, <1>8 DEF AccountsInv

(* Each of these pages keeps its inductive invariant, for any number of    *)
(* invoices, subscriptions, slots, orders, invitations and links, and of   *)
(* moves between allocations.                                              *)
THEOREM AccountsInvariance == Spec => []AccountsInv
<1>. QED
  BY AccountsInitially, AccountsStep, PTL DEF Spec

(* Who pays for a plan on the server of the own drive gets it, unless room *)
(* was taken meanwhile, a call failed or the price was out of date, and no *)
(* success is shown that the server knows nothing of: for any number of    *)
(* orders and servers, by whichever wallet, with the modal open, closed or *)
(* left for PayPal's page.                                                 *)
THEOREM PurchasesStayServed == Spec => []PurchasesServed
<1>1. AccountsInv => PurchasesServed
  BY DEF AccountsInv, PurchasesServed, PurchaseInv
<1>. QED
  BY <1>1, AccountsInvariance, PTL

(* However many administrators provision, cancel and invoice, and wherever *)
(* the hourly loop stands, capacity is added once, and kept only by a      *)
(* request that was provisioned; and a customer who was told that the      *)
(* balance is paid has a completed request: for any number of invoices.    *)
THEOREM ExpansionsStayHonoured == Spec => []ExpansionsHonoured
<1>1. AccountsInv => ExpansionsHonoured
  BY ExpansionPromises DEF AccountsInv, ExpansionsHonoured
<1>. QED
  BY <1>1, AccountsInvariance, PTL

(* Premium needs a subscription that is in force or was kept on purpose, a *)
(* charge is granted, refunded or still to be granted, and capacity is     *)
(* taken back once for a revert and once for a refund: for any number of   *)
(* subscriptions, and webhooks that come late, twice or out of order.      *)
THEOREM OrdersStayBalanced == Spec => []OrdersBalance
<1>1. AccountsInv => OrdersBalance
  BY OrdersPromises DEF AccountsInv, OrdersBalance
<1>. QED
  BY <1>1, AccountsInvariance, PTL

(* As long as no save was overtaken between its checks and its writes, use *)
(* fits the allocations and these the drives; and as long as no two        *)
(* requests for a restriction overlapped, one restriction is in force.     *)
THEOREM AllocationsStayFit == Spec => []AllocationsFit
<1>1. AccountsInv => AllocationsFit
  BY UsersPromises, BansPromise DEF AccountsInv, AllocationsFit
<1>. QED
  BY <1>1, AccountsInvariance, PTL

(* As long as no registration was raced by an end of its hold, a drive is  *)
(* promised within its room, a slot makes one account, and what a visitor  *)
(* holds is open and held by nobody else, for any number of slots.         *)
THEOREM SlotsStayHonoured == Spec => []SlotsHonoured
<1>1. AccountsInv => SlotsHonoured
  BY RegPromises DEF AccountsInv, SlotsHonoured
<1>. QED
  BY <1>1, AccountsInvariance, PTL

(* However the visitor pays, changes the form, leaves and comes back, and  *)
(* whoever else posts his order, a deposit backs one request, for the plan *)
(* it was paid for; who is told that a request is received has one, unless *)
(* a cap dropped it; and a deposit is not kept without one, but for the    *)
(* reasons the page's module names: for any number of plans and orders.    *)
(* And whoever invites, sends anew, revokes and registers, an address has  *)
(* one open invitation, whose latest link is mailed, and an account spends *)
(* its own: for any number of invitations, links and calls under way.      *)
THEOREM RequestsStayBacked == Spec => []RequestsBacked
<1>1. AccountsInv => RequestsBacked
  BY AccessPromises DEF AccountsInv, RequestsBacked, InvitesInv
<1>. QED
  BY <1>1, AccountsInvariance, PTL
=============================================================================
