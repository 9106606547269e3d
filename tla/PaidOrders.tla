----------------------------- MODULE PaidOrders -----------------------------
(* Premium: subscribing from the page or the app, paying PayPal's            *)
(* subscription or one that this server renews itself, the customer's and    *)
(* the administrators' cancellation, PayPal's webhooks, which come late,     *)
(* twice and out of order, and the renewal loop. Beside it one order that    *)
(* was paid once, its refund and the reverting of what it gave.              *)
EXTENDS Integers, FiniteSets

CONSTANT MaxSubs              \* subscriptions the customer ever starts

Ids == 1..MaxSubs
VARIABLES ui,                 \* the screens of the customer and of an administrator
          srv                 \* subscriptions, the order, PayPal's side, requests on their way
vars == <<ui, srv>>

Live == {"active", "suspended"}
NoSub == [st |-> "none", self |-> FALSE, pp |-> "none", ended |-> FALSE]
Past == [NoSub EXCEPT !.st = "expired", !.ended = TRUE]
NoScreen == [phase |-> "closed", sub |-> 0, order |-> "none"]
Init ==
  \* The customer with an order for storage has had the subscriptions there are.
  /\ \E k \in {"premium", "storage"}, b, a \in BOOLEAN :
       srv = [subs |-> [i \in Ids |-> IF k = "premium" THEN NoSub ELSE Past], hooks |-> {}, premium |-> k = "premium",
              charge |-> FALSE, kept |-> FALSE, renew |-> 0,
              kind |-> k, sandbox |-> b, order |-> "captured", reverted |-> FALSE,
              quota |-> 1, moving |-> "none"]
  /\ \E c \in {"page", "app"} :
       ui = [client |-> c, screen |-> NoScreen, premium |-> FALSE]

LiveSub == {i \in Ids : srv.subs[i].st \in Live}
Fresh == {i \in Ids : srv.subs[i].st = "none"}
NextSub == CHOOSE i \in Fresh : \A j \in Fresh : i <= j
Screen(p) == [ui EXCEPT !.screen.phase = p]
Close == [ui EXCEPT !.screen = NoScreen]

----------------------------------------------------------------------------
(* Subscribing. The page and the app each know what they loaded last.       *)

LoadMe == ui.premium # srv.premium /\ ui' = [ui EXCEPT !.premium = srv.premium] /\ UNCHANGED srv
OpenUpgrade == /\ ~ui.premium /\ ui.screen.phase = "closed"
               /\ ui' = Screen("select") /\ UNCHANGED srv
CloseUpgrade == /\ ui.screen.phase \in {"select", "card", "purchased"} /\ ui' = Close /\ UNCHANGED srv
ChooseCard == /\ ui.client = "page" /\ ui.screen.phase = "select"
              /\ ui' = Screen("card") /\ UNCHANGED srv
BackFromCard == /\ ui.screen.phase = "card" /\ ui' = Screen("select") /\ UNCHANGED srv

\* One live subscription at a time; one that was begun before is given up.
Preflight == LiveSub = {} /\ Fresh # {}
GiveUp(subs) == [i \in Ids |-> IF subs[i].st = "approval_pending"
                               THEN [subs[i] EXCEPT !.st = "expired"] ELSE subs[i]]
CreateSubscription ==
  /\ srv' = [srv EXCEPT !.subs = [GiveUp(@) EXCEPT ![NextSub] =
               [NoSub EXCEPT !.st = "approval_pending", !.pp = "approval"]]]
  /\ ui' = [ui EXCEPT !.screen = [phase |-> "away", sub |-> NextSub, order |-> "none"]]
SubscribePage == /\ ui.client = "page" /\ ui.screen.phase = "select" /\ Preflight /\ CreateSubscription
SubscribeApp == /\ ui.client = "app" /\ ui.screen.phase = "select" /\ Preflight /\ CreateSubscription
ApproveAtPayPal == LET i == ui.screen.sub IN
  /\ ui.screen.phase = "away" /\ srv.subs[i].pp = "approval"
  /\ srv' = [srv EXCEPT !.subs[i].pp = "active", !.hooks = @ \cup {<<"activated", i>>}]
  /\ UNCHANGED ui
\* Back from PayPal the page confirms by itself; the app when in front again or asked.
ReturnApproved == /\ ui.client = "page" /\ ui.screen.phase = "away"
                  /\ ui' = IF srv.subs[ui.screen.sub].pp = "active" THEN Screen("confirming") ELSE Close
                  /\ UNCHANGED srv
ConfirmApp == /\ ui.client = "app" /\ ui.screen.phase = "away"
              /\ ui' = Screen("confirming") /\ UNCHANGED srv
CancelApp == /\ ui.client = "app" /\ ui.screen.phase = "away" /\ ui' = Close /\ UNCHANGED srv

\* A subscription becomes active unless it is, or another one is live.
Activate(i) == IF srv.subs[i].st = "active" \/ LiveSub \ {i} # {} THEN srv
               ELSE [srv EXCEPT !.subs[i].st = "active", !.subs[i].ended = FALSE, !.premium = TRUE]
\* The answer to a confirmation is a success whatever PayPal says of the subscription.
Confirm == LET i == ui.screen.sub IN
  /\ ui.screen.phase = "confirming"
  /\ srv' = IF srv.subs[i].pp = "active" THEN Activate(i) ELSE srv
  /\ ui' = IF srv.subs[i].pp = "active" /\ LiveSub \ {i} # {}
           THEN Screen("away") ELSE Screen("purchased")

\* The page's cards and wallets: an order of this server, captured when the
\* wallet has the customer's consent; the server renews what comes of it.
CreateSelfBilledOrder == /\ ui.client = "page" /\ ui.screen.phase \in {"select", "card"}
                         /\ ui.screen.order = "none" /\ Preflight
                         /\ ui' = [ui EXCEPT !.screen.order = "made"] /\ UNCHANGED srv
CaptureSelfBilled == /\ ui.screen.order = "made" /\ ~srv.charge
                     /\ IF LiveSub = {} THEN srv' = [srv EXCEPT !.charge = TRUE] ELSE UNCHANGED srv
                     /\ ui' = [ui EXCEPT !.screen.order = "none"]
\* A bug: only a subscription that comes to be is looked after.
KeepDuplicate == [srv EXCEPT !.charge = FALSE, !.kept = TRUE]
RefundUngranted == [srv EXCEPT !.charge = FALSE]
ActivateSelfBilled ==
  /\ srv.charge
  /\ IF LiveSub = {} /\ Fresh # {}
     THEN /\ srv' = [srv EXCEPT !.charge = FALSE, !.premium = TRUE,
                       !.subs[NextSub] = [NoSub EXCEPT !.st = "active", !.self = TRUE]]
          /\ ui' = Screen("purchased")
     ELSE srv' = RefundUngranted /\ UNCHANGED ui

----------------------------------------------------------------------------
(* Ending it. A table may be old; the server looks again before it acts, so  *)
(* what a table showed is not kept.                                         *)

\* A bug: the flag of the account is left as it is.
KeepEffects(s) == s
RevokeEffects(s) == [s EXCEPT !.premium = FALSE]
Revoke(i, st) == RevokeEffects([srv EXCEPT !.subs[i].st = st, !.subs[i].ended = st # "suspended"])
PayPalCancelled(s, i) == IF s.subs[i].self THEN s
                         ELSE [s EXCEPT !.subs[i].pp = "cancelled", !.hooks = @ \cup {<<"cancelled", i>>}]
CancelMembership == /\ ui.premium
                    /\ \E i \in LiveSub : srv' = PayPalCancelled(Revoke(i, "cancelled"), i)
                    /\ UNCHANGED ui
CancelOpen(i) == srv.subs[i].st \in Live
CancelAdmin(i) == /\ CancelOpen(i)
                  /\ srv' = PayPalCancelled(Revoke(i, "cancelled"), i) /\ UNCHANGED ui
\* Sandbox only; PayPal is not told.
RevertSubscription(i) == CancelOpen(i) /\ srv.sandbox /\ srv' = Revoke(i, "expired") /\ UNCHANGED ui

\* PayPal repeats an event until it is acknowledged, and orders nothing.
Again(h) == {srv.hooks, srv.hooks \ {h}}
WebhookActivated(i) == /\ <<"activated", i>> \in srv.hooks
                       /\ \E left \in Again(<<"activated", i>>) : srv' = [Activate(i) EXCEPT !.hooks = left]
                       /\ UNCHANGED ui
WebhookEnded(i) == /\ <<"cancelled", i>> \in srv.hooks
                   /\ \E left \in Again(<<"cancelled", i>>), s \in {"cancelled", "suspended"} :
                        srv' = [Revoke(i, s) EXCEPT !.hooks = left]
                   /\ UNCHANGED ui
Reconcile(i) == /\ srv.subs[i].st = "active" /\ srv.subs[i].pp = "cancelled"
                /\ srv' = Revoke(i, "cancelled") /\ UNCHANGED ui

\* The renewal of a due subscription: charged first, recorded then.
Charge(i) == /\ srv.renew = 0 /\ srv.subs[i].self /\ srv.subs[i].st \in Live
             /\ srv' = [srv EXCEPT !.renew = i] /\ UNCHANGED ui
RecordRenewal == /\ srv.renew # 0
                 /\ srv' = [srv EXCEPT !.subs[srv.renew].st = IF LiveSub \ {srv.renew} = {} THEN "active" ELSE @,
                                       !.renew = 0]
                 /\ UNCHANGED ui
\* After the last attempt the subscription ends.
FailRenewal == /\ srv.renew # 0 /\ srv' = [Revoke(srv.renew, "cancelled") EXCEPT !.renew = 0]
               /\ UNCHANGED ui

----------------------------------------------------------------------------
(* The order that was paid once.                                            *)

RefundOpen == srv.order = "captured"
Undo(s) == IF s.kind = "premium" THEN RevokeEffects(s) ELSE [s EXCEPT !.quota = @ - 1]
RefundOrder == /\ RefundOpen /\ srv.moving = "none"
               /\ srv' = [srv EXCEPT !.moving = "refund"] /\ UNCHANGED ui
MarkRefunded == /\ srv.moving = "refund"
                /\ srv' = Undo([srv EXCEPT !.order = "refunded", !.moving = "none"]) /\ UNCHANGED ui
\* A bug: reverted again by the loop what was reverted by hand.
RevertableAgain == srv.order = "captured" /\ srv.sandbox
Revertable == srv.order = "captured" /\ srv.sandbox /\ ~srv.reverted
Reverted == Undo([srv EXCEPT !.reverted = TRUE])
RevertByHand == Revertable /\ srv' = Reverted /\ UNCHANGED ui
AutoRevert == Revertable /\ srv' = Reverted /\ UNCHANGED ui

----------------------------------------------------------------------------
Customer == \/ LoadMe \/ OpenUpgrade \/ CloseUpgrade \/ ChooseCard \/ BackFromCard
            \/ SubscribePage \/ SubscribeApp \/ ApproveAtPayPal \/ ReturnApproved
            \/ ConfirmApp \/ CancelApp \/ Confirm
            \/ CreateSelfBilledOrder \/ CaptureSelfBilled \/ ActivateSelfBilled
            \/ CancelMembership \/ RevertByHand
Administrator == \/ \E i \in Ids : CancelAdmin(i) \/ RevertSubscription(i)
                 \/ RefundOrder \/ MarkRefunded
Background == \/ \E i \in Ids : WebhookActivated(i) \/ WebhookEnded(i) \/ Reconcile(i) \/ Charge(i)
              \/ RecordRenewal \/ FailRenewal \/ AutoRevert
Next == Customer \/ Administrator \/ Background
Spec == Init /\ [][Next]_vars

\* Nobody has premium that no live subscription and no order pays for, in
\* whatever order cancellations, webhooks, renewals and reverts come.
NoFreePremium ==
  srv.premium => LiveSub # {} \/ (srv.kind = "premium" /\ srv.order = "captured" /\ ~srv.reverted)

\* A payment of the page is a subscription or is given back.
ChargeAccounted == ~srv.kept

\* Capacity is taken back once by reverting and once by a refund, never more.
TakenBackOncePerWay ==
  srv.quota >= 1 - Cardinality({w \in {"revert", "refund"} :
                     IF w = "revert" THEN srv.reverted ELSE srv.order = "refunded"})

\* "Terminal status stops a self-billed subscription's renewal loop".
\* The code does not keep this (README, Disagreements).
EndedStaysEnded ==
  \A i \in Ids : srv.subs[i].self /\ srv.subs[i].ended => srv.subs[i].st \notin Live
=============================================================================
