---------------------------- MODULE AccessRequest ----------------------------
(* The request for access that a visitor without an account makes, on the    *)
(* page or in the app: a plan, a deposit paid for it through PayPal, and the *)
(* form that is sent once the deposit was captured.  Each request needs a    *)
(* deposit of its own; requests beyond a cap, or of an e-mail address that   *)
(* has one, are dropped without a word.                                     *)
EXTENDS Integers, FiniteSets

CONSTANTS Plans,                     \* plans, with their tier
          MaxDeposits                \* orders of the visitor

VARIABLES ui,                        \* the form
          srv                        \* orders, requests, posts under way
vars == <<ui, srv>>

Orders == 1..MaxDeposits
\* The form sent for each order, and one of somebody else.
Other == 0
Posts == {Other} \cup Orders
NoPlan == "no plan"
NoOrder == [st |-> "none", plan |-> NoPlan, run |-> "none", kept |-> FALSE]
NoPost == [at |-> "none", order |-> 0, plan |-> NoPlan]

Init == /\ \E c \in {"page", "app"} :
             ui = [client |-> c, step |-> "form", card |-> FALSE, plan |-> NoPlan, checked |-> FALSE, order |-> 0]
        /\ \E earlier \in BOOLEAN :
             srv = [orders |-> [o \in Orders |-> NoOrder], posts |-> [p \in Posts |-> NoPost], subs |-> {},
                    earlier |-> earlier, capped |-> FALSE, changed |-> FALSE, failed |-> FALSE]

Free == {o \in Orders : srv.orders[o].st = "none"}
NextOrder == CHOOSE o \in Free : TRUE
Made(way) == [srv EXCEPT !.orders[NextOrder] = [NoOrder EXCEPT !.st = way, !.plan = ui.plan]]
Paying(s) == \E o \in Orders : s.orders[o].st \in {"sheet", "away", "approved"} \/ s.orders[o].run # "none"
Changed == [srv EXCEPT !.changed = @ \/ Paying(srv)]
OnPage == ui.client = "page" /\ ui.step \in {"form", "pending"}
InApp == ui.client = "app"

----------------------------------------------------------------------------
(* The form.                                                                *)

\* The plan can be chosen anew while a wallet's sheet is open and while a deposit
\* is captured, not in the form for a card; in the app until a call is under way.
Picks(p) == ui' = [ui EXCEPT !.plan = p] /\ srv' = IF p = ui.plan THEN srv ELSE Changed
SelectPlan == OnPage /\ ~ui.card /\ \E p \in Plans : Picks(p)
SelectPlanInApp == InApp /\ ui.step \in {"form", "awaiting"} /\ \E p \in Plans : Picks(p)
\* The page asks for a security check, which lapses; the app has none.
CheckShown == ui.client = "page" /\ ui.step \in {"form", "pending", "resume"} /\ ~ui.card
SolveCheck == CheckShown /\ ui' = [ui EXCEPT !.checked = TRUE] /\ UNCHANGED srv
CheckLapses == /\ CheckShown /\ ui.checked /\ ui' = [ui EXCEPT !.checked = FALSE]
               /\ srv' = IF ui.step = "resume" THEN srv ELSE Changed
Ready == ui.plan # NoPlan /\ (ui.client = "page" => ui.checked)
ChooseCard == OnPage /\ ~ui.card /\ ui.step = "form" /\ Ready /\ ui' = [ui EXCEPT !.card = TRUE] /\ UNCHANGED srv
LeaveCard == OnPage /\ ui.card /\ ui.step = "form" /\ ui' = [ui EXCEPT !.card = FALSE] /\ UNCHANGED srv

----------------------------------------------------------------------------
(* The deposit: an order for the plan shown, which the visitor approves at   *)
(* PayPal, in a sheet over the form or on PayPal's own page.                *)

CanPay == ui.step = "form" /\ Ready /\ Free # {}
PayOnPage == ui.client = "page" /\ CanPay
PayInApp == InApp /\ CanPay
HandleCreateOrder == PayOnPage /\ srv' = Made("sheet") /\ UNCHANGED ui
\* A page that is left runs no more: what it has asked for is done all the same.
Abandoned(s) ==
  [s EXCEPT !.changed = @ \/ \E o \in Orders : s.orders[o].run # "none",
            !.orders = [o \in Orders |->
               [s.orders[o] EXCEPT !.st = IF @ = "sheet" THEN "void" ELSE @,
                                   !.run = IF @ \in {"capturing", "alone"} THEN "alone" ELSE "none"]]]
\* PayPal's page takes the place of ours.
HandleGetApprovalUrl ==
  /\ PayOnPage /\ ~ui.card /\ srv' = Abandoned(Made("away"))
  /\ ui' = [ui EXCEPT !.step = "away", !.order = NextOrder, !.checked = FALSE]
HandlePayPal == /\ PayInApp /\ srv' = Made("away")
                /\ ui' = [ui EXCEPT !.step = "awaiting", !.order = NextOrder]
HandleChooseCard == /\ PayInApp /\ srv' = Made("sheet")
                    /\ ui' = [ui EXCEPT !.step = "card", !.order = NextOrder]
ApproveAway == \E o \in Orders : /\ srv.orders[o].st = "away" /\ ui.order = o /\ ui.step \in {"away", "awaiting"}
                                 /\ srv' = [srv EXCEPT !.orders[o].st = "approved"] /\ UNCHANGED ui
Void(o) == srv' = [srv EXCEPT !.orders[o].st = "void"]
\* handleDepositApprove, and handleDepositCaptured in the app.
Starts(o, keep) == /\ srv' = [srv EXCEPT !.orders[o].st = IF @ = "sheet" THEN "approved" ELSE @,
                                         !.orders[o].run = "capturing", !.orders[o].kept = keep]
                   /\ ui' = [ui EXCEPT !.step = "pending", !.order = 0]
HandleDepositApprove == \E o \in Orders : srv.orders[o].st = "sheet" /\ Starts(o, FALSE)
CancelSheet == \E o \in Orders :
  /\ srv.orders[o].st = "sheet" /\ Void(o)
  /\ ui' = IF InApp THEN [ui EXCEPT !.step = "form", !.order = 0] ELSE ui
Blank == [ui EXCEPT !.step = "form", !.plan = NoPlan, !.order = 0]
\* Back from PayPal with the order: the form, which was kept for it, is as it was,
\* and goes on once the check is solved anew; without the form nothing does.
ReturnApproved == /\ ui.step = "away" /\ srv.orders[ui.order].st = "approved"
                  /\ \/ UNCHANGED srv /\ ui' = [ui EXCEPT !.step = "resume", !.plan = srv.orders[ui.order].plan]
                     \/ Void(ui.order) /\ ui' = Blank
ReturnCancelled == ui.step = "away" /\ srv.orders[ui.order].st = "away" /\ Void(ui.order) /\ ui' = Blank
Resume == ui.step = "resume" /\ ui.checked /\ Starts(ui.order, FALSE)
\* In the app: by the button, with the plan shown, or when the app comes to the
\* foreground, with the plan of the time when it began to wait.
HandleVerifyPayPal == ui.step = "awaiting" /\ \E keep \in BOOLEAN : Starts(ui.order, keep)
CancelAwaiting == ui.step = "awaiting" /\ Void(ui.order) /\ ui' = [ui EXCEPT !.step = "form", !.order = 0]
Leave == /\ ui.step \in {"form", "submitted"} \cup (IF InApp THEN {"awaiting"} ELSE {"pending", "resume", "away"})
         /\ srv' = Abandoned(srv) /\ ui' = [ui EXCEPT !.step = "gone"]

----------------------------------------------------------------------------
(* The capture, and the post that follows it.                               *)

Back == [ui EXCEPT !.step = "form"]
Told(o, u) == IF srv.orders[o].run = "capturing" THEN u ELSE ui
RunEnds(o, st) == [srv EXCEPT !.orders[o].st = st, !.orders[o].run = "none"]
\* Only what was approved is captured, at PayPal and then in the row; the client does
\* not ask again for an order that was refused.
CaptureInterestDepositOrder == \E o \in Orders :
  /\ srv.orders[o].run \in {"capturing", "alone"}
  /\ \/ /\ srv.orders[o].st = "approved" /\ UNCHANGED ui
        /\ srv' = [srv EXCEPT !.orders[o].st = "captured",
                               !.orders[o].run = IF @ = "alone" THEN "none" ELSE "captured"]
     \/ srv.orders[o].st = "away" /\ srv' = RunEnds(o, "void") /\ ui' = Told(o, Back)
     \* PayPal fails, the row is not written, or the answer is lost.
     \/ /\ srv.orders[o].st = "approved" /\ ui' = Told(o, Back)
        /\ \E st \in {"approved", "charged", "captured"} : srv' = [RunEnds(o, st) EXCEPT !.failed = TRUE]
\* The form is sent as it is now; without a check it is turned away.
SubmitInterestForm == \E o \in Orders :
  /\ srv.orders[o].run = "captured"
  /\ LET plan == IF srv.orders[o].kept THEN srv.orders[o].plan ELSE ui.plan
     IN IF ui.client = "page" /\ ~ui.checked
        THEN srv' = RunEnds(o, srv.orders[o].st) /\ ui' = Back
        ELSE /\ srv' = [srv EXCEPT !.orders[o].run = "submitting",
                                   !.posts[o] = [at |-> "asked", order |-> o, plan |-> plan]]
             /\ UNCHANGED ui
\* The endpoint is open to everybody, and the number of an order is no secret; what
\* is posted for it too early, or with another plan, is refused.
OtherPosts == \E o \in Orders :
  /\ srv.posts[Other].at = "none" /\ srv.orders[o].st \in {"captured", "used"} /\ UNCHANGED ui
  /\ srv' = [srv EXCEPT !.posts[Other] = [at |-> "asked", order |-> o, plan |-> srv.orders[o].plan]]

Has(s, who) == (who # Other /\ s.earlier) \/ \E x \in s.subs : (x.who = Other) = (who = Other)
At(s, p, at) == [s EXCEPT !.posts[p].at = at]
\* Beyond a cap, and for an address that has a request, the answer is as for success.
CheckCaps == \E p \in Posts :
  /\ srv.posts[p].at = "asked" /\ UNCHANGED ui
  /\ \/ srv' = [At(srv, p, "ok") EXCEPT !.capped = TRUE]
     \/ srv' = At(srv, p, IF Has(srv, p) THEN "ok" ELSE "new")
CheckDeposit == \E p \in Posts :
  /\ srv.posts[p].at = "new" /\ UNCHANGED ui
  /\ LET d == srv.orders[srv.posts[p].order] IN
     srv' = At(srv, p, IF d.st \in {"captured", "used"} /\ d.plan = srv.posts[p].plan THEN "fits" ELSE "refused")
\* A bug: what was read is taken to be so still.
Unchecked(s, o) == TRUE
\* The update finds the row captured and not used yet, or no row.
Consumable(s, o) == s.orders[o].st = "captured"
ConsumeInterestDepositOrder == \E p \in Posts :
  LET o == srv.posts[p].order IN
  /\ srv.posts[p].at = "fits" /\ UNCHANGED ui
  /\ srv' = IF Consumable(srv, o) THEN [At(srv, p, "consumed") EXCEPT !.orders[o].st = "used"]
            ELSE At(srv, p, "refused")
CreateInterestSubmission == \E p \in Posts :
  /\ srv.posts[p].at = "consumed" /\ UNCHANGED ui
  /\ srv' = [At(srv, p, "ok") EXCEPT !.subs = @ \cup {[who |-> p, order |-> srv.posts[p].order, plan |-> srv.posts[p].plan]}]
\* A query fails, or the check has lapsed unseen.
PostFails == \E p \in Posts : /\ srv.posts[p].at \notin {"none", "ok", "refused"} /\ UNCHANGED ui
                              /\ srv' = [At(srv, p, "refused") EXCEPT !.failed = TRUE]
Answers == \E p \in Posts, lost \in BOOLEAN :
  /\ srv.posts[p].at \in {"ok", "refused"}
  /\ IF p # Other /\ srv.orders[p].run = "submitting"
     THEN LET done == [RunEnds(p, srv.orders[p].st) EXCEPT !.posts[p] = NoPost, !.failed = @ \/ lost] IN
          IF ~lost /\ srv.posts[p].at = "ok" THEN srv' = done /\ ui' = [ui EXCEPT !.step = "submitted"]
          ELSE /\ srv' = [done EXCEPT !.changed = @ \/ Paying(done)]
               /\ ui' = [ui EXCEPT !.step = "form", !.checked = FALSE]
     ELSE srv' = [srv EXCEPT !.posts[p] = NoPost] /\ UNCHANGED ui

----------------------------------------------------------------------------
Form == SelectPlan \/ SelectPlanInApp \/ SolveCheck \/ CheckLapses \/ ChooseCard \/ LeaveCard
Deposit == \/ HandleCreateOrder \/ HandleGetApprovalUrl \/ HandlePayPal \/ HandleChooseCard \/ ApproveAway
           \/ HandleDepositApprove \/ CancelSheet \/ ReturnApproved \/ ReturnCancelled \/ Resume
           \/ HandleVerifyPayPal \/ CancelAwaiting \/ Leave
Server == \/ CaptureInterestDepositOrder \/ SubmitInterestForm \/ OtherPosts \/ CheckCaps \/ CheckDeposit
          \/ ConsumeInterestDepositOrder \/ CreateInterestSubmission \/ PostFails \/ Answers
Next == Form \/ Deposit \/ Server
Spec == Init /\ [][Next]_vars

----------------------------------------------------------------------------
\* A deposit backs one request, for the plan it was paid for.
OneRequestPerDeposit ==
  \A x \in srv.subs : /\ srv.orders[x.order].st = "used" /\ srv.orders[x.order].plan = x.plan
                      /\ \A y \in srv.subs : x.order = y.order => x = y
\* "Request received" is shown to whom a request is recorded for, unless a cap dropped it.
ReceivedIsRecorded == ui.step = "submitted" => srv.capped \/ Has(srv, 1)
\* Whose deposit was taken has a request recorded or under way, unless the form was
\* changed, left or lapsed meanwhile, a call failed, a cap dropped the request or
\* somebody else has used the deposit.
TakenByOther(o) == \/ srv.posts[Other].at = "consumed" /\ srv.posts[Other].order = o
                   \/ \E x \in srv.subs : x.who = Other /\ x.order = o
DepositIsServed ==
  \A o \in Orders : srv.orders[o].st \in {"charged", "captured", "used"} =>
    \/ srv.orders[o].run # "none" \/ Has(srv, 1)
    \/ srv.changed \/ srv.failed \/ srv.capped \/ TakenByOther(o)
=============================================================================
