-------------------------- MODULE StoragePurchase --------------------------
(* Buying storage: StorageUpgradeModal of the page and of the app, its four  *)
(* ways to pay, the page PayPal returns to, and what the server does with    *)
(* an order. A plan that the chosen server cannot hold is bought as an       *)
(* expansion: a deposit now, the capacity later.                             *)
EXTENDS Integers, FiniteSets

CONSTANTS Rows,     \* the <<server, tier>> on offer
          Home,     \* the row of the customer's own drive
          MaxRoom,  \* room of a row, in the size of the small plan
          MaxOrders, MaxFaults

Tiers == {"nvme", "hdd"}
Sizes == 1..2                     \* the plans, by what they add; 3 is "custom"
VARIABLES ui,                     \* the modal, or the page PayPal returns to
          srv                     \* rooms and orders, as the server has them
vars == <<ui, srv>>

TierOf(r) == r[2]
Orders == 1..MaxOrders
Free == {o \in Orders : srv.orders[o].st = "none"}
NextOrder == CHOOSE o \in Free : TRUE
Fault == srv.faults < MaxFaults
Hit == srv.faults + 1
\* held: whose code carries the order on: the "modal" that began it, its "page" once
\* that modal is closed, and nobody's once the page was left.
NoOrder == [way |-> "none", kind |-> "none", size |-> 0, row |-> Home, st |-> "none", told |-> "none",
            held |-> "left"]
Order(way, kind) == [way |-> way, kind |-> kind, size |-> ui.plan, row |-> ui.row,
                     st |-> "sheet", told |-> "none", held |-> "modal"]

Init == /\ \E c \in {"page", "app"}, p \in BOOLEAN :
             ui = [client |-> c, phase |-> "closed", plan |-> 0, tier |-> "nvme", row |-> Home,
                   listed |-> [r \in Rows |-> 0], busy |-> FALSE, error |-> FALSE,
                   order |-> 0, custom |-> {}, repriced |-> c = "app" /\ p]
        /\ \E q \in 0..MaxRoom :
             srv = [room |-> [r \in Rows |-> IF r = Home THEN q ELSE 1], orders |-> [o \in Orders |-> NoOrder],
                    custom |-> {},
                    taken |-> FALSE, faults |-> 0]

----------------------------------------------------------------------------
(* The offer.                                                               *)

RowFor(t, old) == IF TierOf(old) = t THEN old
                  ELSE IF \E r \in Rows : TierOf(r) = t THEN CHOOSE r \in Rows : TierOf(r) = t
                  ELSE CHOOSE r \in Rows : TRUE
\* A closed modal forgets its choices, the app's but the server.
Closed == [ui EXCEPT !.phase = "closed", !.plan = 0, !.tier = "nvme", !.listed = [r \in Rows |-> 0],
                     !.custom = {}, !.busy = FALSE, !.error = FALSE, !.order = 0,
                     !.row = IF ui.client = "page" THEN Home ELSE @]
Offer == [ui EXCEPT !.listed = srv.room, !.custom = srv.custom]
OpenPage == /\ ui.client = "page" /\ ui.phase = "closed"
            /\ ui' = [Offer EXCEPT !.phase = "select", !.row = RowFor("nvme", Home)]
            /\ UNCHANGED srv
\* The app keeps the server chosen before, and asks which payments the phone can make.
OpenApp == /\ ui.client = "app" /\ ui.phase = "closed"
           /\ ui' = [Offer EXCEPT !.phase = "select"]
           /\ UNCHANGED srv
\* The page's list is fetched again whenever it is stale; the app's only when opened.
Refetch == /\ ui.client = "page" /\ ui.phase \in {"select", "card"} /\ ui' = Offer
           /\ UNCHANGED srv
Choosing == ui.phase = "select" /\ ~ui.busy
SelectRow(r) == /\ ui.client = "page" /\ Choosing
                /\ ui' = [ui EXCEPT !.row = r, !.tier = TierOf(r)] /\ UNCHANGED srv
SelectServerApp(r) == /\ ui.client = "app" /\ Choosing
                      /\ ui' = [ui EXCEPT !.row = r] /\ UNCHANGED srv
SelectTier(t) == /\ ui.client = "page" /\ Choosing
                 /\ ui' = [ui EXCEPT !.tier = t, !.row = RowFor(t, ui.row)] /\ UNCHANGED srv
SelectTierApp(t) == /\ ui.client = "app" /\ Choosing
                    /\ ui' = [ui EXCEPT !.tier = t] /\ UNCHANGED srv
SelectPlan(s) == Choosing /\ ui.client = "page" /\ ui' = [ui EXCEPT !.plan = s] /\ UNCHANGED srv
SelectPlanApp(s) == Choosing /\ ui.client = "app" /\ ui' = [ui EXCEPT !.plan = s] /\ UNCHANGED srv
\* One custom request in progress for a server and tier.
CustomOffered == ui.row \notin ui.custom
SelectCustom == /\ Choosing /\ ui.client = "page" /\ CustomOffered
                /\ ui' = [ui EXCEPT !.plan = 3] /\ UNCHANGED srv
IsCustom == ui.plan = 3
SubmitCustom == /\ Choosing /\ IsCustom /\ CustomOffered
                /\ \/ /\ srv' = [srv EXCEPT !.custom = @ \cup {ui.row}]
                      /\ ui' = [ui EXCEPT !.phase = "custom", !.plan = 0]
                   \/ /\ Fault /\ srv' = [srv EXCEPT !.faults = Hit]
                      /\ ui' = [ui EXCEPT !.error = TRUE]

Mismatch == TierOf(ui.row) # ui.tier
LacksRoom == ui.plan > ui.listed[ui.row]
\* A bug: the app asks for the tier only.
ExpansionByTier == Mismatch
ExpansionPage == Mismatch \/ LacksRoom
ExpansionApp == Mismatch \/ LacksRoom
Kind == IF ui.client = "page" THEN (IF ExpansionPage THEN "deposit" ELSE "purchase")
                              ELSE (IF ExpansionApp THEN "deposit" ELSE "purchase")

CanPay == ui.plan \in Sizes /\ ~ui.busy /\ Free # {}
CanPayApp == CanPay /\ Choosing
ChooseCard == /\ ui.phase = "select" /\ CanPay
              /\ ui' = [ui EXCEPT !.phase = "card", !.error = FALSE] /\ UNCHANGED srv
LeaveCard == ui.phase = "card" /\ ~ui.busy /\ ui' = [ui EXCEPT !.phase = "select"] /\ UNCHANGED srv

----------------------------------------------------------------------------
(* The page's payments. A wallet button works with the offer it was pressed  *)
(* in; the order is made once the wallet has the customer's consent.         *)

Sheets(way) == {o \in Orders : /\ srv.orders[o].way = way /\ srv.orders[o].held = "modal"
                               /\ srv.orders[o].st \in {"sheet", "created", "approved", "capturing"}}
Begin(way) == srv' = [srv EXCEPT !.orders[NextOrder] = Order(way, Kind)]
PayApple == /\ ui.client = "page" /\ ui.phase = "select" /\ CanPay /\ Sheets("apple") = {}
            /\ Begin("apple") /\ UNCHANGED ui
PayGoogle == /\ ui.client = "page" /\ ui.phase = "select" /\ CanPay /\ Begin("google") /\ UNCHANGED ui
PayCard == /\ ui.client = "page" /\ ui.phase = "card" /\ CanPay /\ Sheets("card") = {}
           /\ Begin("card") /\ UNCHANGED ui
PayRedirect == /\ ui.client = "page" /\ ui.phase = "select" /\ CanPay /\ Sheets("paypal") = {}
               /\ Begin("paypal") /\ UNCHANGED ui

St(o, s) == srv' = [srv EXCEPT !.orders[o].st = s]
Void(o) == srv' = [srv EXCEPT !.orders[o] = NoOrder]   \* nothing comes of it any more
InPage(o) == ui.client = "page" /\ srv.orders[o].way \in {"apple", "google", "card"}
\* Code of a page that was left runs no more; a modal that was closed shows nothing.
Runs(o) == srv.orders[o].held # "left"
Tell(o, u) == IF srv.orders[o].held = "modal" THEN u ELSE ui
Hand(who) == [o \in Orders |-> IF srv.orders[o].held = "left" THEN srv.orders[o]
                               ELSE [srv.orders[o] EXCEPT !.held = who]]
\* The server refuses a purchase that the chosen server cannot hold.
Accepts(o) == LET d == srv.orders[o]
              IN d.kind = "deposit" \/ (d.row[1] # "any" /\ srv.room[d.row] >= d.size)
CreateOrder(o) ==
  /\ srv.orders[o].st = "sheet" /\ InPage(o) /\ Runs(o)
  /\ \/ Accepts(o) /\ St(o, "created") /\ ui' = Tell(o, [ui EXCEPT !.error = FALSE])
     \/ ~Accepts(o) /\ Void(o) /\ ui' = Tell(o, [ui EXCEPT !.error = TRUE])
\* The order PayPal's own page pays: this page is left for it, with what other
\* wallets had open.
Leave(o) == /\ srv' = [srv EXCEPT !.orders = [Hand("left") EXCEPT ![o].st = "created"]]
            /\ ui' = [Closed EXCEPT !.phase = "away", !.order = o]
GetApprovalUrl(o) ==
  /\ ui.client = "page" /\ srv.orders[o].st = "sheet" /\ srv.orders[o].way = "paypal" /\ Runs(o)
  /\ \/ Accepts(o) /\ Leave(o)
     \/ ~Accepts(o) /\ Void(o) /\ ui' = Tell(o, [ui EXCEPT !.error = TRUE])
Confirm(o) == /\ srv.orders[o].st = "created" /\ St(o, "approved")
              /\ InPage(o) /\ Runs(o) /\ UNCHANGED ui
Cancel(o) == /\ srv.orders[o].st \in {"sheet", "created"} /\ InPage(o) /\ Runs(o) /\ Void(o)
             /\ UNCHANGED ui

\* The server: an order is looked up among those of its kind, captured, and
\* only then is the drive's room known.
Capture(o, kind) ==
  LET d == srv.orders[o]
  IN IF kind # d.kind THEN {"refused"}
     ELSE IF kind = "purchase" /\ srv.room[Home] < d.size THEN {"paid"} ELSE {"served"}
\* A bug: a failed capture is taken for a successful one.
ShownAlways(s, kind, phase) == IF kind = "deposit" THEN "requested" ELSE "purchased"

\* What the modal shows of an answer.
Shown(s, kind, phase) == IF s # "served" THEN phase
                         ELSE IF phase = "return" THEN "complete"
                         ELSE IF kind = "deposit" THEN "requested" ELSE "purchased"
Faulty == IF Fault THEN {"approved", "paid"} ELSE {}
Answer(o, kind, here) ==
  \E s \in Capture(o, kind) \cup Faulty :
    /\ srv' = [srv EXCEPT !.orders[o].st = s,
                 !.room[Home] = IF s = "served" /\ kind = "purchase" THEN @ - srv.orders[o].size ELSE @,
                 !.faults = IF s \in Capture(o, kind) THEN @ ELSE Hit,
                 !.orders[o].told = IF srv.orders[o].way = "apple" /\ ui.client = "page"
                                    THEN "success" ELSE @]
    /\ ui' = IF here THEN [ui EXCEPT !.busy = FALSE, !.order = IF s = "served" THEN o ELSE @,
                             !.error = s # "served", !.phase = Shown(s, kind, @)]
             ELSE ui
\* handleApprove shows a failure itself: the wallet is told success either way.
Approve(o) == /\ srv.orders[o].st = "approved" /\ InPage(o) /\ Runs(o)
              /\ ui' = Tell(o, [ui EXCEPT !.busy = TRUE, !.error = FALSE]) /\ St(o, "capturing")
InModal(o) == srv.orders[o].held = "modal"
\* The server answers what it was asked, whether or not anybody still listens.
ApproveAnswer(o) ==
  /\ srv.orders[o].st = "capturing" /\ InPage(o)
  /\ \/ Answer(o, srv.orders[o].kind, InModal(o))
     \/ srv.orders[o].way = "card" /\ Answer(o, Kind, InModal(o))

\* PayPal's page comes back to ours, with the order or without.
Return == /\ ui.phase = "away"
          /\ \/ /\ St(ui.order, "approved") /\ ui' = [ui EXCEPT !.phase = "return"]
             \/ /\ Void(ui.order) /\ ui' = [ui EXCEPT !.phase = "failed"]
ReturnCapture == LET o == ui.order
                 IN /\ ui.phase = "return" /\ ~ui.error /\ Answer(o, srv.orders[o].kind, TRUE)
ReturnFails == ui.phase = "return" /\ ui.error /\ ui' = [ui EXCEPT !.phase = "failed"] /\ UNCHANGED srv

Close == ui' = Closed /\ srv' = [srv EXCEPT !.orders = Hand("page")]
Done == ui.phase \in {"purchased", "requested", "custom", "complete", "failed"} /\ Close
ClosePage == ui.client = "page" /\ ui.phase \in {"select", "card"} /\ ~ui.busy /\ Close

----------------------------------------------------------------------------
(* The app's payments: one at a time, the modal is covered meanwhile.       *)

StartApp(way) == /\ ui.client = "app" /\ CanPayApp
                 /\ ui' = [ui EXCEPT !.phase = "processing", !.order = NextOrder]
                 /\ Begin(way)
PayAppleApp == StartApp("apple")
PayGoogleApp == StartApp("google")
PayPalApp == StartApp("paypal")
Mine == ui.order
AppOrder(way, phase, st) == /\ ui.client = "app" /\ ui.phase = phase /\ Mine \in Orders
                            /\ srv.orders[Mine].way = way /\ srv.orders[Mine].st = st
\* One call charges the wallet's token and grants: no server is named in it.
ChargeApple == AppOrder("apple", "processing", "sheet") /\ Answer(Mine, srv.orders[Mine].kind, TRUE)
ChargeGoogle == AppOrder("google", "processing", "sheet") /\ Answer(Mine, srv.orders[Mine].kind, TRUE)
\* A sheet, of a wallet or for the card, is left before it is approved.
GiveUpApp == /\ ui.client = "app" /\ ~ui.error /\ Mine \in Orders /\ srv.orders[Mine].st = "sheet"
             /\ \/ ui.phase = "processing"
                \/ ui.phase = "verifying" /\ srv.orders[Mine].way = "card"
             /\ Void(Mine) /\ ui' = [ui EXCEPT !.phase = "select", !.order = 0]
Failing == /\ ui.client = "app" /\ ui.phase \in {"processing", "verifying"} /\ ui.error
           /\ ui' = [ui EXCEPT !.error = FALSE,
                       !.phase = IF srv.orders[Mine].way = "paypal" THEN "awaiting" ELSE "select"]
           /\ UNCHANGED srv
\* The card sheet makes the order itself, over the amount the app shows.
CardSheet == /\ ui.client = "app" /\ ui.phase = "card"
             /\ Begin("card") /\ Free # {}
             /\ ui' = [ui EXCEPT !.phase = "verifying", !.order = NextOrder]
\* The server captures, and compares the amount afterwards.
CardSuccess == /\ AppOrder("card", "verifying", "sheet") /\ ~ui.error
               /\ IF ui.repriced THEN St(Mine, "paid") /\ ui' = [ui EXCEPT !.error = TRUE]
                                 ELSE Answer(Mine, Kind, TRUE)
OpenPayPal == /\ AppOrder("paypal", "processing", "sheet")
              /\ St(Mine, "created") /\ ui' = [ui EXCEPT !.phase = "awaiting"]
ApproveAtPayPal == /\ \E o \in Orders : /\ srv.orders[o].way = "paypal" /\ ui.client = "app"
                                        /\ srv.orders[o].st = "created" /\ St(o, "approved")
                   /\ UNCHANGED ui
VerifyPayPal == /\ ui.client = "app" /\ ui.phase = "awaiting"
                /\ ui' = [ui EXCEPT !.phase = "verifying"] /\ UNCHANGED srv
VerifyAnswer == /\ ui.client = "app" /\ ui.phase = "verifying" /\ ~ui.error
                /\ srv.orders[Mine].way = "paypal"
                /\ IF srv.orders[Mine].st = "approved" THEN Answer(Mine, Kind, TRUE)
                   ELSE ui' = [ui EXCEPT !.error = TRUE] /\ UNCHANGED srv
CloseApp == /\ ui.client = "app" /\ ui.phase \in {"select", "card", "awaiting"}
            /\ Close

\* Other customers take room on a server.
OthersBuy == /\ \E r \in Rows : srv.room[r] > 0 /\ srv' = [srv EXCEPT !.room[r] = @ - 1, !.taken = TRUE]
             /\ UNCHANGED ui

----------------------------------------------------------------------------
Choose == \/ OpenPage \/ OpenApp \/ Refetch \/ ChooseCard \/ LeaveCard \/ SelectCustom \/ SubmitCustom
          \/ \E r \in Rows : SelectRow(r) \/ SelectServerApp(r)
          \/ \E t \in Tiers : SelectTier(t) \/ SelectTierApp(t)
          \/ \E s \in Sizes : SelectPlan(s) \/ SelectPlanApp(s)
Pay == \/ PayApple \/ PayGoogle \/ PayCard \/ PayRedirect \/ Return \/ ReturnCapture \/ ReturnFails
       \/ \E o \in Orders : \/ CreateOrder(o) \/ GetApprovalUrl(o) \/ Confirm(o) \/ Cancel(o)
                            \/ Approve(o) \/ ApproveAnswer(o)
PayApp == \/ PayAppleApp \/ PayGoogleApp \/ PayPalApp \/ ChargeApple \/ ChargeGoogle \/ GiveUpApp
          \/ Failing \/ CardSheet \/ CardSuccess \/ OpenPayPal \/ ApproveAtPayPal \/ VerifyPayPal
          \/ VerifyAnswer \/ CloseApp
Next == Choose \/ Pay \/ PayApp \/ Done \/ ClosePage \/ OthersBuy
Spec == Init /\ [][Next]_vars

----------------------------------------------------------------------------
\* Who pays for a plan on the server of the own drive gets it, unless room was
\* taken meanwhile (by an order of the own, too), a call failed, or the app's price list is out of date: the
\* server learns about room and price only after the money was taken.
PaidIsServed ==
  \A o \in Orders : srv.orders[o].st = "paid" =>
    srv.faults > 0 \/ srv.taken \/ srv.orders[o].row # Home \/ ui.repriced
    \/ \E p \in Orders : srv.orders[p].st = "served"

\* "Storage added" and "Deposit received" are shown for an order of that kind
\* that the server has carried out, although the offer may have changed from
\* purchase to expansion between the order and its approval; "Payment complete"
\* for one of either kind.
SuccessIsServed ==
  /\ ui.phase \in {"purchased", "requested", "complete"} => srv.orders[ui.order].st = "served"
  /\ ui.phase = "purchased" => srv.orders[ui.order].kind = "purchase"
  /\ ui.phase = "requested" => srv.orders[ui.order].kind = "deposit"

\* "Capture before completing the sheet so the success checkmark means the
\* payment really went through" (PayPalApplePayButton).
\* The code does not keep this (README, Disagreements).
SheetTellsTruth == \A o \in Orders : srv.orders[o].told = "success" => srv.orders[o].st = "served"
=============================================================================
