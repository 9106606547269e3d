-------------------------- MODULE ExpansionRequest --------------------------
(* The life of a request for more capacity: the customer's orders page, the  *)
(* app's orders screen and the invoice page on one side, the administrators' *)
(* table of requests on the other, the hourly loop behind both, and the      *)
(* handlers of the server between them. A handler that waits for PayPal, or  *)
(* that writes twice, takes two steps.                                       *)
EXTENDS Integers, FiniteSets

CONSTANT MaxInvoices          \* invoices sent for one request

Tokens == 1..MaxInvoices      \* the review links of its invoices, oldest first
VARIABLES ui,                 \* what the customer and the administrators have on the screen
          srv                 \* the request, its invoices, its money, its capacity
vars == <<ui, srv>>

Open == {"opened", "accepted", "approved", "expanded"}
Closed == {"completed", "expired", "refunded", "rejected"}
\* A request for a plan has its deposit when it is opened; a custom one waits for an invoice.
Opened(custom) ==
  [custom |-> custom, st |-> "opened", inv |-> [t \in Tokens |-> "none"], how |-> [t \in Tokens |-> "free"],
   taken |-> ~custom, recorded |-> ~custom, back |-> FALSE, owed |-> TRUE,
   quota |-> 0, ever |-> FALSE, adding |-> 0, settle |-> FALSE, dcap |-> 0,
   loop |-> "idle", cancel |-> FALSE]
NoInvoice == [tok |-> 0, was |-> "none", done |-> "none", order |-> FALSE]
Init == /\ \E c \in BOOLEAN : srv = Opened(c)
        /\ \E p \in {"page", "app"}, l \in BOOLEAN :
             ui = [client |-> p, seen |-> "none", pay |-> "none", order |-> "none", link |-> l,
                   told |-> FALSE, inv |-> NoInvoice, admin |-> "none"]

St(s) == [srv EXCEPT !.st = s]
When(from, s) == IF srv.st \in from THEN St(s) ELSE srv

----------------------------------------------------------------------------
(* The customer's list, and paying the balance from it.                     *)

ListMine == /\ ui.pay = "none" /\ ui.seen # srv.st
            /\ ui' = [ui EXCEPT !.seen = srv.st] /\ UNCHANGED srv
Group(s) == CASE s \in {"invoice_sent", "expanded"} -> "action"
              [] s \in {"opened", "accepted"} -> "pending"
              [] s = "approved" -> "progress"
              [] s = "completed" -> "completed"
              [] OTHER -> "closed"
PayOffered == ui.pay = "none" /\ Group(ui.seen) = "action" /\ ui.seen = "expanded"
OpenPay == /\ PayOffered /\ srv.owed /\ ui' = [ui EXCEPT !.pay = "open"] /\ UNCHANGED srv
\* The link of a reminder opens the payment, once.
AutoOpenPay == /\ PayOffered /\ ui.link
               /\ ui' = [ui EXCEPT !.pay = "open", !.link = FALSE] /\ UNCHANGED srv
Dropped == [ui EXCEPT !.pay = "none", !.order = "none"]
ClosePay == ui.pay = "open" /\ ui' = Dropped /\ UNCHANGED srv
\* The server makes a PayPal order only for a request that awaits its balance.
AwaitsPayment == srv.st = "expanded"
Ordered(next) == IF AwaitsPayment THEN [ui EXCEPT !.pay = next, !.order = "made"] ELSE ui
GetPayUrl == /\ ui.client = "page" /\ ui.pay = "open"
             /\ ui' = Ordered("away") /\ UNCHANGED srv
PayPalApp == /\ ui.client = "app" /\ ui.pay = "open"
             /\ ui' = Ordered("awaiting") /\ UNCHANGED srv
ApproveAtPayPal == /\ ui.pay \in {"away", "awaiting"} /\ ui.order = "made"
                   /\ ui' = [ui EXCEPT !.order = "approved"] /\ UNCHANGED srv
CheckoutReturn == /\ ui.pay = "away"
                  /\ ui' = IF ui.order = "approved" THEN [ui EXCEPT !.pay = "capturing"] ELSE Dropped
                  /\ UNCHANGED srv
\* The app asks when it is in front again, or when told to; leaving forgets the order.
VerifyApp == ui.pay = "awaiting" /\ ui' = [ui EXCEPT !.pay = "capturing"] /\ UNCHANGED srv
CancelApp == ui.pay = "awaiting" /\ ui' = Dropped /\ UNCHANGED srv
ApplePayApp == /\ ui.client = "app" /\ ui.pay = "open"
               /\ ui' = [ui EXCEPT !.pay = "capturing", !.order = "token"] /\ UNCHANGED srv

Failed == IF ui.order \in {"made", "approved"} /\ ui.client = "app"
          THEN [ui EXCEPT !.pay = "awaiting"] ELSE Dropped
CaptureBalance ==
  /\ ui.pay = "capturing" /\ ~srv.settle
  /\ IF AwaitsPayment /\ ui.order \in {"approved", "token"}
     THEN srv' = [srv EXCEPT !.settle = TRUE] /\ ui' = [ui EXCEPT !.pay = "settling"]
     ELSE ui' = Failed /\ UNCHANGED srv
\* The payment counts only if the request still awaits it.
MarkPaid == AwaitsPayment
SettleBalance ==
  /\ srv.settle
  /\ srv' = [When({"expanded"}, "completed") EXCEPT !.settle = FALSE]
  /\ ui' = IF MarkPaid THEN [Dropped EXCEPT !.told = TRUE] ELSE Failed

----------------------------------------------------------------------------
(* The invoice of a custom request.                                         *)

ReviewOffered(t) == srv.inv[t] # "none" /\ srv.how[t] # "unlinked"
OpenInvoice(t) == /\ ui.inv.tok = 0 /\ ReviewOffered(t)
                  /\ ui' = [ui EXCEPT !.inv.tok = t, !.inv.was = srv.inv[t]] /\ UNCHANGED srv
LeaveInvoice == ui.inv.tok # 0 /\ ui' = [ui EXCEPT !.inv = NoInvoice] /\ UNCHANGED srv
\* The page goes by the invoice it loaded; a capture on its way blocks the buttons.
Pending == ui.inv.was = "sent" /\ ui.inv.done = "none" /\ srv.dcap = 0
Awaiting(t) == srv.inv[t] = "sent"
Accepted(t) == [When({"invoice_sent"}, "accepted") EXCEPT !.inv[t] = IF @ = "sent" THEN "accepted" ELSE @]
AcceptInvoice == LET t == ui.inv.tok IN
  /\ Pending /\ srv.how[t] = "free" /\ Awaiting(t)
  /\ srv' = Accepted(t) /\ ui' = [ui EXCEPT !.inv.done = "accepted"]
CreateInvoiceDepositOrder == LET t == ui.inv.tok IN
  /\ Pending /\ srv.how[t] = "deposit" /\ Awaiting(t) /\ ~ui.inv.order
  /\ ui' = [ui EXCEPT !.inv.order = TRUE] /\ UNCHANGED srv
CaptureInvoiceDeposit == LET t == ui.inv.tok IN
  /\ Pending /\ ui.inv.order
  /\ IF Awaiting(t) THEN srv' = [srv EXCEPT !.dcap = t, !.taken = TRUE] ELSE UNCHANGED srv
  /\ ui' = [ui EXCEPT !.inv.order = FALSE]
AcceptWithDeposit == LET t == srv.dcap IN
  /\ t # 0
  /\ \E o \in BOOLEAN :
       srv' = [Accepted(t) EXCEPT !.dcap = 0, !.recorded = @ \/ srv.st = "invoice_sent",
                                  !.owed = IF srv.st = "invoice_sent" THEN o ELSE @]
  /\ ui' = IF ui.inv.tok = t THEN [ui EXCEPT !.inv.done = "accepted"] ELSE ui
Rejected == IF srv.recorded THEN srv ELSE When({"opened", "invoice_sent"}, "rejected")
DeclineInvoice == LET t == ui.inv.tok IN
  /\ Pending /\ Awaiting(t)
  /\ srv' = [Rejected EXCEPT !.inv[t] = "cancelled"]
  /\ ui' = [ui EXCEPT !.inv.done = "declined"]

----------------------------------------------------------------------------
(* The administrators. Several may have the table open: a decision is made   *)
(* by what the table showed.                                                 *)

ListRequests == ui.admin # srv.st /\ ui' = [ui EXCEPT !.admin = srv.st] /\ UNCHANGED srv
CanInvoice == srv.custom /\ ui.admin \in {"opened", "invoice_sent"}
CanApprove == ui.admin = IF srv.custom THEN "accepted" ELSE "opened"
CanProvision == ui.admin = "approved" \/ (~srv.custom /\ ui.admin = "opened" /\ srv.recorded)
Cancellable == ui.admin \notin Closed \cup {"none"}

\* The form lets the administrator ask for a deposit, and leave the review link out.
Forms == {"free", "deposit", "unlinked"}
Superseded == [t \in Tokens |-> IF srv.inv[t] = "sent" THEN "cancelled" ELSE srv.inv[t]]
SendInvoice ==
  /\ CanInvoice /\ srv.st \in {"opened", "invoice_sent"}
  /\ \E t \in Tokens, f \in Forms :
       /\ srv.inv[t] = "none" /\ \A s \in Tokens : srv.inv[s] = "none" => s >= t
       /\ srv' = [srv EXCEPT !.inv = [Superseded EXCEPT ![t] = "sent"], !.st = "invoice_sent",
                             !.how[t] = f]
  /\ UNCHANGED ui
ApproveRequest ==
  /\ CanApprove /\ srv.st = (IF srv.custom THEN "accepted" ELSE "opened")
  /\ srv' = St("approved") /\ UNCHANGED ui
\* Provisioning adds the capacity first, and takes it back when the request has
\* moved on in the meantime.
Provision ==
  /\ CanProvision /\ srv.adding < 2 /\ srv.st \in {"opened", "approved"}
  /\ srv' = [srv EXCEPT !.quota = @ + 1, !.adding = @ + 1] /\ UNCHANGED ui
\* A bug: nothing is taken back.
KeepsQuota(s) == [s EXCEPT !.adding = @ - 1]
RollBack(s) == [s EXCEPT !.adding = @ - 1, !.quota = @ - 1]
FinishProvision ==
  /\ srv.adding > 0
  /\ srv' = IF srv.st \in {"opened", "approved"}
            THEN [St(IF srv.owed THEN "expanded" ELSE "completed") EXCEPT !.adding = @ - 1, !.ever = TRUE]
            ELSE RollBack(srv)
  /\ UNCHANGED ui
CancelRequest ==
  /\ Cancellable /\ srv.st \notin Closed
  /\ \/ /\ ~srv.recorded
        /\ srv' = [Rejected EXCEPT !.inv = Superseded]
     \/ /\ srv.recorded /\ ~srv.back
        /\ srv' = [srv EXCEPT !.back = TRUE, !.cancel = TRUE]
  /\ UNCHANGED ui
RecordCancel == /\ srv.cancel /\ srv' = [When(Open, "refunded") EXCEPT !.cancel = FALSE]
                /\ UNCHANGED ui

----------------------------------------------------------------------------
(* The hourly loop. A deadline may have passed whenever it looks.           *)

Expirable == {"opened", "accepted", "invoice_sent", "approved"}
ExpireOne ==
  /\ srv.loop = "idle" /\ srv.st \in {"opened", "accepted", "approved"}
  /\ \/ ~srv.recorded /\ srv' = When(Expirable, "expired")
     \/ srv.recorded /\ ~srv.back /\ srv' = [srv EXCEPT !.back = TRUE, !.loop = "refund"]
  /\ UNCHANGED ui
RecordExpiry == /\ srv.loop = "refund"
                /\ srv' = [When(Expirable, "expired") EXCEPT !.loop = "idle"] /\ UNCHANGED ui
ExpireInvoice(t) == /\ srv.loop = "idle" /\ srv.inv[t] = "sent"
                    /\ srv' = [When(Expirable, "expired") EXCEPT !.inv[t] = "expired"]
                    /\ UNCHANGED ui
\* The unpaid requests are listed once for the round.
ListUnpaid == /\ srv.loop = "idle" /\ srv.st = "expanded"
              /\ srv' = [srv EXCEPT !.loop = "listed"] /\ UNCHANGED ui
TakeBack == /\ srv.loop = "listed"
            /\ srv' = [srv EXCEPT !.quota = @ - 1, !.loop = "taken"] /\ UNCHANGED ui
RevertExpansion == /\ srv.loop = "taken"
                   /\ srv' = [When({"expanded"}, "expired") EXCEPT !.loop = "idle"] /\ UNCHANGED ui

----------------------------------------------------------------------------
Customer == \/ ListMine \/ OpenPay \/ AutoOpenPay \/ ClosePay
            \/ GetPayUrl \/ PayPalApp \/ ApproveAtPayPal \/ CheckoutReturn
            \/ VerifyApp \/ CancelApp \/ ApplePayApp \/ CaptureBalance \/ SettleBalance
            \/ \E t \in Tokens : OpenInvoice(t)
            \/ LeaveInvoice \/ AcceptInvoice \/ CreateInvoiceDepositOrder
            \/ CaptureInvoiceDeposit \/ AcceptWithDeposit \/ DeclineInvoice
Administrators == \/ ListRequests \/ SendInvoice \/ ApproveRequest \/ Provision
                  \/ FinishProvision \/ CancelRequest \/ RecordCancel
Loop == \/ ExpireOne \/ RecordExpiry \/ \E t \in Tokens : ExpireInvoice(t)
        \/ ListUnpaid \/ TakeBack \/ RevertExpansion
Next == Customer \/ Administrators \/ Loop
Spec == Init /\ [][Next]_vars

\* Capacity is never given twice, and never kept by a request that was closed
\* without having been provisioned: two administrators provisioning at once, a
\* cancellation and the hourly loop in between.
CapacityBacked ==
  (srv.adding = 0 /\ srv.loop = "idle") =>
    /\ srv.quota \in 0..1
    /\ srv.quota = 1 => srv.ever /\ srv.st \in {"expanded", "completed", "refunded"}

\* Whoever has been told that the balance is paid has a completed request.
ReceivedIsPaid == ui.told => srv.st = "completed"

\* What the loop that expires invoices says of itself: nothing was collected.
\* The code does not keep this (README, Disagreements).
NothingCollected ==
  (srv.st = "expired" /\ \E t \in Tokens : srv.inv[t] = "expired") => ~srv.taken
=============================================================================
