---------------------------- MODULE Registration ----------------------------
(* Registering with a slot of a registration group, or with an invitation:   *)
(* the pages that pick a slot and fill in the form, the app's screen, the    *)
(* holds that lapse after ten minutes, the steps of the request that makes   *)
(* the account, and the administrator who edits the group's slots meanwhile. *)
(* A slot and an invitation are worth one unit of one drive.                 *)
EXTENDS Integers, FiniteSets

CONSTANTS Room,                      \* units of the drive
          MaxSlots,                  \* slots of the group
          MaxFailed                  \* steps of a request that fail

Slots == 1..MaxSlots
VARIABLES ui,                        \* the visitor's page and the administrator's
          srv                        \* group, holds, requests, accounts
vars == <<ui, srv>>

Holders == {"me", "other"}
Sources == Holders \cup {"link"}
\* Requests: this page's, and one of another visitor or of this one's other tab.
NoReq == [at |-> "none", src |-> "none", slot |-> 0]
NoHold == [slot |-> 0, st |-> "none"]
Init == /\ ui \in [at : {"invite", "form"}, flow : {"group"}, edit : {0}]
                  \cup [at : {"form"}, flow : {"link", "app"}, edit : {0}]
        /\ ui.flow = "group" => ui.at = "invite"
        /\ \E n \in 1..Room :
             srv = [group |-> "on", row |-> [s \in Slots |-> IF s <= n THEN "open" ELSE "none"],
                    hold |-> [v \in Holders |-> NoHold],
                    req |-> [r \in 1..2 |-> NoReq], known |-> FALSE,
                    made |-> [s \in Slots |-> 0], used |-> 0, invited |-> "open",
                    failed |-> 0, raced |-> FALSE]

----------------------------------------------------------------------------
(* Slots, holds and the drive.                                              *)

Live(s, v) == s.hold[v].st \in {"active", "lapsed"}
HeldSlots(s) == {s.hold[v].slot : v \in {w \in Holders : Live(s, w)}}
OpenSlots(s) == {x \in Slots : s.row[x] = "open"}
FreeSlots(s) == OpenSlots(s) \ HeldSlots(s)
\* A bug: only slots somebody holds keep their room.
HeldOnly(s) == IF s.group = "on" THEN Cardinality(HeldSlots(s)) ELSE 0
Reserved(s) == IF s.group = "on" THEN Cardinality(OpenSlots(s)) ELSE 0
RoomLeft(s) == Room - s.used - Reserved(s)
Started(s, v) == \E r \in 1..2 : s.req[r].src = v /\ s.req[r].at # "none"
\* A hold that lapsed is open until somebody sweeps it.
Sweep(s) ==
  [s EXCEPT !.hold = [v \in Holders |-> IF @[v].st = "lapsed" THEN NoHold ELSE @[v]],
            !.raced = @ \/ \E v \in Holders : s.hold[v].st = "lapsed" /\ Started(s, v)]
GroupIsOn == srv.group = "on"
Lapse == /\ \E v \in Holders : /\ srv.hold[v].st = "active"
                               /\ srv' = [srv EXCEPT !.hold[v].st = "lapsed"]
         /\ UNCHANGED ui
ToReserve(s) == FreeSlots(s)
Reserve(v) == LET s == Sweep(srv) IN
              {[s EXCEPT !.hold[v] = [slot |-> x, st |-> "active"]] : x \in ToReserve(s)}
Release(s, v) == [s EXCEPT !.hold[v] = IF @.st \in {"active", "lapsed"} THEN NoHold ELSE @,
                           !.raced = @ \/ (Live(s, v) /\ Started(s, v))]
OtherReserves == /\ GroupIsOn /\ ~Live(srv, "other") /\ ~Started(srv, "other")
                 /\ srv' \in Reserve("other") /\ UNCHANGED ui

----------------------------------------------------------------------------
(* The request that makes an account. Every step is a call of its own; the  *)
(* account at the identity provider is never taken back.                    *)

Valid(s, v) == IF v = "link" THEN s.invited = "open"
               ELSE s.hold[v].st = "active" /\ s.group \in {"on", "over"}
               /\ s.row[s.hold[v].slot] = "open"
Start(r, v) == LET s == Sweep(srv) IN
               [s EXCEPT !.req[r] = [at |-> "checked", src |-> v,
                                     slot |-> IF v = "link" THEN 0 ELSE s.hold[v].slot],
                         !.raced = @ \/ Started(s, v)]
\* What the page makes of an answer.
Answer(r, at) == ui' = IF r = 1 /\ ui.at = "waiting" THEN [ui EXCEPT !.at = at] ELSE ui
End(s, r) == [s EXCEPT !.req[r] = NoReq]
\* The provider refuses a name or an address it knows.
KcCreateUser == /\ \E r \in 1..2 :
                     /\ srv.req[r].at = "checked"
                     /\ IF r = 1 /\ srv.known
                        THEN srv' = End(srv, r) /\ Answer(r, "taken")
                        ELSE /\ srv' = [srv EXCEPT !.req[r].at = "known",
                                                   !.known = @ \/ r = 1]
                             /\ UNCHANGED ui
\* Granting a role fails before anything is written here.
RoleFails == /\ srv.failed < MaxFailed
             /\ \E r \in 1..2 : /\ srv.req[r].at = "known"
                                /\ srv' = [End(srv, r) EXCEPT !.failed = @ + 1] /\ Answer(r, "form")
CreateUser == /\ \E r \in 1..2 :
                   /\ srv.req[r].at = "known"
                   /\ IF srv.req[r].src = "link" /\ RoomLeft(srv) < 1
                      THEN srv' = End(srv, r) /\ Answer(r, "form")
                      ELSE /\ srv' = [srv EXCEPT !.req[r].at = "user"]
                           /\ UNCHANGED ui
AllocateUserToDrive ==
  /\ \E r \in 1..2 : /\ srv.req[r].at = "user"
                     /\ srv' = [srv EXCEPT !.req[r].at = "allocated", !.used = @ + 1,
                          !.made = IF srv.req[r].slot = 0 THEN @
                                   ELSE [srv.made EXCEPT ![srv.req[r].slot] = @ + 1]]
  /\ UNCHANGED ui
\* A bug: the slot is not consumed when its hold is.
HoldOnly(s, r) == [s EXCEPT !.hold[s.req[r].src] = [slot |-> 0, st |-> "completed"]]
Consumed(s, r) == [s EXCEPT !.hold[s.req[r].src] = [slot |-> 0, st |-> "completed"], !.row[s.req[r].slot] = "used"]
\* Not consuming the slot, or not logging in, undoes nothing.
CompleteSlotReservation ==
  /\ \E r \in 1..2 :
       /\ srv.req[r].at = "allocated"
       /\ LET v == srv.req[r].src
              mine == v \in Holders /\ Live(srv, v) /\ srv.hold[v].slot = srv.req[r].slot
                      /\ srv.row[srv.req[r].slot] = "open"
              s == IF v = "link" THEN [srv EXCEPT !.invited = "used"]
                   ELSE IF mine THEN Consumed(srv, r) ELSE srv IN
          \/ srv' = End(s, r) /\ Answer(r, "plan")
          \/ /\ srv.failed < MaxFailed
             /\ srv' = [End(s, r) EXCEPT !.failed = @ + 1] /\ Answer(r, "form")
\* The process stops on the way; nothing is taken back.
Stops == /\ srv.failed < MaxFailed
         /\ \E r \in 1..2 :
              /\ srv.req[r].at \notin {"none", "checked"}
              /\ srv' = [End(srv, r) EXCEPT !.failed = @ + 1, !.raced = @ \/ srv.req[r].at = "allocated"]
              /\ Answer(r, "form")
\* A bound: once hands have changed, one account more than there is room.
CanStart(r) == srv.req[r] = NoReq /\ srv.used <= Room
Elsewhere == /\ CanStart(2)
             /\ \E v \in Holders : Valid(srv, v) /\ srv' = Start(2, v)
             /\ UNCHANGED ui

----------------------------------------------------------------------------
(* The visitor's page: pick a slot, fill in the form, get the plans.        *)

PickSlot == /\ ui.at = "invite" /\ GroupIsOn /\ ~Live(srv, "me") /\ ~Started(srv, "me")
            /\ srv' \in Reserve("me")
            /\ ui' = [ui EXCEPT !.at = "form"]
MySource == IF ui.flow = "group" THEN "me" ELSE "link"
\* The form stays usable until the page's own clock says the hold has lapsed.
Submit == /\ ui.at = "form" /\ CanStart(1)
          /\ IF Valid(Sweep(srv), MySource)
             THEN srv' = Start(1, MySource) /\ ui' = [ui EXCEPT !.at = "waiting"]
             ELSE /\ srv' = Sweep(srv)
                  /\ ui' = IF ui.flow = "group" THEN [ui EXCEPT !.at = "expired"] ELSE ui
Tick == /\ ui.at = "form" /\ ui.flow = "group" /\ ~Valid(srv, "me")
        /\ ui' = [ui EXCEPT !.at = IF srv.hold["me"].st = "completed" THEN "completed" ELSE "expired"]
        /\ UNCHANGED srv
ChangeName == ui.at = "taken" /\ ui' = [ui EXCEPT !.at = "form"]
              /\ srv' = [srv EXCEPT !.known = FALSE]
BackToSlots == /\ ui.at \in {"form", "taken"} /\ ui.flow = "group"
               /\ srv' = Release(srv, "me") /\ ui' = [ui EXCEPT !.at = "invite"]
\* The account is there; a plan is bought or not, and the page is left.
LeavePlans == ui.at = "plan" /\ ui' = [ui EXCEPT !.at = "done"] /\ UNCHANGED srv
PickAgain == /\ ui.at = "expired" /\ srv.group # "gone"
             /\ ui' = [ui EXCEPT !.at = "invite"] /\ UNCHANGED srv

----------------------------------------------------------------------------
(* The administrator's pages.                                               *)

Deletable(s) == {x \in OpenSlots(s) : \A v \in Holders : s.hold[v] # [slot |-> x, st |-> "active"]}
DeleteFree(s) == [s EXCEPT !.row = [x \in Slots |-> IF x \in Deletable(s) THEN "none" ELSE @[x]],
                           !.hold = [v \in Holders |-> IF @[v].slot \in Deletable(s) THEN NoHold ELSE @[v]],
                           !.raced = @ \/ \E v \in Holders : s.hold[v].slot \in Deletable(s) /\ Started(s, v)]
\* Each new slot needs room; an invitation that has chosen its drive is not seen.
NewSlots(s, n) == {S \in SUBSET {x \in Slots : s.row[x] = "none"} :
                     /\ Cardinality(S) = n
                     /\ \A x \in S, y \in Slots \ S : s.row[y] = "none" => x < y}
Inserts(s, n) == {[s EXCEPT !.row = [x \in Slots |-> IF x \in new THEN "open" ELSE @[x]],
                            !.made = [x \in Slots |-> IF x \in new THEN 0 ELSE @[x]],
                            !.raced = @ \/ \E r \in 1..2 : s.req[r].src = "link" /\ s.req[r].at = "user"] :
                    new \in {S \in NewSlots(s, n) : n <= RoomLeft(s)}}
Edits == srv.group # "gone"
AddSlots == Edits /\ ui.edit = 0 /\ srv' \in Inserts(srv, 1) /\ UNCHANGED ui
StartEdit == /\ Edits /\ ui.edit = 0 /\ FreeSlots(srv) # {}
             /\ ui' = [ui EXCEPT !.edit = Cardinality(FreeSlots(srv))] /\ UNCHANGED srv
CancelEdit == ui.edit # 0 /\ ui' = [ui EXCEPT !.edit = 0] /\ UNCHANGED srv
\* As many slots as were free when the form was filled replace those free now.
SaveEdit == /\ ui.edit # 0 /\ srv.group # "gone"
            /\ srv' \in Inserts(DeleteFree(srv), ui.edit)
            /\ ui' = [ui EXCEPT !.edit = 0]
DeleteSlots == /\ Edits /\ Deletable(srv) # {} /\ srv' = DeleteFree(srv) /\ UNCHANGED ui
AnyHeld(s) == \E v \in Sources : Started(s, v) \/ (v \in Holders /\ Live(s, v))
\* Deactivated, past its date or deleted, a group keeps no room.
CloseGroup == /\ GroupIsOn
              /\ \E g \in {"off", "over"} :
                   srv' = [srv EXCEPT !.group = g, !.raced = @ \/ AnyHeld(srv)]
              /\ UNCHANGED ui
DeleteGroup == /\ srv.group # "gone"
               /\ srv' = [srv EXCEPT !.group = "gone", !.row = [x \in Slots |-> "none"],
                                     !.hold = [v \in Holders |-> NoHold], !.raced = @ \/ AnyHeld(srv)]
               /\ ui' = [ui EXCEPT !.edit = 0]

----------------------------------------------------------------------------
Next == \/ Lapse \/ OtherReserves \/ KcCreateUser \/ RoleFails \/ CreateUser \/ AllocateUserToDrive
        \/ CompleteSlotReservation \/ Stops \/ Elsewhere
        \/ PickSlot \/ Submit \/ Tick \/ ChangeName \/ BackToSlots \/ LeavePlans \/ PickAgain
        \/ AddSlots \/ StartEdit \/ CancelEdit \/ SaveEdit \/ DeleteSlots \/ CloseGroup \/ DeleteGroup
Spec == Init /\ [][Next]_vars

----------------------------------------------------------------------------
\* The drive never promises more room than it has, unless a hold, its group or a
\* chosen drive changed hands between two steps of a request.
RoomKept == srv.raced \/ srv.used + Reserved(srv) <= Room + Cardinality({r \in 1..2 :
              srv.req[r].at = "allocated" /\ srv.req[r].slot # 0})
\* A slot makes one account, and no account leaves its slot to the next visitor.
OneAccountPerSlot == srv.raced \/ \A s \in Slots :
  srv.made[s] <= 1 /\ (srv.made[s] = 1 /\ srv.row[s] = "open" => \E r \in 1..2 : srv.req[r].slot = s)
\* A slot is held by one visitor, and is there as long as it is held.
HoldKept == \A v \in Holders : srv.hold[v].st = "active" =>
  /\ srv.row[srv.hold[v].slot] = "open" \/ srv.raced
  /\ \A w \in Holders \ {v} : Live(srv, w) => srv.hold[w].slot # srv.hold[v].slot
\* "a failed grant leaves the reservation valid for a retry"
\* The code does not keep this (README, Disagreements).
RetryWorks == ui.at # "taken"
=============================================================================
