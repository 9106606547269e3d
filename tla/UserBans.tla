------------------------------ MODULE UserBans ------------------------------
(* Bans and suspensions of one user, set and lifted from the tables of users *)
(* and of bans: lists that may be stale, a modal that can be closed while    *)
(* its request is under way, another administrator with pages of his own,    *)
(* and the user's profile call, which ends a suspension that has lapsed.     *)
EXTENDS Integers, FiniteSets

CONSTANT MaxMoves                    \* requests of both administrators

VARIABLES ui,                        \* this administrator's list and modal
          srv                        \* the records in force, requests under way
vars == <<ui, srv>>

Admins == {"me", "other"}
BanKinds == {"suspended", "banned"}
Modals == {"none"} \cup BanKinds

Init == /\ ui = [list |-> "clear", modal |-> "none"]
        /\ srv = [bans |-> {}, made |-> 0, at |-> [a \in Admins |-> "none"],
                  kind |-> [a \in Admins |-> "suspended"], pardons |-> {}, tangled |-> FALSE, moves |-> 0]

Active(s) == IF s.bans = {} THEN "clear" ELSE "restricted"
\* Who has lifted what was in force, and has not made a record of his own yet.
Lifters(s) == {a \in Admins : s.at[a] = "lifted"}

----------------------------------------------------------------------------
(* The tables, and the modal.                                               *)

\* Rows that are being fetched again stay shown, with their buttons.
Refetch == ui' = [ui EXCEPT !.list = Active(srv)] /\ UNCHANGED srv
OpenBan == \E k \in BanKinds : /\ ui.list = "clear" /\ ui.modal = "none"
                               /\ ui' = [ui EXCEPT !.modal = k] /\ UNCHANGED srv
\* Only its submit button waits for the request.
CloseBan == ui.modal # "none" /\ ui' = [ui EXCEPT !.modal = "none"] /\ UNCHANGED srv
Asked(a, k) == [srv EXCEPT !.at[a] = "asked", !.kind[a] = k, !.moves = @ + 1]
HandleBanConfirm == /\ ui.modal # "none" /\ srv.at["me"] = "none" /\ srv.moves < MaxMoves
                    /\ srv' = Asked("me", ui.modal) /\ UNCHANGED ui
OtherAsks == /\ srv.at["other"] = "none" /\ srv.moves < MaxMoves
             /\ \E k \in BanKinds : srv' = Asked("other", k) /\ UNCHANGED ui
\* A row with a restriction has a pardon button, which waits for its request.
ConfirmPardon == /\ ui.list = "restricted" /\ ui.modal = "none" /\ "me" \notin srv.pardons
                 /\ srv.moves < MaxMoves
                 /\ srv' = [srv EXCEPT !.pardons = @ \cup {"me"}, !.moves = @ + 1] /\ UNCHANGED ui
OtherPardons == /\ "other" \notin srv.pardons /\ srv.moves < MaxMoves
                /\ srv' = [srv EXCEPT !.pardons = @ \cup {"other"}, !.moves = @ + 1] /\ UNCHANGED ui

----------------------------------------------------------------------------
(* The requests.  One for a restriction lifts what is in force, and then     *)
(* makes its record, whether or not the lifting succeeded.                  *)

Lifted(a) == [srv EXCEPT !.at[a] = "lifted", !.bans = {}, !.tangled = Lifters(srv) \ {a} # {}]
LiftFailed(a) == [srv EXCEPT !.at[a] = "lifted", !.tangled = @ \/ Lifters(srv) # {} \/ srv.bans # {}]
Lifts == \E a \in Admins : /\ srv.at[a] = "asked" /\ UNCHANGED ui
                           /\ srv' = Lifted(a) \/ srv' = LiftFailed(a)
CreateBan == \E a \in Admins :
  /\ srv.at[a] = "lifted" /\ UNCHANGED ui
  /\ srv' = [srv EXCEPT !.bans = @ \cup {[id |-> srv.made + 1, kind |-> srv.kind[a]]},
                        !.made = @ + 1, !.at[a] = "made"]
\* A ban, but no suspension, deletes the user's files; that it cannot is only logged.
AdminDeleteAllFiles == \E a \in Admins :
  /\ srv.at[a] = "made" /\ srv.kind[a] = "banned" /\ UNCHANGED ui
  /\ srv' = [srv EXCEPT !.at[a] = "purged"]
\* The answer closes whatever modal is open.
Answers == \E a \in Admins :
  /\ srv.at[a] = IF srv.kind[a] = "banned" THEN "purged" ELSE "made"
  /\ srv' = [srv EXCEPT !.at[a] = "none"]
  /\ ui' = IF a = "me" THEN [ui EXCEPT !.modal = "none"] ELSE ui
\* A failure leaves it open: of the checks, of the record (what was in force
\* stays lifted), or of the answer alone.
Fails == \E a \in Admins : /\ srv.at[a] # "none" /\ UNCHANGED ui
                           /\ srv' = [srv EXCEPT !.at[a] = "none"]
PardonAllActiveBans == \E a \in srv.pardons :
  /\ srv' = [srv EXCEPT !.bans = {}, !.pardons = @ \ {a}, !.tangled = @ /\ Lifters(srv) # {}]
  /\ UNCHANGED ui
PardonFails == \E a \in srv.pardons : srv' = [srv EXCEPT !.pardons = @ \ {a}] /\ UNCHANGED ui
\* The user's own profile call ends what has lapsed, and nothing else.
AutoPardonExpiredSuspension ==
  \E lapsed \in SUBSET {b \in srv.bans : b.kind = "suspended"} :
     lapsed # {} /\ srv' = [srv EXCEPT !.bans = @ \ lapsed] /\ UNCHANGED ui

----------------------------------------------------------------------------
Next == \/ Refetch \/ OpenBan \/ CloseBan \/ HandleBanConfirm \/ OtherAsks \/ ConfirmPardon \/ OtherPardons
        \/ Lifts \/ CreateBan \/ AdminDeleteAllFiles \/ Answers \/ Fails \/ PardonAllActiveBans \/ PardonFails
        \/ AutoPardonExpiredSuspension
Spec == Init /\ [][Next]_vars

----------------------------------------------------------------------------
\* One restriction is in force at a time, unless two requests for one overlapped
\* or what was in force could not be lifted.
OneBanInForce == srv.tangled \/ Cardinality(srv.bans) <= 1
=============================================================================
