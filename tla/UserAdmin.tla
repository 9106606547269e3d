------------------------------ MODULE UserAdmin ------------------------------
(* The storage of one user in the administrators' table of users: a form     *)
(* filled from the page's copy of the allocations, and the request that      *)
(* replaces them all, while the user uploads, deletes and buys room, others  *)
(* take room of the same drives, and the form is folded away and back.       *)
EXTENDS Integers

CONSTANTS Disks,                     \* drives the user may have room on
          Capacity,                  \* units of each
          Grain,                     \* units in a hundredth of a GB
          MaxMoves                   \* saves, and requests of the user and of others

VARIABLES ui,                        \* the page's copy, and the form
          srv                        \* allocations, usage, requests under way
vars == <<ui, srv>>

Amounts == 0..Capacity
None == -1                           \* no allocation on the drive, no row of the form
Garbled == -2                        \* a row whose text is no amount
NoRows == [d \in Disks |-> None]
Zero == [d \in Disks |-> 0]
\* The form's save, and the save of a form that was folded away meanwhile.
Saves == {"here", "left"}
\* Requests that look for room on a drive, and take it in a later statement.
Takers == {"upload", "purchase", "others"}
Requests == Saves \cup Takers

RowsOf(rows) == {d \in Disks : rows[d] # None}
Quota(s, d) == IF s.quota[d] = None THEN 0 ELSE s.quota[d]
Left(s, d) == Capacity - Quota(s, d) - s.others[d]
\* Usage is listed with an allocation; without one it is not seen.
Listing(s) == [quota |-> s.quota, used |-> [d \in Disks |-> IF s.quota[d] = None THEN 0 ELSE s.used[d]]]
NoListing == [quota |-> NoRows, used |-> Zero]

Init == \E home \in Disks, n \in Amounts \ {0} :
  /\ srv = [quota |-> [NoRows EXCEPT ![home] = n], used |-> Zero, others |-> Zero,
            at |-> [r \in Requests |-> "none"], want |-> [r \in Saves |-> NoRows],
            had |-> [r \in Saves |-> NoListing], on |-> [t \in Takers |-> home],
            over |-> {}, overtaken |-> FALSE, moves |-> 0]
  /\ ui = [view |-> [quota |-> srv.quota, used |-> Zero], edit |-> "closed",
           rows |-> NoRows, floor |-> Zero, errors |-> {}]

\* What request r does changes what the others under way have read.
Moved(s, r) == [s EXCEPT !.over = @ \cup {x \in Requests \ {r} : s.at[x] \in {"read", "checked"}},
                         !.overtaken = @ \/ r \in s.over, !.at[r] = IF r \in Saves THEN "saved" ELSE "none"]

----------------------------------------------------------------------------
(* The user, and other users of the drives.                                 *)

CanTake(t, d) == CASE t = "upload"   -> srv.quota[d] # None /\ srv.used[d] < srv.quota[d]
                   [] t = "purchase" -> srv.quota[d] # None /\ Left(srv, d) > 0
                   [] t = "others"   -> Left(srv, d) > 0
FindsRoom == \E t \in Takers, d \in Disks :
  /\ srv.moves < MaxMoves /\ srv.at[t] = "none" /\ CanTake(t, d) /\ UNCHANGED ui
  /\ srv' = [srv EXCEPT !.at[t] = "checked", !.on[t] = d, !.over = @ \ {t}, !.moves = @ + 1]
Uploads == /\ srv.at["upload"] = "checked" /\ UNCHANGED ui
           /\ srv' = [Moved(srv, "upload") EXCEPT !.used[srv.on["upload"]] = @ + 1]
\* The purchase asks again which drive is the user's first.
Buys == \E d \in RowsOf(srv.quota) :
  /\ srv.at["purchase"] = "checked" /\ UNCHANGED ui
  /\ srv' = [Moved(srv, "purchase") EXCEPT !.quota[d] = @ + 1,
                                           !.overtaken = @ \/ d # srv.on["purchase"]]
OthersTake == /\ srv.at["others"] = "checked" /\ UNCHANGED ui
              /\ srv' = [Moved(srv, "others") EXCEPT !.others[srv.on["others"]] = @ + 1]
Deletes == \E d \in Disks : /\ srv.moves < MaxMoves /\ srv.used[d] > 0 /\ UNCHANGED ui
                            /\ srv' = [srv EXCEPT !.used[d] = @ - 1, !.moves = @ + 1]
\* A ban deletes all that the user has stored.
AdminDeleteAllFiles == srv.used # Zero /\ srv' = [srv EXCEPT !.used = Zero] /\ UNCHANGED ui

----------------------------------------------------------------------------
(* The storage form.                                                        *)

\* The page fetches its copy again whenever it likes; an open form stays as it is.
Refetch == ui' = [ui EXCEPT !.view = Listing(srv)] /\ UNCHANGED srv
\* A row's text is the amount to two digits of a GB.
Shown(n) == IF n = None THEN None ELSE ((n + Grain \div 2) \div Grain) * Grain
StartEdit == /\ ui.edit = "closed" /\ UNCHANGED srv
             /\ ui' = [ui EXCEPT !.edit = "open", !.rows = [d \in Disks |-> Shown(ui.view.quota[d])],
                                 !.floor = ui.view.used, !.errors = {}]
Closed == [ui EXCEPT !.edit = "closed", !.rows = NoRows, !.floor = Zero, !.errors = {}]
CancelEdit == ui.edit = "open" /\ ui' = Closed /\ UNCHANGED srv
\* Folding the row away forgets the form; its save goes on.
CollapseRow == /\ srv.at["left"] = "none" /\ ui' = Closed
               /\ srv' = [srv EXCEPT !.at["left"] = srv.at["here"], !.at["here"] = "none",
                                     !.want["left"] = srv.want["here"], !.want["here"] = NoRows,
                                     !.had["left"] = srv.had["here"], !.had["here"] = NoListing,
                                     !.over = IF "here" \in @ THEN (@ \ {"here"}) \cup {"left"} ELSE @]
RemoveRow == \E d \in RowsOf(ui.rows) : /\ ui.edit = "open" /\ ui.floor[d] = 0
                                        /\ ui' = [ui EXCEPT !.rows[d] = None] /\ UNCHANGED srv
UpdateRow == \E d \in RowsOf(ui.rows), n \in Amounts \cup {Garbled} :
  /\ ui.edit = "open"
  /\ ui' = [ui EXCEPT !.rows[d] = n, !.errors = @ \ {d}] /\ UNCHANGED srv
\* A tier of a server shown starts at 0, one of another server at what was typed.
AddRow == \E d \in Disks \ RowsOf(ui.rows), n \in Amounts :
  /\ ui.edit = "open"
  /\ ui' = [ui EXCEPT !.rows[d] = n, !.floor[d] = 0] /\ UNCHANGED srv
\* A row holds an amount, which is not less than was used when the form was filled.
RowFits(d) == d \notin ui.errors /\ ui.rows[d] >= ui.floor[d]
Save == /\ ui.edit = "open" /\ srv.at["here"] = "none" /\ srv.moves < MaxMoves
        /\ RowsOf(ui.rows) # {} /\ \A d \in RowsOf(ui.rows) : RowFits(d)
        /\ srv' = [srv EXCEPT !.at["here"] = "sent", !.want["here"] = ui.rows, !.moves = @ + 1]
        /\ UNCHANGED ui

----------------------------------------------------------------------------
(* The request: it reads the user's allocations, ...                        *)

GetUserStorageAllocations == \E r \in Saves :
  /\ srv.at[r] = "sent" /\ UNCHANGED ui
  /\ srv' = [srv EXCEPT !.at[r] = "read", !.had[r] = Listing(srv), !.over = @ \ {r}]
\* A bug: a row taken out is not looked at.
RowsOnly(had, want) == {d \in RowsOf(had.quota) \cap RowsOf(want) : want[d] < had.used[d]}
UsedUp(had, want) == {d \in RowsOf(had.quota) : had.used[d] > 0 /\ want[d] < had.used[d]}
\* Room is asked for where a row is new or grows.
TooMuch(s, had, want) ==
  {d \in RowsOf(want) : IF had.quota[d] = None THEN want[d] > Left(s, d)
                        ELSE want[d] > had.quota[d] /\ want[d] > had.quota[d] + Left(s, d)}
Done(s, r) == [s EXCEPT !.at[r] = "none", !.want[r] = NoRows, !.had[r] = NoListing, !.over = @ \ {r}]
\* ... asks each drive for its room, and answers with the rows that do not fit, ...
CheckAllocations == \E r \in Saves :
  /\ srv.at[r] = "read"
  /\ LET bad == UsedUp(srv.had[r], srv.want[r]) \cup TooMuch(srv, srv.had[r], srv.want[r]) IN
     IF bad = {} THEN srv' = [srv EXCEPT !.at[r] = "checked", !.had[r] = NoListing] /\ UNCHANGED ui
     ELSE /\ srv' = Done(srv, r)
          /\ ui' = IF r = "here" THEN [ui EXCEPT !.errors = bad] ELSE ui
\* ... or replaces all allocations in a transaction, ...
SaveUserDriveAllocations == \E r \in Saves :
  /\ srv.at[r] = "checked" /\ UNCHANGED ui
  /\ srv' = [Moved(srv, r) EXCEPT !.quota = srv.want[r]]
\* ... and answers with the listing, which becomes the page's copy and closes the form.
Answers == \E r \in Saves :
  /\ srv.at[r] = "saved" /\ srv' = Done(srv, r)
  /\ ui' = [(IF r = "here" THEN Closed ELSE ui) EXCEPT !.view = Listing(srv)]
\* A failure is told and changes no form, one after the replacement included.
SaveFails == \E r \in Saves : srv.at[r] # "none" /\ srv' = Done(srv, r) /\ UNCHANGED ui

----------------------------------------------------------------------------
Next == \/ FindsRoom \/ Uploads \/ Buys \/ OthersTake \/ Deletes \/ AdminDeleteAllFiles
        \/ Refetch \/ StartEdit \/ CancelEdit \/ CollapseRow \/ RemoveRow \/ UpdateRow \/ AddRow \/ Save
        \/ GetUserStorageAllocations \/ CheckAllocations \/ SaveUserDriveAllocations \/ Answers \/ SaveFails
Spec == Init /\ [][Next]_vars

----------------------------------------------------------------------------
\* What the user has stored fits what is allocated, and the allocations fit their
\* drives, unless a request wrote on what another had changed since it looked.
UsedFits == srv.overtaken \/ \A d \in Disks : srv.used[d] <= Quota(srv, d)
CapacityKept == srv.overtaken \/ \A d \in Disks : Left(srv, d) >= 0
=============================================================================
