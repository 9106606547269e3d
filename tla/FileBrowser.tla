----------------------------- MODULE FileBrowser -----------------------------
(* Folders and files in the browser of the page and of the app: opening,     *)
(* searching, selecting, dragging, moving and deleting, one item or many at  *)
(* once, while another tab or device does the same. The server answers a     *)
(* request in two statements, the check and the change; a deleted folder     *)
(* takes what is in it with it (ON DELETE CASCADE).                          *)
EXTENDS Integers, FiniteSets

CONSTANTS Folders, Files,            \* what the account may hold
          MaxOther                   \* requests of another tab or device

Items == Folders \cup Files
Root == "root"
Gone == {"new", "gone"}              \* not created yet, deleted
VARIABLES ui,                        \* the browser, of the page or of the app
          srv                        \* the tree and the requests under way
vars == <<ui, srv>>

\* A view just opened: search, selection and dialogs live and die with it.
View(f) == [cwd |-> f, search |-> "", mode |-> FALSE, sel |-> {}, searched |-> FALSE,
            dialog |-> "none", named |-> {}]
NoBulk == [op |-> "none", to |-> "none", won |-> FALSE, hid |-> {}]
Init == \E c \in {"page", "app"}, skip \in BOOLEAN, new \in SUBSET Folders :
  /\ ui = [client |-> c, skip |-> skip /\ c = "page", view |-> View(Root), drag |-> {}, bulk |-> NoBulk,
           shown |-> Root, loads |-> {}, busy |-> FALSE]
  /\ srv = [in |-> [i \in Items |-> IF i \in new THEN "new" ELSE Root], req |-> {}, asked |-> {},
            other |-> 0, raced |-> FALSE, twice |-> FALSE]

----------------------------------------------------------------------------
(* The tree, and the requests the server answers.                           *)

There(f) == IF f = Root THEN TRUE ELSE srv.in[f] \notin Gone
Children(f) == {i \in Items : srv.in[i] = f}
\* Whatever is closed under "is in" and has f in it.
Closed(S) == \A i \in Items : srv.in[i] \in S => i \in S
Subtree(f) == {i \in Items : \A S \in SUBSET Items : f \in S /\ Closed(S) => i \in S}
Above(f) == {g \in Folders : f \in Subtree(g)} \ {f}
Cycle(f, t) == t \in Subtree(f)

Request(op, i, to, by) == [op |-> op, i |-> i, to |-> to, by |-> by, checked |-> FALSE]
Send(op, is, to, by) == [srv EXCEPT !.req = @ \cup {Request(op, i, to, by) : i \in is},
                                    !.asked = IF op = "delete" THEN @ \cup (is \cap Files) ELSE @]
Checked(op, i) == \E q \in srv.req : q.op = op /\ q.checked /\ (op = "delete" => q.i = i)
\* Navigating keeps the view between folders, and makes a new one to or from the root.
\* A bug: what was selected in a folder stays selected in the next.
Keep(v) == v
Forget(v) == [v EXCEPT !.sel = {}, !.searched = FALSE]
Go(u, f) == IF f = u.view.cwd THEN u
            ELSE IF Root \in {f, u.view.cwd} THEN [u EXCEPT !.view = View(f)]
            ELSE [u EXCEPT !.view = [Forget(@) EXCEPT !.cwd = f]]
\* A single move opens the folder it went to; many are counted and end together.
Told(q, ok) == IF q.by = "bulk" THEN [ui EXCEPT !.bulk.won = @ \/ ok]
               ELSE IF q.by = "one" /\ q.op = "move" /\ ok THEN Go(ui, q.to) ELSE ui
Answer(q, ok, s) == /\ srv' = [s EXCEPT !.req = @ \ {q}]
                    /\ ui' = Told(q, ok)
Movable(q) == There(q.i) /\ There(q.to)
\* A bug: only a folder dropped onto itself is refused.
Onto(f, t) == f = t
WouldCycle(f, t) == Cycle(f, t)
\* A bug: a folder is deleted whatever it holds.
AnyFolder(f) == TRUE
Empty(f) == Children(f) = {}
Check(q) == /\ q \in srv.req /\ ~q.checked /\ q.i \in Folders
            /\ IF \/ q.op = "move" /\ Movable(q) /\ ~WouldCycle(q.i, q.to)
                  \/ q.op = "delete" /\ There(q.i) /\ Empty(q.i)
               THEN /\ srv' = [srv EXCEPT !.req = (@ \ {q}) \cup {[q EXCEPT !.checked = TRUE]},
                                          !.twice = @ \/ (q.op = "move" /\ Checked("move", q.i))]
                    /\ UNCHANGED ui
               ELSE Answer(q, FALSE, srv)
Ready(q) == q \in srv.req /\ (q.checked \/ q.i \in Files)
Put(i, f) == [srv EXCEPT !.in[i] = f, !.raced = @ \/ Checked("delete", f)]
Move(q) == /\ Ready(q) /\ q.op = "move"
           /\ IF Movable(q) THEN Answer(q, TRUE, Put(q.i, q.to)) ELSE Answer(q, FALSE, srv)
Remove(is) == [srv EXCEPT !.in = [i \in Items |-> IF i \in is THEN "gone" ELSE @[i]]]
Delete(q) == /\ Ready(q) /\ q.op = "delete"
             /\ IF There(q.i) THEN Answer(q, TRUE, Remove(Subtree(q.i))) ELSE Answer(q, q.i \in Folders, srv)
Other == /\ srv.other < MaxOther
         /\ \E i \in {j \in Items : There(j)} :
              \E s \in {Send("delete", {i}, Root, "other")} \cup
                       {Send("move", {i}, t, "other") : t \in {f \in Folders : There(f)}} :
                srv' = [s EXCEPT !.other = @ + 1]
         /\ UNCHANGED ui

----------------------------------------------------------------------------
(* The page.                                                                *)

Mine == {q \in srv.req : q.by # "other"}
View1 == ui.view
Free == ui.client = "page" /\ View1.dialog = "none" /\ ui.bulk = NoBulk /\ Mine = {}
Listed == IF View1.search # "" THEN {i \in {View1.search} : There(i)}
          ELSE IF There(View1.cwd) THEN Children(View1.cwd) ELSE {}
OpenFolder == /\ Free /\ ui.drag = {}
              /\ \E f \in Listed \cap Folders : ui' = Go(ui, f)
              /\ UNCHANGED srv
\* Back, the breadcrumb, the sidebar.
GoUp == /\ Free /\ ui.drag = {} /\ View1.cwd # Root
        /\ \E f \in {Root} \cup Above(View1.cwd) : ui' = Go(ui, f)
        /\ UNCHANGED srv
\* The search finds in all of the account, and leaves the selection alone.
Search == /\ Free /\ ui.drag = {}
          /\ \E s \in (Items \cup {""}) \ {View1.search} :
               ui' = [ui EXCEPT !.view.search = s, !.view.searched = @ \/ View1.sel # {}]
          /\ UNCHANGED srv
ToggleMode == /\ Free /\ ui.drag = {}
              /\ ui' = [ui EXCEPT !.view = IF @.mode THEN [Forget(@) EXCEPT !.mode = FALSE]
                                           ELSE [@ EXCEPT !.mode = TRUE]]
              /\ UNCHANGED srv
Select == /\ Free /\ ui.drag = {} /\ View1.mode
          /\ \E i \in Listed : ui' = [ui EXCEPT !.view.sel = IF i \in @ THEN @ \ {i} ELSE @ \cup {i}]
          /\ UNCHANGED srv
New == {f \in Folders : srv.in[f] = "new"}
\* The sidebar's "New folder".
CreateFolder == /\ Free /\ ui.drag = {}
                /\ IF There(View1.cwd) THEN \E f \in New : srv' = Put(f, View1.cwd) ELSE UNCHANGED srv
                /\ UNCHANGED ui

\* Deleting asks first, unless the user has asked not to be asked.
AskDelete == /\ Free /\ ui.drag = {} /\ ~View1.mode
             /\ \E i \in Listed :
                  IF ui.skip THEN srv' = Send("delete", {i}, Root, "one") /\ UNCHANGED ui
                  ELSE ui' = [ui EXCEPT !.view.dialog = "one", !.view.named = {i}] /\ UNCHANGED srv
StartBulk(op, to) == [ui EXCEPT !.bulk = [op |-> op, to |-> to, won |-> FALSE, hid |-> {}]]
AskBulkDelete == /\ Free /\ ui.drag = {} /\ View1.sel # {}
                 /\ IF ui.skip
                    THEN srv' = Send("delete", View1.sel, Root, "bulk") /\ ui' = StartBulk("delete", Root)
                    ELSE ui' = [ui EXCEPT !.view.dialog = "delete"] /\ UNCHANGED srv
ConfirmDelete == /\ View1.dialog = "one"
                 /\ srv' = Send("delete", View1.named, Root, "one")
                 /\ ui' = [ui EXCEPT !.view.dialog = "none", !.view.named = {}]
\* The dialog lists the part of the selection that the view has loaded; all of it is deleted.
ConfirmBulkDelete == /\ View1.dialog = "delete" /\ ui.bulk = NoBulk
                     /\ srv' = Send("delete", View1.sel, Root, "bulk")
                     /\ ui' = [StartBulk("delete", Root) EXCEPT !.bulk.hid =
                                   {<<i, View1.searched \/ srv.other > 0>> : i \in View1.sel \ Listed}]
AskBulkMove == /\ Free /\ ui.drag = {} /\ View1.sel # {}
               /\ ui' = [ui EXCEPT !.view.dialog = "move"] /\ UNCHANGED srv
ConfirmBulkMove == /\ View1.dialog = "move" /\ ui.bulk = NoBulk
                   /\ \E t \in {f \in Folders : There(f)} \ (View1.sel \cap Listed) :
                        /\ srv' = Send("move", View1.sel, t, "bulk")
                        /\ ui' = StartBulk("move", t)
\* A dialog can also be left while its requests are under way.
CancelDialog == /\ View1.dialog # "none"
                /\ ui' = [ui EXCEPT !.view.dialog = "none", !.view.named = {}] /\ UNCHANGED srv
EndBulk == /\ ui.bulk # NoBulk /\ Mine = {}
           /\ LET u == [ui EXCEPT !.bulk = NoBulk,
                          !.view = [Forget(@) EXCEPT !.mode = FALSE, !.dialog = "none", !.named = {}]]
              IN ui' = IF ui.bulk.op = "move" /\ ui.bulk.won THEN Go(u, ui.bulk.to) ELSE u
           /\ UNCHANGED srv

\* A drag carries what was selected when it began, also into a folder that
\* opens under it, where that selection is gone.
StartDrag == /\ Free /\ ui.drag = {}
             /\ \E i \in Listed :
                  ui' = [ui EXCEPT !.drag = IF i \in View1.sel THEN View1.sel ELSE {i}]
             /\ UNCHANGED srv
HoverOpen == /\ Free /\ ui.drag # {}
             /\ \E f \in (Listed \cap Folders) : ui.drag # {f} /\ ui' = Go(ui, f)
             /\ UNCHANGED srv
DropTargets == ((Listed \cap Folders) \cup Above(View1.cwd) \cup {View1.cwd}) \cap Folders
Drop == /\ Free /\ ui.drag # {}
        /\ \E t \in DropTargets :
             LET is == ui.drag \ {t} IN
             /\ is # {}
             /\ IF Cardinality(is) = 1
                THEN srv' = Send("move", is, t, "one") /\ ui' = [ui EXCEPT !.drag = {}]
                ELSE srv' = Send("move", is, t, "bulk") /\ ui' = [StartBulk("move", t) EXCEPT !.drag = {}]
EndDrag == ui.drag # {} /\ ui' = [ui EXCEPT !.drag = {}] /\ UNCHANGED srv

----------------------------------------------------------------------------
(* The app: one list, and the folder the breadcrumb names.                  *)

App == ui.client = "app" /\ Mine = {}
\* A list is shown again when any answer comes, whichever folder it was asked for.
Load(f) == ui' = [ui EXCEPT !.view.cwd = f, !.loads = @ \cup {f}, !.busy = TRUE]
ListedInApp == IF ui.busy THEN {} ELSE Children(ui.shown)
EnterFolder == App /\ (\E f \in ListedInApp \cap Folders : Load(f)) /\ UNCHANGED srv
NavigateToCrumb == /\ App /\ View1.cwd # Root
                   /\ \E f \in {Root} \cup Above(View1.cwd) : Load(f)
                   /\ UNCHANGED srv
LoadAnswered == /\ \E f \in ui.loads :
                     ui' = IF There(f) THEN [ui EXCEPT !.loads = @ \ {f}, !.busy = FALSE, !.shown = f]
                           ELSE [ui EXCEPT !.loads = @ \ {f}]
                /\ UNCHANGED srv
DeleteInApp == /\ App
               /\ \E x \in ListedInApp \cap Files : srv' = Send("delete", {x}, Root, "app")
               /\ UNCHANGED ui
\* The new folder goes into the one the breadcrumb names, not the one shown.
CreateInApp == /\ App /\ There(View1.cwd)
               /\ \E f \in New : srv' = Put(f, View1.cwd)
               /\ Load(View1.cwd)

Browse == OpenFolder \/ GoUp \/ Search \/ ToggleMode \/ Select \/ CreateFolder
Change == \/ AskDelete \/ AskBulkDelete \/ ConfirmDelete \/ ConfirmBulkDelete \/ AskBulkMove
          \/ ConfirmBulkMove \/ CancelDialog \/ EndBulk \/ StartDrag \/ HoverOpen \/ Drop \/ EndDrag
InApp == EnterFolder \/ NavigateToCrumb \/ LoadAnswered \/ DeleteInApp \/ CreateInApp
Server == Other \/ \E q \in srv.req : Check(q) \/ Move(q) \/ Delete(q)
Next == Browse \/ Change \/ InApp \/ Server
Spec == Init /\ [][Next]_vars

----------------------------------------------------------------------------
(* Properties.                                                              *)

\* A file nobody asked to delete is gone only when it was moved into a folder
\* between the check that the folder was empty and its deletion.
LostOnlyByRace == \A x \in Files : srv.in[x] = "gone" /\ x \notin srv.asked => srv.raced
\* The folders form a tree, unless two of them were moved between each other's checks.
TreeUnlessRaced == srv.twice \/ \A f \in Folders : There(f) => ~Cycle(f, srv.in[f])
\* Nothing is deleted in bulk that the dialog does not list, unless the user
\* searched while selecting or another tab moved it: a selection ends with the folder.
SelectionIsListed == \A i \in Items : <<i, FALSE>> \notin ui.bulk.hid
\* What BulkDeleteConfirmModal says of its count of unlisted items, that only
\* the media grid deletes what it cannot list.
\* The code does not keep this (README, Disagreements).
DeletedWasListed == ui.bulk.hid = {}
=============================================================================
