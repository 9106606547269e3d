---------------------------- MODULE MediaBrowser ----------------------------
(* A media collection and its subcollection in the page's grid and the app's *)
(* gallery: selections built by tapping, by filters the server evaluates and *)
(* by "select all", and actions on a whole selection, which run in batches   *)
(* while the user goes on. A file lives in one of the two folders; a pointer *)
(* shows it in the subcollection as well. What a filter lets through is any  *)
(* part of a folder; marks (hidden, favourite) change nothing else.          *)
EXTENDS Integers, FiniteSets

CONSTANTS Media,                     \* files of the collection
          Concurrency,               \* requests of a batch
          MaxOther                   \* changes by another device, failed requests

Places == {"coll", "sub"}
VARIABLES ui,                        \* the grid or the gallery
          srv                        \* the files
vars == <<ui, srv>>

NoAsk == [how |-> "none"]
NoRun == [op |-> "none"]
\* picked: what was selected in the folder shown; late: by an answer for the other.
Grid == [mode |-> FALSE, sel |-> {}, picked |-> {}, late |-> FALSE, dialog |-> FALSE]
Init == \E c \in {"page", "app"}, p \in SUBSET Media :
  /\ srv = [home |-> [f \in Media |-> "coll"], copied |-> p, other |-> 0]
  /\ ui = [client |-> c, cwd |-> "coll", seen |-> {"coll"}, grid |-> Grid,
           list |-> IF c = "app" THEN Media ELSE {}, ask |-> NoAsk, run |-> NoRun]

----------------------------------------------------------------------------
(* The files of a folder, and what the server does to one.                  *)

Exists(f) == srv.home[f] \in Places
Scope(d) == {f \in Media : srv.home[f] = d \/ (d = "sub" /\ Exists(f) /\ f \in srv.copied)}
Do(op, f) == CASE op = "delete" -> [srv EXCEPT !.home[f] = "gone", !.copied = @ \ {f}]
               [] op = "mark"   -> srv
               [] op = "copy"   -> [srv EXCEPT !.copied = @ \cup {f}]
               [] op = "remove" -> [srv EXCEPT !.copied = @ \ {f}]
               [] op = "move"   -> [srv EXCEPT !.home[f] = ui.run.to]
Refused(op, f) == op # "remove" /\ ~Exists(f)
Other == /\ srv.other < MaxOther
         /\ \E f \in Media : srv' = [Do("delete", f) EXCEPT !.other = @ + 1]
         /\ UNCHANGED ui

----------------------------------------------------------------------------
(* The page.                                                                *)

Page == ui.client = "page"
G == ui.grid
\* A bug: the selection stays when another folder is shown.
KeepSelection(g) == [g EXCEPT !.picked = {}, !.late = FALSE]
ClearSelection(g) == [g EXCEPT !.sel = {}, !.picked = {}, !.late = FALSE]
Orphan(r) == IF r \in {NoAsk, NoRun} THEN r ELSE [r EXCEPT !.mine = FALSE]
\* A folder seen before is shown by the same grid; for another the page shows
\* "Loading" first, and what the old grid waits for no longer reaches a grid.
OpenFolder == /\ Page
              /\ \E d \in Places \ {ui.cwd} :
                   ui' = IF d \in ui.seen THEN [ui EXCEPT !.cwd = d, !.grid = ClearSelection(@)]
                         ELSE [ui EXCEPT !.cwd = d, !.seen = @ \cup {d}, !.grid = Grid,
                                         !.ask = Orphan(@), !.run = Orphan(@)]
              /\ UNCHANGED srv
ToggleMode == /\ Page /\ ~G.dialog
              /\ ui' = [ui EXCEPT !.grid = IF @.mode THEN [ClearSelection(@) EXCEPT !.mode = FALSE]
                                           ELSE [@ EXCEPT !.mode = TRUE]]
              /\ UNCHANGED srv
Tapped(g, f) == [g EXCEPT !.sel = IF f \in @ THEN @ \ {f} ELSE @ \cup {f},
                          !.picked = IF f \in G.sel THEN @ \ {f} ELSE @ \cup {f}]
ToggleSelect == /\ Page /\ G.mode /\ ~G.dialog
                /\ \E f \in Scope(ui.cwd) : ui' = [ui EXCEPT !.grid = Tapped(@, f)]
                /\ UNCHANGED srv
Ask(how, s) == [ui EXCEPT !.ask = [how |-> how, dir |-> ui.cwd, filter |-> s, mine |-> TRUE]]
\* "Select matching" adds to the selection what the server finds.
SelectByFilter == /\ Page /\ G.mode /\ ~G.dialog /\ ui.ask = NoAsk
                  /\ \E s \in SUBSET Media \ {{}} : ui' = Ask("add", s)
                  /\ UNCHANGED srv
\* "Select all" takes all the view's filter lets through.
SelectAll == /\ Page /\ G.mode /\ ~G.dialog /\ ui.ask = NoAsk
             /\ \E s \in SUBSET Media : s \cap Scope(ui.cwd) # {} /\ ui' = Ask("all", s)
             /\ UNCHANGED srv
\* The answer, or its failure, comes whatever the grid shows by then.
SelectAnswered ==
  /\ ui.ask # NoAsk
  /\ LET got == Scope(ui.ask.dir) \cap ui.ask.filter
         here == ui.ask.dir = ui.cwd IN
     \/ ui' = [ui EXCEPT !.ask = NoAsk]
     \/ /\ ui.ask.mine
        /\ ui' = [ui EXCEPT !.ask = NoAsk,
                    !.grid.sel = IF ui.ask.how = "all" THEN got ELSE @ \cup got,
                    !.grid.picked = IF ui.ask.how = "all" THEN IF here THEN got ELSE {}
                                    ELSE IF here THEN @ \cup got ELSE @,
                    !.grid.late = @ \/ (got # {} /\ ~here)]
  /\ UNCHANGED srv
Start(op, all, to) == [op |-> op, all |-> all, left |-> all, out |-> {}, failed |-> FALSE,
                       to |-> to, mine |-> TRUE]
Ops == {"mark", IF ui.cwd = "sub" THEN "remove" ELSE "copy"}
\* The toolbar stays usable while it works; one run and one question at a time here.
RunOnSelection == /\ Page /\ G.mode /\ ~G.dialog /\ ui.run = NoRun /\ G.sel # {}
                  /\ \E op \in Ops : ui' = [ui EXCEPT !.run = Start(op, G.sel, "none")]
                  /\ UNCHANGED srv
AskDelete == /\ Page /\ G.mode /\ ~G.dialog /\ G.sel # {}
             /\ ui' = [ui EXCEPT !.grid.dialog = TRUE] /\ UNCHANGED srv
CancelDelete == Page /\ G.dialog /\ ui' = [ui EXCEPT !.grid.dialog = FALSE] /\ UNCHANGED srv
ConfirmDelete == /\ Page /\ G.dialog /\ ui.run = NoRun /\ G.sel # {}
                 /\ ui' = [ui EXCEPT !.run = Start("delete", G.sel, "none")]
                 /\ UNCHANGED srv
\* One file, from its tile.
OnTile == /\ Page /\ ~G.mode /\ ~G.dialog
          /\ \E f \in Scope(ui.cwd), op \in Ops : srv' = Do(op, f)
          /\ UNCHANGED ui

----------------------------------------------------------------------------
(* A run: one batch after the other, and its end.                           *)

\* A bug: a step of the loop one longer than the slice it takes.
OneTooFar(r, b) == LET rest == r.left \ b IN IF rest = {} THEN {} ELSE rest \ {CHOOSE f \in rest : TRUE}
Rest(r, b) == r.left \ b
Batches(r) == {b \in SUBSET r.left : \/ b = r.left /\ Cardinality(b) <= Concurrency
                                    \/ Cardinality(b) = Concurrency}
NextBatch == /\ ui.run # NoRun /\ ui.run.out = {} /\ ui.run.left # {}
             /\ \E b \in Batches(ui.run) : ui' = [ui EXCEPT !.run.out = b, !.run.left = Rest(ui.run, b)]
             /\ UNCHANGED srv
\* The app's list, whichever folder's it is by then, loses what is done.
Done(f) == ui' = [ui EXCEPT !.run.out = @ \ {f},
                            !.list = IF ui.run.op \in {"delete", "move"} THEN @ \ {f} ELSE @]
Failed(f) == ui' = [ui EXCEPT !.run.out = @ \ {f}, !.run.failed = TRUE]
Answered == \E f \in IF ui.run = NoRun THEN {} ELSE ui.run.out :
              \/ /\ ~Refused(ui.run.op, f)
                 /\ srv' = Do(ui.run.op, f) /\ Done(f)
              \/ /\ Refused(ui.run.op, f) /\ Failed(f) /\ UNCHANGED srv
              \/ /\ srv.other < MaxOther /\ Failed(f)
                 /\ srv' = [srv EXCEPT !.other = @ + 1]
EndRun == /\ ui.run # NoRun /\ ui.run.out = {} /\ ui.run.left = {}
          /\ LET clears == ui.run.mine /\ (ui.client = "app" \/ ui.run.op \in {"remove", "delete"}) IN
             ui' = [ui EXCEPT !.run = NoRun,
                      !.grid = IF clears THEN [ClearSelection(@) EXCEPT
                                 !.dialog = @ /\ ui.run.op # "delete"] ELSE @]
          /\ UNCHANGED srv

----------------------------------------------------------------------------
(* The app.                                                                 *)

App == ui.client = "app"
EnterInApp == /\ App
              /\ \E d \in Places \ {ui.cwd} :
                   ui' = [ui EXCEPT !.cwd = d, !.list = Scope(d), !.grid = Grid, !.run = Orphan(@)]
              /\ UNCHANGED srv
\* A long press starts a selection; tapping the last one away ends it.
TapInApp == /\ App
            /\ \E f \in ui.list : ui' = [ui EXCEPT !.grid = Tapped(@, f)]
            /\ UNCHANGED srv
ExitSelectMode == App /\ G.sel # {} /\ ui' = [ui EXCEPT !.grid = ClearSelection(@)] /\ UNCHANGED srv
DeleteInApp == /\ App /\ G.sel # {} /\ ui.run = NoRun
               /\ ui' = [ui EXCEPT !.run = Start("delete", G.sel, "none")]
               /\ UNCHANGED srv
\* Moving changes a file's home; a pointer that showed it here stays.
MoveInApp == /\ App /\ G.sel # {} /\ ui.run = NoRun
             /\ \E d \in Places \ {ui.cwd} : ui' = [ui EXCEPT !.run = Start("move", G.sel, d)]
             /\ UNCHANGED srv

Browse == OpenFolder \/ ToggleMode \/ ToggleSelect \/ SelectByFilter \/ SelectAll
Act == \/ SelectAnswered \/ RunOnSelection \/ AskDelete \/ CancelDelete \/ ConfirmDelete \/ OnTile
       \/ NextBatch \/ Answered \/ EndRun
InApp == EnterInApp \/ TapInApp \/ ExitSelectMode \/ DeleteInApp \/ MoveInApp
Next == Browse \/ Act \/ InApp \/ Other
Spec == Init /\ [][Next]_vars

----------------------------------------------------------------------------
(* Properties.                                                              *)

\* "Selected ids only make sense against the collection they were picked in":
\* what is selected was picked in the folder shown.
\* The code does not keep this (README, Disagreements).
SelectionOfCollection == G.sel \subseteq G.picked
\* It is, but for a filter's answer that comes after the folder was changed.
SelectionIsLocal == G.late \/ SelectionOfCollection
\* A run that tells of no failure has deleted all that was selected.
ToldIsDone == IF ui.run # NoRun /\ ui.run # ui'.run /\ ui'.run = NoRun /\ ui.run.op = "delete"
              THEN ~ui.run.failed => \A f \in ui.run.all : ~Exists(f)
              ELSE TRUE
AlwaysToldIsDone == [][ToldIsDone]_vars
=============================================================================
