------------------------- MODULE RecognitionGroups -------------------------
(* The window on the groups of faces and pets that recognition found in a    *)
(* collection: a list fetched some time ago, groups selected, renamed,       *)
(* merged and deleted in it, while another device does the same. A merge     *)
(* reads its target before it takes the collection's lock.                   *)
EXTENDS Integers, FiniteSets

CONSTANTS Labels,                    \* names a user gives
          MaxElsewhere               \* what another device does

Groups == 1..3                       \* in the order of the list
Kind(g) == IF g = 3 THEN "pet" ELSE "face"
VARIABLES ui,                        \* the window
          srv                        \* the groups
vars == <<ui, srv>>

None == "none"
NoMerge == [target |-> 0, from |-> {}, label |-> None]
Fresh(s, tab) == {g \in s.rows : tab = "all" \/ s.label[g] # None}
Window(tab) == [tab |-> tab, list |-> Fresh(srv, tab), sel |-> {}, rename |-> 0, del |-> 0]
Closed == [tab |-> "closed"]
\* gone: faces whose group the user deleted; kept: names that must still show.
Init == /\ ui = Closed
        /\ srv = [rows |-> Groups, label |-> [g \in Groups |-> None], of |-> [f \in Groups |-> f],
                  merge |-> NoMerge, other |-> 0, gone |-> {}, kept |-> {}, raced |-> FALSE]

----------------------------------------------------------------------------
(* What the server does to groups.                                          *)

Named(s, g) == IF s.label[g] = None THEN {} ELSE {s.label[g]}
Label(s, g, l) == [s EXCEPT !.label[g] = l,
                            !.kept = (@ \ Named(s, g)) \cup (IF l = None THEN {} ELSE {l}),
                            !.raced = @ \/ s.merge.target = g]
Drop(s, g) == [s EXCEPT !.rows = @ \ {g}, !.label[g] = None, !.kept = @ \ Named(s, g),
                        !.gone = @ \cup {f \in Groups : s.of[f] = g},
                        !.of = [f \in Groups |-> IF @[f] = g THEN 0 ELSE @[f]]]
Unused(s) == Labels \ {s.label[g] : g \in s.rows}
First(S) == CHOOSE g \in S : \A h \in S : g <= h
\* A bug: the members go with the groups they were in.
Left(s, t, from) == [f \in Groups |-> IF s.of[f] \in from THEN 0 ELSE s.of[f]]
Repointed(s, t, from) == [f \in Groups |-> IF s.of[f] \in from THEN t ELSE s.of[f]]
\* A bug: the target takes no name.
NotAdopted(s, from) == None
Adopted(s, from) == LET named == {g \in from : s.label[g] # None} IN
                    IF named = {} THEN None ELSE s.label[First(named)]
\* The names of labelled groups merged into a group that has or takes another go.
Merged(s) ==
  LET t == s.merge.target
      from == s.merge.from
      adopted == Adopted(s, from)
      takes == s.merge.label = None /\ adopted # None
      first == First({g \in from \cup {t} : s.label[g] # None} \cup {4})
      may == UNION {Named(s, g) : g \in {h \in from : s.label[t] # None \/ h # first}} IN
  [s EXCEPT !.rows = @ \ from, !.of = Repointed(s, t, from),
            !.label = [g \in Groups |-> IF g \in from THEN None
                                        ELSE IF g = t /\ takes THEN adopted ELSE @[g]],
            !.kept = @ \ may, !.merge = NoMerge]
ReadTarget(t, from) == [target |-> t, from |-> from, label |-> srv.label[t]]

\* Every group is there, or the merge is refused as a whole.
MergeGroups == /\ srv.merge # NoMerge
               /\ srv' = IF srv.merge.from \cup {srv.merge.target} \subseteq srv.rows THEN Merged(srv)
                         ELSE [srv EXCEPT !.merge = NoMerge]
               /\ UNCHANGED ui
Elsewhere == /\ srv.other < MaxElsewhere
             /\ \E g \in srv.rows, l \in Unused(srv) \cup {None} :
                  \E s \in {Label(srv, g, l), Drop(srv, g)} : srv' = [s EXCEPT !.other = @ + 1]
             /\ UNCHANGED ui

----------------------------------------------------------------------------
(* The window.                                                              *)

IsOpen == ui # Closed
Asking == IsOpen /\ (ui.rename # 0 \/ ui.del # 0)
Open == ui = Closed /\ ui' = Window("all") /\ UNCHANGED srv
Close == IsOpen /\ ui' = Closed /\ UNCHANGED srv
SetTab == /\ IsOpen
          /\ \E t \in {"all", "labeled"} \ {ui.tab} : ui' = Window(t)
          /\ UNCHANGED srv
\* A selection outlives a fetch; only what is still listed counts.
Load == /\ IsOpen /\ ui.list # Fresh(srv, ui.tab)
        /\ ui' = [ui EXCEPT !.list = Fresh(srv, ui.tab)] /\ UNCHANGED srv
ToggleSelect == /\ IsOpen /\ ~Asking
                /\ \E g \in ui.list : ui' = [ui EXCEPT !.sel = IF g \in @ THEN @ \ {g} ELSE @ \cup {g}]
                /\ UNCHANGED srv
Selected == ui.sel \cap ui.list
CanMerge == Cardinality(Selected) >= 2 /\ \A g, h \in Selected : Kind(g) = Kind(h)
Merge == /\ IsOpen /\ ~Asking /\ CanMerge /\ srv.merge = NoMerge
         /\ LET t == First(Selected) IN
            srv' = IF t \in srv.rows THEN [srv EXCEPT !.merge = ReadTarget(t, Selected \ {t})] ELSE srv
         /\ ui' = [ui EXCEPT !.sel = {}]
ClearSelection == /\ IsOpen /\ Cardinality(ui.sel) >= 2 /\ ui' = [ui EXCEPT !.sel = {}]
                  /\ UNCHANGED srv
StartRename == /\ IsOpen /\ ~Asking
               /\ \E g \in ui.list : ui' = [ui EXCEPT !.rename = g]
               /\ UNCHANGED srv
SubmitRename == /\ IsOpen /\ ui.rename # 0
                /\ ui' = [ui EXCEPT !.rename = 0]
                /\ \E l \in Unused(srv) \cup {None} :
                     srv' = IF ui.rename \in srv.rows THEN Label(srv, ui.rename, l) ELSE srv
CancelRename == IsOpen /\ ui.rename # 0 /\ ui' = [ui EXCEPT !.rename = 0] /\ UNCHANGED srv
AskDelete == /\ IsOpen /\ ~Asking /\ ui.tab = "labeled"
             /\ \E g \in ui.list : ui' = [ui EXCEPT !.del = g]
             /\ UNCHANGED srv
ConfirmDelete == /\ IsOpen /\ ui.del # 0
                 /\ ui' = [ui EXCEPT !.del = 0]
                 /\ srv' = IF ui.del \in srv.rows THEN Drop(srv, ui.del) ELSE srv
CancelDelete == IsOpen /\ ui.del # 0 /\ ui' = [ui EXCEPT !.del = 0] /\ UNCHANGED srv

----------------------------------------------------------------------------
Next == \/ MergeGroups \/ Elsewhere \/ Open \/ Close \/ SetTab \/ Load \/ ToggleSelect \/ Merge
        \/ ClearSelection \/ StartRename \/ SubmitRename \/ CancelRename
        \/ AskDelete \/ ConfirmDelete \/ CancelDelete
Spec == Init /\ [][Next]_vars

\* Whatever is merged, each face stays in a group that is there, until the user
\* deletes the group it is in.
FacesStay == \A f \in Groups : srv.of[f] \in srv.rows \/ f \in srv.gone
\* A name the user gave shows until it is changed, its group deleted or merged
\* into one with a name, unless the target was renamed once a merge had read it.
NamesKept == srv.raced \/ srv.kept \subseteq {srv.label[g] : g \in srv.rows}
=============================================================================
