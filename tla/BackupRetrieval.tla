--------------------------- MODULE BackupRetrieval ---------------------------
(* Retrieving what can be backed up: the questions asked first, the sign-in  *)
(* at the provider, Google Drive's listing and the Photos picker, and the    *)
(* pages of a mailbox that fill a picker which is already open, with the     *)
(* cancel and stop flags the calls in flight look at when they return.       *)
EXTENDS Integers

CONSTANT MailRuns                    \* mailbox retrievals under way at a time

VARIABLES ui,                        \* windows, loading, pickers, shared flags
          srv                        \* calls in flight
vars == <<ui, srv>>

Runs == MailRuns \cup {"google"}
Kinds == {"drive", "photos"}
NoRun == [at |-> "none", want |-> {}, found |-> FALSE, popup |-> FALSE,
          cancelled |-> FALSE, asked |-> FALSE, late |-> FALSE]
NoPicker == [open |-> FALSE, of |-> "none", items |-> {}, fetching |-> FALSE]
Init == /\ ui \in [dev : {"web", "app"}, win : {"none"}, load : {FALSE}, gload : {FALSE},
                   picker : {NoPicker}, gpicker : {FALSE}, cancelRef : {"none"},
                   stop : {FALSE}, raced : {FALSE}]
        /\ srv = [run |-> [r \in Runs |-> NoRun]]

Run(r) == srv.run[r]
Busy == ui.load \/ ui.gload \/ ui.picker.open \/ ui.gpicker \/ ui.win # "none"

----------------------------------------------------------------------------
(* The questions.                                                           *)

OpenService == ~Busy /\ ui' = [ui EXCEPT !.win = "service"] /\ UNCHANGED srv
OpenProvider == /\ ui.dev = "web" /\ ~Busy
                /\ ui' = [ui EXCEPT !.win = "provider"] /\ UNCHANGED srv
ChooseProvider == /\ ui.win = "provider"
                  /\ ui' = [ui EXCEPT !.win = "criteria"] /\ UNCHANGED srv
CancelQuestion == ui.win # "none" /\ ui' = [ui EXCEPT !.win = "none"] /\ UNCHANGED srv

----------------------------------------------------------------------------
(* Google: a token, then the Drive listing, then the Photos picker.         *)

\* The page's tab for Photos is opened at once, or the browser blocks it.
ChooseServices ==
  /\ ui.win = "service" /\ Run("google").at = "none"
  /\ \E want \in SUBSET Kinds \ {{}}, popup \in BOOLEAN :
       /\ popup => "photos" \in want /\ ui.dev = "web"
       /\ srv' = [srv EXCEPT !.run["google"] =
                    [NoRun EXCEPT !.at = "token", !.want = want, !.popup = popup]]
  /\ ui' = [ui EXCEPT !.win = "none", !.gload = TRUE]
AfterToken(run) == CASE "drive" \in run.want -> "drive"
                     [] ui.dev = "app" \/ run.popup -> "session"
                     [] OTHER -> "blocked"
AfterDrive(run) == CASE "photos" \notin run.want -> "end"
                     [] ui.dev = "app" \/ run.popup -> "session"
                     [] OTHER -> "blocked"
\* A bug: a retrieval that was cancelled shows what it found all the same.
ShownAnyway(run) == run.found
Shown(run) == run.found /\ ~run.cancelled
\* Nothing found, a failure or a cancel opens no picker.
GoogleEnd(run) == /\ srv' = [srv EXCEPT !.run["google"] = NoRun]
                  /\ ui' = [ui EXCEPT !.gload = FALSE, !.gpicker = Shown(run)]
GoogleGoOn(run, next) ==
  IF run.cancelled \/ next = "end" THEN GoogleEnd(run)
  ELSE IF next = "blocked" THEN GoogleEnd([run EXCEPT !.found = FALSE])
  ELSE srv' = [srv EXCEPT !.run["google"] = [run EXCEPT !.at = next]] /\ UNCHANGED ui
Token == Run("google").at = "token" /\ GoogleGoOn(Run("google"), AfterToken(Run("google")))
ListDrive == /\ Run("google").at = "drive"
             /\ \E some \in BOOLEAN : LET run == [Run("google") EXCEPT !.found = some] IN
                                      GoogleGoOn(run, AfterDrive(run))
\* A session that cannot be made is an empty choice; the page looks at its
\* cancel flag before it sends the tab there.
OpenSession ==
  /\ Run("google").at = "session"
  /\ \/ GoogleEnd(Run("google"))
     \/ /\ ~Run("google").cancelled
        /\ srv' = [srv EXCEPT !.run["google"].at = "poll"] /\ UNCHANGED ui
\* The choice is made and read; or a time-out, a failure or the cancel ends the wait.
Poll == /\ Run("google").at = "poll"
        /\ \E some \in BOOLEAN : GoogleEnd([Run("google") EXCEPT !.found = @ \/ some])
\* The app's window for Photos is closed: the Drive files are still shown.
ClosePhotos == /\ ui.dev = "app" /\ Run("google").at = "poll"
               /\ GoogleEnd(Run("google"))
GoogleFails == /\ Run("google").at \in {"token", "drive"}
               /\ GoogleEnd([Run("google") EXCEPT !.found = FALSE])
CancelGoogle == /\ ui.dev = "web" /\ ui.gload /\ Run("google").at # "none"
                /\ ~Run("google").cancelled
                /\ srv' = [srv EXCEPT !.run["google"].cancelled = TRUE] /\ UNCHANGED ui
CloseGooglePicker == ui.gpicker /\ ui' = [ui EXCEPT !.gpicker = FALSE] /\ UNCHANGED srv

----------------------------------------------------------------------------
(* A mailbox, page by page.                                                 *)

Listing == {r \in MailRuns : Run(r).at # "none"}
ChooseCriteria ==
  /\ ui.win = "criteria"
  /\ \E r \in MailRuns :
       /\ Run(r).at = "none"
       /\ srv' = [srv EXCEPT !.run[r] = [NoRun EXCEPT !.at = "signin"]]
       /\ ui' = [ui EXCEPT !.win = "none", !.load = TRUE, !.stop = FALSE, !.cancelRef = r,
                           !.raced = Listing # {}]
\* Each run has a flag of its own, and sets the one they share.
CancelMail == /\ ui.load /\ ~ui.picker.open /\ ui.cancelRef \in Listing
              /\ srv' = [srv EXCEPT !.run[ui.cancelRef].cancelled = TRUE]
              /\ ui' = [ui EXCEPT !.stop = TRUE]
\* A bug: only a cancel ends the paging, and the button that stops it does not.
CancelOnly(r) == Run(r).cancelled
ShouldStop(r) == Run(r).cancelled \/ ui.stop
\* Its end clears the cancel and the loading of whoever set them.
Ended(r, picker) ==
  /\ srv' = [srv EXCEPT !.run[r] = NoRun]
  /\ ui' = [ui EXCEPT !.load = FALSE, !.cancelRef = "none", !.picker = picker,
                      !.raced = @ /\ (picker.open \/ Listing \ {r} # {})]
Complete(r, found) == IF ~ui.picker.open \/ ~found \/ Run(r).cancelled THEN NoPicker
                      ELSE [ui.picker EXCEPT !.items = {r}, !.fetching = FALSE]
SignIn == \E r \in MailRuns :
  /\ Run(r).at = "signin"
  /\ IF Run(r).cancelled THEN Ended(r, ui.picker)
     ELSE srv' = [srv EXCEPT !.run[r].at = "address"] /\ UNCHANGED ui
Address == \E r \in MailRuns :
  /\ Run(r).at = "address"
  /\ \/ Ended(r, ui.picker)
     \/ /\ ~Run(r).cancelled
        /\ IF ShouldStop(r) THEN Ended(r, NoPicker)
           ELSE /\ srv' = [srv EXCEPT !.run[r].at = "page"]
                /\ ui' = [ui EXCEPT !.load = FALSE,
                            !.picker = [open |-> TRUE, of |-> r, items |-> {}, fetching |-> TRUE]]
\* The last page, by the criteria, the mailbox or the safety limit; or an empty one.
LastPage == \E r \in MailRuns, found \in BOOLEAN :
  /\ Run(r).at = "page" /\ (Run(r).found => found)
  /\ Ended(r, Complete(r, found))
\* A page lands in the picker; the flags are read before the next one.
Page == \E r \in MailRuns :
  /\ Run(r).at = "page"
  /\ IF ShouldStop(r) THEN Ended(r, Complete(r, TRUE))
     ELSE /\ srv' = [srv EXCEPT !.run[r].found = TRUE, !.run[r].late = @ \/ Run(r).asked]
          /\ ui' = [ui EXCEPT !.picker.items = IF ui.picker.open /\ ~Run(r).cancelled THEN {r} ELSE @]
\* A failure closes whichever picker is open.
MailFails == \E r \in MailRuns : /\ Run(r).at # "none" /\ Ended(r, NoPicker)
Asked == [r \in Runs |-> [Run(r) EXCEPT !.asked = @ \/ (r \in MailRuns /\ Run(r).at = "page")]]
StopFetching == /\ ui.picker.fetching /\ ~ui.stop
                /\ ui' = [ui EXCEPT !.stop = TRUE] /\ srv' = [srv EXCEPT !.run = Asked]
CloseMailPicker == /\ ui.picker.open
                   /\ ui' = [ui EXCEPT !.picker = NoPicker, !.stop = TRUE, !.raced = @ /\ Listing # {}]
                   /\ srv' = [srv EXCEPT !.run = Asked]
\* A backup that goes on in the background closes the picker and stops nothing.
StartBackground == /\ ui.picker.open /\ ui.picker.items # {}
                   /\ ui' = [ui EXCEPT !.picker = NoPicker, !.raced = @ /\ Listing # {}]
                   /\ UNCHANGED srv

----------------------------------------------------------------------------
Next == \/ OpenService \/ OpenProvider \/ ChooseProvider \/ CancelQuestion
        \/ ChooseServices \/ Token \/ ListDrive \/ OpenSession \/ Poll \/ ClosePhotos
        \/ GoogleFails \/ CancelGoogle \/ CloseGooglePicker
        \/ ChooseCriteria \/ CancelMail \/ SignIn \/ Address \/ LastPage \/ Page \/ MailFails
        \/ StopFetching \/ CloseMailPicker \/ StartBackground
Spec == Init /\ [][Next]_vars

----------------------------------------------------------------------------
\* A listing asked to stop, or whose picker was closed, fetches no page after the
\* one under way, unless the next retrieval has begun meanwhile.
StopIsKept == \A r \in MailRuns : Run(r).late => ui.raced
\* A retrieval that was cancelled while it loaded never opens a picker.
StaysCancelled ==
  /\ ~ui.gpicker /\ ui'.gpicker => ~Run("google").cancelled
  /\ ~ui.picker.open /\ ui'.picker.open => ~Run(ui'.picker.of).cancelled
NoPickerOnceCancelled == [][StaysCancelled]_vars
=============================================================================
