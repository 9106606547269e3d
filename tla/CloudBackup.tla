---------------------------- MODULE CloudBackup ----------------------------
(* Backing up Google files ("google" in the page, "phone" in the app) and   *)
(* mail ("email") : the picking window, the run that copies the items one    *)
(* by one under a pause and cancel control, its rollback, retry and the      *)
(* deletion at the provider afterwards. A run belongs to the window, or to   *)
(* the page's card when it goes on in the background.                        *)
EXTENDS Integers, FiniteSets, FiniteSetsExt

CONSTANTS Items,    \* what the provider lists, 1..n in the order of the list
          Photos,   \* those of Items that Google lets no program delete
          MaxRuns,  \* runs and retries of one visit
          Quota,    \* room left for the selection
          MaxFaults,\* failed or unanswered calls
          OverlapPicks \* whether a second run may take a part of the list

ASSUME CloudBackupAssumption ==
  /\ Items \subseteq Nat /\ IsFiniteSet(Items) /\ Photos \subseteq Items
  /\ MaxRuns \in Nat /\ MaxFaults \in Nat

Runs == 1..MaxRuns
Kinds == {"google", "email", "phone"}
Statuses == {"none", "done", "duplicate", "error"}

VARIABLES kind, bg, del,             \* what is backed up, and the saved settings
          view, overlay, selected,   \* the picking window
          mine,                      \* runs whose window is still open
          stat, res,                 \* its status map; failed ones, -1 for none
          ref, action, prompt,       \* controlRef, cancelActionRef, cancelPrompt
          card,                      \* the background card
          run, copies,               \* the runs; stored copies <<item, run>>
          source, cleaning, cleaned, \* the provider's items; handleCleanup
          fresh, timer,              \* the listings the page shows
          overlap, faults
ui == <<view, overlay, selected, mine>>
host == <<ref, action, prompt>>
tidy == <<source, cleaning, cleaned>>
seen == <<fresh, timer>>
set == <<kind, bg, del>>
vars == <<set, ui, stat, res, host, card, run, copies, tidy, seen, overlap, faults>>

Backing == {i \in Items : \E r \in 0..MaxRuns : <<i, r>> \in copies}
Busy(r) == run[r].pc \notin {"idle", "end"}
Over == \E r \in Runs : Busy(r)
Uploading == \E r \in Runs : Busy(r) /\ ~run[r].card /\ ~run[r].retry /\ run[r].pc # "folder"
Retrying == \E r \in Runs : Busy(r) /\ run[r].retry
RollbackBusy == \E r \in Runs : run[r].pc = "rollback"
Fresh(r) == run[r].pc = "idle" /\ \A q \in 1..(r - 1) : run[q].pc # "idle"
NoStatus == [i \in Items |-> "none"]
NewRun == [pc |-> "idle", todo |-> {}, cur |-> 0, st |-> NoStatus, ctl |-> "running",
           cancelled |-> FALSE, retry |-> FALSE, card |-> FALSE, left |-> {}]
\* What is left of a run: its card remembers the items for the app's cleanup.
Ended(r) == [NewRun EXCEPT !.pc = "end", !.st = IF kind = "phone" /\ run[r].card THEN run[r].st ELSE @]

Init == /\ kind \in Kinds /\ bg \in BOOLEAN
        /\ del \in (IF kind = "email" THEN BOOLEAN ELSE {FALSE})
        /\ view = "closed" /\ overlay = "none" /\ selected = {} /\ mine = {}
        /\ stat = NoStatus /\ res = -1
        /\ ref = 0 /\ action = "keep" /\ prompt = FALSE /\ card = "none"
        /\ run = [r \in Runs |-> NewRun] /\ copies = {}
        /\ source = Items /\ cleaning = {} /\ cleaned = FALSE
        /\ fresh = TRUE /\ timer = FALSE /\ overlap = FALSE /\ faults = 0

Fault == faults < MaxFaults /\ faults' = faults + 1

----------------------------------------------------------------------------
(* The picking window.                                                      *)

\* A closed window forgets its state.
Unmounted == /\ view' = "closed" /\ overlay' = "none" /\ selected' = {} /\ mine' = {}
             /\ stat' = NoStatus /\ res' = -1
\* Opening starts afresh; a window over a background run leaves its control alone.
Reset == /\ view' = "pick" /\ overlay' = "none" /\ selected' = Items
         /\ mine' = {} /\ stat' = NoStatus /\ res' = -1 /\ cleaned' = FALSE
ResetPhone == Reset
ResetEmail == Reset

Open == /\ view = "closed" /\ \E r \in Runs : Fresh(r)
        /\ CASE kind = "google" -> Reset
             [] kind = "phone" -> ResetPhone
             [] OTHER -> ResetEmail
        /\ UNCHANGED <<set, host, card, run, copies, source, cleaning, seen, overlap, faults>>

RowLocked == view # "pick" \/ overlay # "none"
ToggleItem(i) == selected' = (selected \ {i}) \cup ({i} \ selected)
\* One press turns a category, or all, on; off when all of it was on.
Groups == {Items \ Photos, Photos, Items} \ {{}}
ToggleGroup(g) == selected' = IF g \subseteq selected THEN selected \ g ELSE selected \cup g
\* Mail: the search, dates, marks and senders show some of the list ...
Filters == SUBSET Items
FilterOffered == view = "pick" /\ overlay # "settings"
Listed(f) == IF view = "pick" THEN f ELSE selected
\* ... and switching off clears what they hide as well.
ToggleAllVisible(f) == selected' = IF f \subseteq selected /\ f # {} THEN {} ELSE selected \cup f
DeselectHidden(f) == selected' = selected \cap f
PickRow == \E i \in Items : ToggleItem(i)
PickGroup == kind # "email" /\ \E g \in Groups : ToggleGroup(g)
PickMail == /\ kind = "email" /\ FilterOffered
            /\ \E f \in Filters : ToggleAllVisible(Listed(f)) \/ DeselectHidden(Listed(f))
Pick == /\ ~RowLocked /\ (Over => OverlapPicks)
        /\ PickRow \/ PickGroup \/ PickMail
        /\ UNCHANGED <<set, view, overlay, mine, stat, res, host, card, run, copies, tidy, seen,
                       overlap, faults>>

\* Over the list lie the folder choice, the preview or the settings.
RowActive(i) == i \in selected /\ view = "pick"
DestOffered == kind # "email" /\ \E i \in Items : RowActive(i)
DestOfferedPhone == DestOffered
DestGroupOffered == kind # "email" /\ view = "pick"
PreviewOffered == kind # "email" /\ view = "pick"
PreviewOfferedPhone == PreviewOffered
SettingsOffered == view = "pick"
OpenOverlay == /\ overlay = "none"
               /\ \/ (DestOffered \/ DestOfferedPhone \/ DestGroupOffered) /\ overlay' = "dest"
                  \/ (PreviewOffered \/ PreviewOfferedPhone) /\ overlay' = "preview"
                  \/ SettingsOffered /\ overlay' = "settings"
               /\ UNCHANGED <<set, view, selected, mine, stat, res, host, card, run, copies, tidy,
                              seen, overlap, faults>>
ApplyDest == overlay = "dest" /\ overlay' = "none"
ApplyDestPhone == kind = "phone" /\ ApplyDest
ClosePreview == overlay = "preview" /\ overlay' = "none"
CloseOverlay == /\ \/ ApplyDest \/ ApplyDestPhone \/ ClosePreview
                   \/ overlay = "settings" /\ overlay' = "none"
                /\ UNCHANGED <<set, view, selected, mine, stat, res, host, card, run, copies, tidy,
                               seen, overlap, faults>>

\* The settings are saved as they are switched.
SwitchGoogle == kind = "google" /\ bg' = ~bg /\ UNCHANGED del
SwitchPhone == kind = "phone" /\ bg' = ~bg /\ UNCHANGED del
SwitchEmail == /\ kind = "email"
               /\ \/ bg' = ~bg /\ UNCHANGED del
                  \/ del' = ~del /\ UNCHANGED bg
Switch == /\ overlay = "settings" /\ (Over => OverlapPicks)
          /\ SwitchGoogle \/ SwitchPhone \/ SwitchEmail
          /\ UNCHANGED <<kind, ui, stat, res, host, card, run, copies, tidy, seen, overlap, faults>>

\* The page bars closing a running backup; the app's window can always go.
CloseOffered == (view = "pick" /\ overlay \in {"none", "settings"}) \/ (view = "finished" /\ ~Retrying)
CloseOfferedPhone == view # "closed"
Close == /\ IF kind = "phone" THEN CloseOfferedPhone ELSE CloseOffered
         /\ Unmounted
         /\ fresh' = (fresh \/ view = "finished")
         /\ UNCHANGED <<set, host, card, run, copies, tidy, timer, overlap,
                        faults>>

----------------------------------------------------------------------------
(* createBackupControl: paused runs park at the gate, cancelled is final.   *)

SetControl(c, next) == IF c = "cancelled" THEN c ELSE next
\* A bug: only a resume wakes the gate.
WokenToRun(pc, next) == IF pc = "parked" /\ next = "running" THEN "gate" ELSE pc

\* Leaving the pause resolves the parked gate, whatever it is left for.
Woken(pc, next) == IF pc = "parked" /\ next # "paused" THEN "gate" ELSE pc
Control(next) ==
  run' = IF ref = 0 THEN run
         ELSE LET c == SetControl(run[ref].ctl, next)
              IN [run EXCEPT ![ref].ctl = c, ![ref].pc = Woken(@, c)]

ControlsOffered == ~RollbackBusy /\ ~prompt
                   /\ (card = "running" \/ (Uploading /\ view = "uploading")) /\ kind # "phone"
TogglePause == /\ ControlsOffered /\ ref # 0
               /\ Control(IF run[ref].ctl = "paused" THEN "running" ELSE "paused")
               /\ UNCHANGED <<set, ui, stat, res, host, card, copies, tidy, seen, overlap, faults>>
RequestCancel == /\ ControlsOffered /\ Control("paused") /\ prompt' = TRUE
                 /\ UNCHANGED <<set, ui, stat, res, ref, action, card, copies, tidy, seen,
                                overlap, faults>>
\* "Remove" needs something stored; every answer closes the prompt.
RemoveOffered == \E i \in Items : \E r \in Runs : Busy(r) /\ run[r].st[i] = "done"
ResolveCancel(a) == /\ prompt /\ ~RollbackBusy /\ (a = "remove" => RemoveOffered)
                    /\ action' = a /\ prompt' = FALSE /\ Control("cancelled")
                    /\ UNCHANGED <<set, ui, stat, res, ref, card, copies, tidy, seen, overlap,
                                   faults>>
ResumeFromPrompt == /\ prompt /\ ~RollbackBusy /\ prompt' = FALSE /\ Control("running")
                    /\ UNCHANGED <<set, ui, stat, res, ref, action, card, copies, tidy, seen,
                                   overlap, faults>>

----------------------------------------------------------------------------
(* Starting a run.                                                          *)

OverQuota == Cardinality(selected) > Quota
CanBackUp == selected # {} /\ ~OverQuota /\ view = "pick" /\ overlay \in {"none", "settings"}
CanBackUpPhone == CanBackUp
CanBackUpEmail == CanBackUp
Begun(r, onCard) == [NewRun EXCEPT !.pc = "gate", !.todo = selected, !.card = onCard]
\* The hook's start: it takes over the one control and the one answer.
StartCard(r) == /\ run' = [run EXCEPT ![r] = Begun(r, TRUE)]
                /\ ref' = r /\ action' = "keep" /\ prompt' = FALSE /\ card' = "running"
StartBackground(r) == Unmounted /\ StartCard(r)
StartWindow(r) == /\ mine' = mine \cup {r} /\ overlay' = "none" /\ UNCHANGED <<selected, res>>
                  /\ run' = [run EXCEPT ![r] = Begun(r, FALSE)] /\ view' = "uploading"
                  /\ ref' = r /\ action' = "keep" /\ stat' = NoStatus

BackUpGoogle(r) ==
  /\ kind = "google" /\ CanBackUp /\ Fresh(r)
  /\ IF bg THEN StartBackground(r) ELSE StartWindow(r) /\ UNCHANGED <<prompt, card>>
  /\ overlap' = (overlap \/ Over)
  /\ UNCHANGED <<set, copies, tidy, seen, faults>>
\* The app has no control: a run is a loop nobody can stop.
BackUpPhone(r) ==
  /\ kind = "phone" /\ CanBackUpPhone /\ Fresh(r)
  /\ run' = [run EXCEPT ![r] = Begun(r, bg)]
  /\ IF bg THEN Unmounted /\ card' = "running"
           ELSE /\ view' = "uploading" /\ overlay' = "none" /\ mine' = mine \cup {r}
                /\ stat' = NoStatus /\ UNCHANGED <<selected, res, card>>
  /\ overlap' = (overlap \/ Over)
  /\ UNCHANGED <<set, host, copies, tidy, seen, faults>>
\* Mail first asks for its folder; the window meanwhile still offers everything.
BackUpEmail(r) ==
  /\ kind = "email" /\ CanBackUpEmail /\ Fresh(r)
  /\ run' = [run EXCEPT ![r] = [NewRun EXCEPT !.pc = "folder", !.todo = selected, !.card = bg]]
  /\ overlap' = (overlap \/ Over)
  /\ mine' = mine \cup (IF bg THEN {} ELSE {r})
  /\ UNCHANGED <<set, view, overlay, selected, stat, res, host, card, copies, tidy, seen, faults>>
FolderReady(r) ==
  /\ run[r].pc = "folder"
  /\ run' = [run EXCEPT ![r].pc = "gate"]
  /\ ref' = r /\ action' = "keep"
  /\ IF run[r].card THEN Unmounted /\ card' = "running" /\ prompt' = FALSE
           ELSE /\ IF r \in mine THEN view' = "uploading" /\ overlay' = "none" /\ stat' = NoStatus
                   ELSE UNCHANGED <<view, overlay, stat>>
                /\ UNCHANGED <<selected, mine, res, prompt, card>>
  /\ UNCHANGED <<set, copies, tidy, seen, overlap, faults>>
FolderFails(r) ==
  /\ run[r].pc = "folder" /\ Fault /\ run' = [run EXCEPT ![r] = Ended(r)]
  /\ UNCHANGED <<set, ui, stat, res, host, card, copies, tidy, seen, overlap>>

----------------------------------------------------------------------------
(* The loop over the items.                                                 *)

Done(r) == run[r].todo = {}
Gate(r) ==
  /\ run[r].pc = "gate"
  /\ run' = [run EXCEPT
       ![r] = IF Done(r) THEN [@ EXCEPT !.pc = "settle"]
              ELSE IF run[r].retry \/ run[r].ctl = "running" \/ kind = "phone"
                   THEN [@ EXCEPT !.pc = "item", !.cur = Min(run[r].todo)]
              ELSE IF run[r].ctl = "paused" THEN [@ EXCEPT !.pc = "parked"]
              ELSE [@ EXCEPT !.pc = "settle", !.cancelled = TRUE]]
  /\ UNCHANGED <<set, ui, stat, res, host, card, copies, tidy, seen, overlap, faults>>

\* A bug: a failed item is tried again and again.
RestAll(r) == run[r].todo
Rest(r) == run[r].todo \ {run[r].cur}
Settled(r, s) == /\ run' = [run EXCEPT ![r].pc = "gate", ![r].todo = Rest(r),
                                       ![r].st[run[r].cur] = s, ![r].cur = 0]
                 /\ stat' = IF r \notin mine THEN stat ELSE [stat EXCEPT ![run[r].cur] = s]
\* The throttled refresh: at once, by the pending timer, or by a new one.
ItemStored(r) == IF run[r].retry \/ kind = "phone" THEN fresh' = FALSE /\ UNCHANGED timer
                 ELSE IF timer THEN fresh' = FALSE /\ UNCHANGED timer
                 ELSE \/ fresh' = TRUE /\ timer' = FALSE
                      \/ fresh' = FALSE /\ timer' = TRUE
Credit(r) == copies' = copies \cup {<<run[r].cur, r>>} /\ Settled(r, "done") /\ ItemStored(r)
\* The item reached the store but not the answer: nobody knows its id.
Unanswered(r) == Fault /\ copies' = copies \cup {<<run[r].cur, 0>>} /\ Settled(r, "error")
                 /\ fresh' = FALSE
Failed(r) == Fault /\ Settled(r, "error") /\ UNCHANGED <<copies, seen>>

Held(r) == run[r].cur \in Backing
\* Download and hash check come before, and apart from, the upload.
CheckHash(r) ==
  /\ kind # "email" /\ run[r].pc = "item" /\ run[r].cur \in source
  /\ \/ Held(r) /\ Settled(r, "duplicate") /\ UNCHANGED faults
     \/ /\ ~Held(r) /\ run' = [run EXCEPT ![r].pc = "upload"] /\ UNCHANGED <<stat, faults>>
     \/ Held(r) /\ Fault /\ run' = [run EXCEPT ![r].pc = "upload"] /\ UNCHANGED stat
  /\ UNCHANGED <<set, ui, res, host, card, copies, tidy, seen, overlap>>
Upload(r) ==
  /\ run[r].pc = "upload"
  /\ \/ Credit(r) /\ UNCHANGED faults
     \/ Unanswered(r) /\ UNCHANGED timer
     \/ Failed(r)
  /\ UNCHANGED <<set, ui, res, host, card, tidy, overlap>>
\* The download fails: the item is gone, or the call did not succeed.
DownloadFails(r) ==
  /\ run[r].pc = "item"
  /\ \/ run[r].cur \notin source /\ Settled(r, "error") /\ UNCHANGED <<copies, seen, faults>>
     \/ run[r].cur \in source /\ Failed(r)
  /\ UNCHANGED <<set, ui, res, host, card, tidy, overlap>>
\* One request stores a message; a second copy of it is refused as a duplicate.
StoreMessage(r) ==
  /\ kind = "email" /\ run[r].pc = "item" /\ run[r].cur \in source
  /\ \/ Held(r) /\ Settled(r, "duplicate") /\ UNCHANGED <<copies, seen, faults>>
     \/ ~Held(r) /\ Credit(r) /\ UNCHANGED faults
     \/ ~Held(r) /\ Unanswered(r) /\ UNCHANGED timer
  /\ UNCHANGED <<set, ui, res, host, card, tidy, overlap>>

----------------------------------------------------------------------------
(* The end of a run.                                                        *)

Own(r) == {i \in Items : run[r].st[i] = "done" /\ i \notin run[r].left /\ <<i, r>> \in copies}
\* A bug: failed items count as backed up.
BackedUpAll(r) == {i \in Items : run[r].st[i] # "none"}

BackedUp(r) == {i \in Items : run[r].st[i] \in {"done", "duplicate"}}
Errors(r) == Cardinality({i \in Items : run[r].st[i] = "error"})
Removed(r) == \E i \in Items : run[r].st[i] = "done" /\ i \notin run[r].left /\ <<i, r>> \notin copies
Rollback(r) == run[r].cancelled /\ action = "remove" /\ Own(r) # {}
\* A bug: the last refresh is left to a timer.
LiveFinishLater == UNCHANGED <<fresh, timer>>

LiveFinish == fresh' = TRUE /\ timer' = FALSE

Settle(r) == /\ run[r].pc = "settle" /\ Rollback(r) /\ ~run[r].retry
             /\ run' = [run EXCEPT ![r].pc = "rollback"]
             /\ UNCHANGED <<set, ui, stat, res, host, card, copies, tidy, seen, overlap, faults>>
RemoveOne(r) ==
  /\ run[r].pc = "rollback" /\ Own(r) # {}
  /\ LET i == Min(Own(r))
     IN \/ copies' = copies \ {<<i, r>>} /\ fresh' = FALSE /\ UNCHANGED <<run, faults>>
        \/ Fault /\ run' = [run EXCEPT ![r].left = @ \cup {i}] /\ UNCHANGED <<copies, fresh>>
  /\ UNCHANGED <<set, ui, stat, res, host, card, tidy, timer, overlap>>
\* Mail moves what it backed up to the provider's bin, unless it removed any.
DeleteAfter(r) == kind = "email" /\ del /\ ~Removed(r) /\ BackedUp(r) # {}
Ending(r) == /\ ~run[r].retry
             /\ \/ run[r].pc = "settle" /\ ~Rollback(r)
                \/ run[r].pc = "rollback" /\ Own(r) = {}
AfterRun(r) == run' = [run EXCEPT ![r] = IF DeleteAfter(r)
                                         THEN [@ EXCEPT !.pc = "trash", !.todo = BackedUp(r)]
                                         ELSE Ended(r)]
ShowFinished(r) == view' = IF r \in mine THEN "finished" ELSE view

FinishCard(r) == /\ run[r].card /\ Ending(r) /\ kind # "phone" /\ AfterRun(r)
                 /\ ref' = 0 /\ prompt' = FALSE /\ LiveFinish
                 /\ card' = IF card = "none" THEN card ELSE "finished"
                 /\ UNCHANGED <<set, ui, stat, res, action, copies, tidy, overlap, faults>>
FinishGoogle(r) == /\ ~run[r].card /\ kind = "google" /\ Ending(r) /\ AfterRun(r)
                   /\ ref' = 0 /\ prompt' = FALSE /\ LiveFinish
                   /\ res' = (IF r \in mine THEN Errors(r) ELSE res) /\ ShowFinished(r)
                   /\ UNCHANGED <<set, overlay, selected, mine, stat, action, card, copies, tidy,
                                  overlap, faults>>
\* Mail shows the end only after its deletions.
FinishEmail(r) == /\ ~run[r].card /\ kind = "email" /\ Ending(r) /\ AfterRun(r)
                  /\ ref' = 0 /\ prompt' = FALSE /\ LiveFinish
                  /\ res' = IF r \in mine THEN Errors(r) ELSE res
                  /\ IF DeleteAfter(r) THEN UNCHANGED view ELSE ShowFinished(r)
                  /\ UNCHANGED <<set, overlay, selected, mine, stat, action, card, copies, tidy,
                                 overlap, faults>>
\* The app's window is only hidden: the end of an earlier run ends what it shows now.
ShowFinishedPhone(r) == IF view = "closed" THEN UNCHANGED <<view, res>>
                        ELSE view' = "finished" /\ res' = Errors(r)
FinishPhone(r) == /\ kind = "phone" /\ Ending(r) /\ AfterRun(r)
                  /\ IF run[r].card THEN card' = "finished" /\ fresh' = TRUE /\ UNCHANGED <<view, res>>
                     ELSE ShowFinishedPhone(r) /\ UNCHANGED <<card, fresh>>
                  /\ UNCHANGED <<set, overlay, selected, mine, stat, host, copies, tidy, timer,
                                 overlap, faults>>
Dismiss == /\ card = "finished" /\ card' = "none"
           /\ UNCHANGED <<set, ui, stat, res, host, run, copies, tidy, seen, overlap, faults>>
\* Leaving the page drops card and control; the loop goes on by itself.
LeavePage == /\ view = "closed" /\ card # "none" /\ card' = "none" /\ ref' = 0 /\ prompt' = FALSE
             /\ LiveFinish /\ overlap' = (overlap \/ Over)
             /\ UNCHANGED <<set, ui, stat, res, action, run, copies, tidy, faults>>

\* deleteProviderMessages, one message after the other.
TrashOne(r) ==
  /\ run[r].pc = "trash" /\ run[r].todo # {}
  /\ LET i == Min(run[r].todo)
     IN /\ run' = [run EXCEPT ![r].todo = @ \ {i}]
        /\ \/ source' = source \ {i} /\ UNCHANGED faults
           \/ Fault /\ UNCHANGED source
  /\ UNCHANGED <<set, ui, stat, res, host, card, copies, cleaning, cleaned, seen, overlap>>
TrashDone(r) ==
  /\ run[r].pc = "trash" /\ run[r].todo = {} /\ run' = [run EXCEPT ![r] = Ended(r)]
  /\ IF run[r].card \/ run[r].retry THEN UNCHANGED view ELSE ShowFinished(r)
  /\ UNCHANGED <<set, overlay, selected, mine, stat, res, host, card, copies, tidy, seen, overlap, faults>>

----------------------------------------------------------------------------
(* What the finished window offers.                                         *)

FailedItems == {i \in Items : stat[i] = "error"}
RetryOffered == view = "finished" /\ res > 0 /\ ~Retrying /\ kind # "phone"
RetryFailed(r) ==
  /\ RetryOffered /\ FailedItems # {} /\ Fresh(r)
  /\ run' = [run EXCEPT ![r] = [NewRun EXCEPT !.pc = "gate", !.todo = FailedItems, !.retry = TRUE]]
  /\ mine' = mine \cup {r} /\ overlap' = (overlap \/ Over)
  /\ UNCHANGED <<set, view, overlay, selected, stat, res, host, card, copies, tidy, seen, faults>>
\* The result is corrected by those retried and those that failed again.
Retried(r) == Cardinality({i \in Items : run[r].st[i] # "none"})
\* A bug: the retried ones are not taken off the failed ones.
MergedAdd(r) == res + Errors(r)

Merged(r) == res - Retried(r) + Errors(r)
RetryDone(r) == /\ run[r].retry /\ run[r].pc = "settle" /\ AfterRun(r)
                /\ res' = IF r \in mine THEN Merged(r) ELSE res
                /\ UNCHANGED <<set, ui, stat, host, card, copies, tidy, seen, overlap, faults>>

CleanupOffered == /\ view = "finished" \/ (kind = "phone" /\ card = "finished")
                  /\ kind # "email" /\ ~cleaned /\ cleaning = {} /\ ~Retrying
\* Every Drive entry of the list, "safely backed up" or not.
Cleanup == /\ kind = "google" /\ CleanupOffered /\ cleaning' = Items \ Photos
           /\ UNCHANGED <<set, ui, stat, res, host, card, run, copies, source, cleaned, seen,
                          overlap, faults>>
CleanupPhone == /\ kind = "phone" /\ CleanupOffered
                /\ cleaning' = (IF view = "finished" THEN Items ELSE UNION {
                                {i \in Items : run[r].st[i] # "none"} : r \in Runs}) \ Photos
                /\ UNCHANGED <<set, ui, stat, res, host, card, run, copies, source, cleaned, seen,
                               overlap, faults>>
CleanOne == /\ cleaning # {}
            /\ LET i == Min(cleaning)
               IN /\ cleaning' = cleaning \ {i} /\ cleaned' = (cleaned \/ cleaning = {i})
                  /\ \/ source' = source \ {i} /\ UNCHANGED faults
                     \/ i \in source /\ Fault /\ UNCHANGED source
            /\ UNCHANGED <<set, ui, stat, res, host, card, run, copies, seen, overlap>>

TimerFires == /\ timer /\ LiveFinish
              /\ UNCHANGED <<set, ui, stat, res, host, card, run, copies, tidy, overlap, faults>>

----------------------------------------------------------------------------
Work(r) == \/ FolderReady(r) \/ FolderFails(r) \/ Gate(r) \/ CheckHash(r) \/ Upload(r)
           \/ DownloadFails(r) \/ StoreMessage(r) \/ Settle(r) \/ RemoveOne(r) \/ FinishCard(r)
           \/ FinishGoogle(r) \/ FinishEmail(r) \/ FinishPhone(r) \/ TrashOne(r) \/ TrashDone(r)
           \/ RetryDone(r)
User == \/ Open \/ Pick \/ OpenOverlay \/ CloseOverlay \/ Switch \/ Close
        \/ TogglePause \/ RequestCancel \/ ResumeFromPrompt
        \/ \E a \in {"keep", "remove"} : ResolveCancel(a)
        \/ \E r \in Runs : \/ BackUpGoogle(r) \/ BackUpPhone(r)
                         \/ BackUpEmail(r) \/ RetryFailed(r)
        \/ Dismiss \/ LeavePage \/ Cleanup \/ CleanupPhone
Next == User \/ CleanOne \/ TimerFires \/ \E r \in Runs : Work(r)
Spec == Init /\ [][Next]_vars /\ \A r \in Runs : WF_vars(Work(r))

----------------------------------------------------------------------------
BackupTypeOK ==
  /\ kind \in Kinds /\ bg \in BOOLEAN /\ del \in BOOLEAN
  /\ view \in {"closed", "pick", "uploading", "finished"}
  /\ overlay \in {"none", "dest", "preview", "settings"} /\ selected \subseteq Items /\ mine \subseteq Runs
  /\ stat \in [Items -> Statuses]
  \* Runs that overlap may merge the failed count down below zero.
  /\ res \in Int /\ res <= Cardinality(Items)
  /\ ref \in 0..MaxRuns /\ action \in {"keep", "remove"} /\ prompt \in BOOLEAN
  /\ card \in {"none", "running", "finished"} /\ copies \subseteq Items \X (0..MaxRuns)
  /\ \A r \in Runs : run[r].pc # "trash" => \A i \in run[r].todo : run[r].st[i] = "none"
  /\ source \subseteq Items /\ cleaning \subseteq Items

\* A message that left the mailbox is in the store, unless two runs went on
\* together: what one counts as a duplicate the other's rollback removes
\* (settings text of EmailBackupModal: "once it is safely stored").
MailLostOnlyByOverlap ==
  kind = "email" /\ ~overlap => Items \ source \subseteq Backing

\* A cancelled run comes to its end: the gate it is parked at lets it go
\* (createBackupControl), and its rollback and deletions finish.
CancelEnds == []<>(\A r \in Runs : run[r].ctl # "cancelled")

\* The finished window counts as failed what its rows mark as failed, so a
\* retry is offered exactly as long as there is something to retry.
RetryAccounts == kind # "phone" /\ view = "finished" /\ ~Retrying /\ ~overlap => res = Cardinality(FailedItems)

\* Once the window is closed and no run or timer is left, the page's listings
\* show what is stored (useBackupLiveSync, onDone), unless two runs went on
\* together: a retry refreshes nothing, and a background run that was waiting
\* for its folder closes the window under it.
ListingFresh == view = "closed" /\ ~timer /\ kind # "phone" /\ ~Over /\ ~overlap => fresh

\* "They are safely backed up in Apollo SFS": what is deleted from the Drive
\* or the mailbox is stored (handleCleanup, deleteProviderMessages).
SafelyBackedUp == Items \ source \subseteq Backing
=============================================================================
