----------------------------- MODULE Invitations -----------------------------
(* Invitations, by which accounts are made: the administrator's page, from    *)
(* which they are sent to an address, to somebody who asked for access, or    *)
(* anew, and are revoked; another administrator at the same; and the guest,   *)
(* who registers with a link.  A mail sent anew has a new link, and only the  *)
(* latest link of an invitation is good.                                      *)
EXTENDS Integers, FiniteSets

CONSTANTS Guests,                    \* addresses, all of which asked for access
          MaxInvites,                \* rows
          MaxLinks,                  \* links made
          Jobs                       \* calls of administrators under way

VARIABLES ui,                        \* the page
          srv                        \* invitations, calls, registration, accounts
vars == <<ui, srv>>

Invs == 1..MaxInvites
Nobody == "nobody"
NoInv == [to |-> Nobody, link |-> 0, mail |-> "due", accepted |-> FALSE, revoked |-> FALSE]
NoJob == [at |-> "none", kind |-> "none", inv |-> 0, to |-> Nobody, link |-> 0, mine |-> FALSE]
NoReg == [at |-> "none", inv |-> 0, link |-> 0]
Section(tab) == [tab |-> tab, creating |-> FALSE, resending |-> 0, panel |-> Nobody, provisioning |-> Nobody]
Init == /\ ui = Section("access")
        /\ srv = [inv |-> [i \in Invs |-> NoInv], made |-> 0, jobs |-> [j \in Jobs |-> NoJob],
                  reg |-> NoReg, known |-> {}, account |-> [g \in Guests |-> 0], moved |-> {}]

Open(row) == row.to # Nobody /\ ~row.accepted /\ ~row.revoked
Asks(kind, i, to, mine) == \E j \in Jobs :
  /\ srv.jobs[j].at = "none"
  /\ srv' = [srv EXCEPT !.jobs[j] = [at |-> "asked", kind |-> kind, inv |-> i, to |-> to, link |-> 0, mine |-> mine]]

----------------------------------------------------------------------------
(* The page: a section for requests, one for invitations.                  *)

\* The section that is left is gone with what it waits for.
OpenTab == \E tab \in {"access", "invitations"} \ {ui.tab} :
  /\ ui' = Section(tab)
  /\ srv' = [srv EXCEPT !.jobs = [j \in Jobs |-> IF @[j].at \in {"ok", "refused"} THEN NoJob
                                                 ELSE [@[j] EXCEPT !.mine = FALSE]]]
Invite == /\ ui.tab = "invitations" /\ ~ui.creating /\ ui' = [ui EXCEPT !.creating = TRUE]
          /\ \E g \in Guests : Asks("create", 0, g, TRUE)
\* The list may be out of date, and offer to act on what was closed since.
Shown(i) == ui.tab = "invitations" /\ srv.inv[i].to # Nobody
\* An old link, copied from a list out of date, is of no use.
CopyLink == \E i \in Invs : /\ Shown(i) /\ UNCHANGED ui
                            /\ srv' = [srv EXCEPT !.inv[i].mail = "at hand"]
\* Of several sent anew only the latest is known to be under way.
Resend == \E i \in Invs : /\ Shown(i) /\ ui.resending # i /\ ui' = [ui EXCEPT !.resending = i]
                          /\ Asks("resend", i, Nobody, TRUE)
Revoke == \E i \in Invs : Shown(i) /\ Asks("revoke", i, Nobody, TRUE) /\ UNCHANGED ui
\* A request is provisioned from a panel; no mark forbids to do so again.
Provision == \E g \in Guests : /\ ui.tab = "access" /\ ui.panel # g
                               /\ ui' = [ui EXCEPT !.panel = g] /\ UNCHANGED srv
ClosePanel == ui.panel # Nobody /\ ui' = [ui EXCEPT !.panel = Nobody] /\ UNCHANGED srv
SendInvite == /\ ui.panel \in Guests \ {ui.provisioning} /\ ui' = [ui EXCEPT !.provisioning = ui.panel]
              /\ Asks("provision", 0, ui.panel, TRUE)
OtherAsks == /\ UNCHANGED ui
             /\ \/ \E g \in Guests : Asks("create", 0, g, FALSE)
                \/ \E i \in Invs, kind \in {"resend", "revoke"} : Open(srv.inv[i]) /\ Asks(kind, i, Nobody, FALSE)

----------------------------------------------------------------------------
(* The calls.  Whether a mail could be queued is not told to who asked.     *)

Ends(j, at) == [srv EXCEPT !.jobs[j] = IF @.mine THEN [@ EXCEPT !.at = at, !.to = Nobody, !.link = 0] ELSE NoJob]
NewLink == srv.made + 1
MayMake == srv.made < MaxLinks
NewRow == CHOOSE i \in Invs : srv.inv[i].to = Nobody
\* The index on the addresses of open invitations, those that are too late included.
Pending(g) == \E i \in Invs : srv.inv[i].to = g /\ Open(srv.inv[i])
\* The id of the row is not read back: the request's mark, which refers to it, always
\* fails, and is not missed.
CreateInvitation == \E j \in Jobs :
  LET job == srv.jobs[j] IN
  /\ job.at = "asked" /\ job.kind \in {"create", "provision"} /\ UNCHANGED ui
  /\ \/ Pending(job.to) /\ srv' = Ends(j, "refused")
     \/ /\ ~Pending(job.to) /\ MayMake /\ \E i \in Invs : srv.inv[i].to = Nobody
        /\ srv' = [srv EXCEPT !.inv[NewRow] = [NoInv EXCEPT !.to = job.to, !.link = NewLink],
                              !.jobs[j] = [@ EXCEPT !.at = "mail", !.to = Nobody, !.link = NewLink],
                              !.made = NewLink]
GetInvitationByID == \E j \in Jobs :
  /\ srv.jobs[j].at = "asked" /\ srv.jobs[j].kind = "resend" /\ UNCHANGED ui
  /\ srv' = IF Open(srv.inv[srv.jobs[j].inv]) THEN [srv EXCEPT !.jobs[j].at = "read"] ELSE Ends(j, "refused")
InUse(i) == srv.reg.at # "none" /\ srv.reg.inv = i
\* What was closed meanwhile keeps its link; the mail has the new one all the same.
RefreshInvitationToken == \E j \in Jobs :
  LET i == srv.jobs[j].inv IN
  /\ srv.jobs[j].at = "read" /\ MayMake /\ UNCHANGED ui
  /\ srv' = [srv EXCEPT !.inv[i] = IF Open(@) THEN [@ EXCEPT !.link = NewLink, !.mail = "due"] ELSE @,
                        !.jobs[j] = [@ EXCEPT !.at = "mail", !.link = NewLink], !.made = NewLink,
                        !.moved = IF InUse(i) THEN @ \cup {i} ELSE @]
\* A mail with another link than the latest is of no use.
Mailed(j, mail) ==
  [i \in Invs |-> IF srv.inv[i].link = srv.jobs[j].link /\ srv.inv[i].mail = "due"
                  THEN [srv.inv[i] EXCEPT !.mail = mail] ELSE srv.inv[i]]
SendInvitation == \E j \in Jobs, mail \in {"at hand", "lost"} :
  /\ srv.jobs[j].at = "mail" /\ UNCHANGED ui
  /\ srv' = [Ends(j, "ok") EXCEPT !.inv = Mailed(j, mail)]
RevokeInvitation == \E j \in Jobs :
  /\ srv.jobs[j].at = "asked" /\ srv.jobs[j].kind = "revoke" /\ UNCHANGED ui
  /\ srv' = [Ends(j, "ok") EXCEPT !.inv[srv.jobs[j].inv].revoked = TRUE]
JobFails == \E j \in Jobs :
  /\ srv.jobs[j].at \in {"asked", "read", "mail"} /\ UNCHANGED ui
  /\ srv' = [Ends(j, "refused") EXCEPT !.inv = IF srv.jobs[j].at = "mail" THEN Mailed(j, "lost") ELSE @]
\* A success closes the panel, whomever it is open for by now.
Answers == \E j \in Jobs :
  LET job == srv.jobs[j] IN
  /\ job.at \in {"ok", "refused"} /\ srv' = [srv EXCEPT !.jobs[j] = NoJob]
  /\ ui' = [ui EXCEPT !.creating = @ /\ job.kind # "create",
                      !.resending = IF job.kind = "resend" THEN 0 ELSE @,
                      !.provisioning = IF job.kind = "provision" THEN Nobody ELSE @,
                      !.panel = IF job.kind = "provision" /\ job.at = "ok" THEN Nobody ELSE @]

----------------------------------------------------------------------------
(* The guest, who registers with a link that is at hand and good.  What is   *)
(* refused, because it is too late or not good, changes nothing.            *)

ValidateInvitation == \E i \in Invs :
  /\ srv.reg.at = "none" /\ Open(srv.inv[i]) /\ srv.inv[i].mail = "at hand" /\ UNCHANGED ui
  /\ srv' = [srv EXCEPT !.reg = [at |-> "valid", inv |-> i, link |-> srv.inv[i].link]]
\* The identity provider knows an address once, and for good.
KcCreateUser ==
  LET g == srv.inv[srv.reg.inv].to IN
  /\ srv.reg.at = "valid" /\ UNCHANGED ui
  /\ \/ g \in srv.known /\ srv' = [srv EXCEPT !.reg = NoReg]
     \/ g \notin srv.known /\ srv' = [srv EXCEPT !.known = @ \cup {g}, !.reg.at = "known"]
ProvisionInvitedAppUser ==
  /\ srv.reg.at = "known" /\ UNCHANGED ui
  /\ srv' = [srv EXCEPT !.account[srv.inv[srv.reg.inv].to] = srv.reg.inv, !.reg.at = "made"]
\* Looked for by the link, be it revoked or not; finding none is no error.
AcceptInvitation ==
  /\ srv.reg.at = "made" /\ UNCHANGED ui
  /\ srv' = [srv EXCEPT !.inv[srv.reg.inv].accepted = @ \/ srv.inv[srv.reg.inv].link = srv.reg.link,
                        !.reg = NoReg]
RegisterFails ==
  /\ srv.reg.at # "none" /\ UNCHANGED ui
  /\ srv' = [srv EXCEPT !.reg = NoReg, !.moved = IF srv.reg.at = "made" THEN @ \cup {srv.reg.inv} ELSE @]

----------------------------------------------------------------------------
Page == OpenTab \/ Invite \/ CopyLink \/ Resend \/ Revoke \/ Provision \/ ClosePanel \/ SendInvite \/ OtherAsks
Calls == \/ CreateInvitation \/ GetInvitationByID \/ RefreshInvitationToken \/ SendInvitation
         \/ RevokeInvitation \/ JobFails \/ Answers
Guest == ValidateInvitation \/ KcCreateUser \/ ProvisionInvitedAppUser \/ AcceptInvitation \/ RegisterFails
Next == Page \/ Calls \/ Guest
Spec == Init /\ [][Next]_vars

----------------------------------------------------------------------------
\* However often a request is provisioned, an address has one open invitation.
OneOpenEach == \A i, k \in Invs :
  Open(srv.inv[i]) /\ Open(srv.inv[k]) /\ srv.inv[i].to = srv.inv[k].to => i = k
\* The latest link of an open invitation is mailed, or about to be, unless that failed.
LinkIsMailed == \A i \in Invs : Open(srv.inv[i]) =>
  \/ srv.inv[i].mail # "due"
  \/ \E j \in Jobs : srv.jobs[j].at = "mail" /\ srv.jobs[j].link = srv.inv[i].link
\* An account spends the invitation it was made with, unless that was sent anew
\* during the registration or its last step was lost.
UsedIsAccepted == \A g \in Guests : srv.account[g] # 0 =>
  LET i == srv.account[g] IN
  /\ srv.inv[i].to = g
  /\ srv.inv[i].accepted \/ i \in srv.moved \/ (srv.reg.at = "made" /\ srv.reg.inv = i)
=============================================================================
