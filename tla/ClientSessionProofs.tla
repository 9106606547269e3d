------------------------- MODULE ClientSessionProofs -------------------------
(***************************************************************************)
(* The session of a client, for any number of requests, logins, expiries   *)
(* and faults: the client is not left behind, and a session is never       *)
(* refreshed the wrong way.                                                *)
(*                                                                         *)
(* The argument: a pair that was issued and has not arrived is in exactly  *)
(* one answer; nobody can have sent it, so its refresh token is unused     *)
(* when it is stored.  Most steps neither issue nor store a pair; what     *)
(* they may do to the requests is stated once (Quiet).                     *)
(***************************************************************************)
EXTENDS ClientSession, TLAPS

(* Types, as far as the argument needs them.                               *)
IssuedOK ==
  /\ sessionOf \in Seq(Nat) /\ \A p \in 1 .. Issued : sessionOf[p] \in 1 .. logins
  /\ logins \in 0 .. MaxLogins /\ methodOf \in [1 .. MaxLogins -> Methods]
  /\ usable \subseteq 1 .. Issued /\ stored \in 0 .. Issued /\ late \in BOOLEAN
ReqsOK ==
  /\ DOMAIN req = Reqs
  /\ \A r \in Reqs : /\ {"st", "ref", "new"} \subseteq DOMAIN req[r]
                     /\ req[r].ref \in 0 .. Issued /\ req[r].new \in 0 .. Issued
                     /\ req[r].st = "refreshed" => req[r].new # 0

(* A pair on its way is in one answer only, was never stored or sent, and  *)
(* so its refresh token has not been used.                                 *)
Undelivered ==
  \A r \in Reqs : req[r].new # 0 =>
    /\ req[r].st \in {"ok", "refreshed"} /\ req[r].new \in usable /\ req[r].new # stored
    /\ \A q \in Reqs : req[q].ref # req[r].new /\ (q # r => req[q].new # req[r].new)

(* The page logs in with a password only.                                  *)
WebPassword == ~Mobile => \A s \in 1 .. logins : methodOf[s] = "password"

ClientInv == IssuedOK /\ ReqsOK /\ Undelivered /\ WebPassword /\ NotLeftBehind /\ MethodMatches

(* A step that neither issues nor stores a pair: what was on its way stays *)
(* so or is dropped, and what is sent is what the client has stored.       *)
QuietReq(q) ==
  /\ {"st", "ref", "new"} \subseteq DOMAIN req'[q]
  /\ \/ req'[q].new = req[q].new /\ (req[q].new # 0 => req'[q].st = req[q].st)
     \/ req'[q].new = 0 /\ (req[q].new # 0 => dropped')
  /\ req'[q].st = "refreshed" => req'[q].new # 0
  /\ \/ req'[q].ref = req[q].ref /\ (req'[q].st = "sent" => req[q].st = "sent")
     \/ req'[q].ref = 0
     \/ req'[q].ref = stored /\ (req'[q].st = "sent" => ~Mobile \/ method # "broker")
Quiet ==
  /\ UNCHANGED <<platform, sessionOf, methodOf, usable, stored, method, logins, late>>
  /\ dropped => dropped'
  /\ DOMAIN req' = Reqs /\ \A q \in Reqs : QuietReq(q)

----------------------------------------------------------------------------
LEMMA ClientInitially == Init => ClientInv
<1> SUFFICES ASSUME Init PROVE ClientInv
  OBVIOUS
<1>1. sessionOf = << >> /\ Issued = 0 /\ usable = {} /\ stored = 0 /\ logins = 0 /\ late = FALSE
  BY DEF Init, Issued
<1>2. methodOf \in [1 .. MaxLogins -> Methods] /\ req = [r \in Reqs |-> Unsent]
  BY DEF Init, Methods
<1>3. IssuedOK
  <2>1. sessionOf \in Seq(Nat) /\ 1 .. Issued = {}
    BY <1>1
  <2>2. logins \in 0 .. MaxLogins
    BY <1>1, ClientSessionAssumption
  <2>3. \A p \in 1 .. Issued : sessionOf[p] \in 1 .. logins
    BY <2>1
  <2>4. usable \subseteq 1 .. Issued /\ stored \in 0 .. Issued
    BY <1>1
  <2>5. late \in BOOLEAN
    BY <1>1
  <2>. QED
    BY <1>2, <2>1, <2>2, <2>3, <2>4, <2>5 DEF IssuedOK
<1>4. ReqsOK /\ Undelivered
  BY <1>1, <1>2 DEF ReqsOK, Undelivered, Unsent
<1>5. WebPassword /\ NotLeftBehind /\ MethodMatches
  BY <1>1, <1>2 DEF WebPassword, NotLeftBehind, MethodMatches, Unsent
<1>. QED
  BY <1>3, <1>4, <1>5 DEF ClientInv

LEMMA IssuedFacts ==
  ASSUME IssuedOK
  PROVE  /\ Issued \in Nat
         /\ \A p \in 1 .. Issued : sessionOf[p] \in 1 .. logins /\ methodOf[sessionOf[p]] \in Methods
         /\ WebPassword /\ ~Mobile => \A p \in 1 .. Issued : methodOf[sessionOf[p]] = "password"
<1>1. Issued \in Nat
  BY DEF IssuedOK, Issued
<1>2. 1 .. logins \subseteq 1 .. MaxLogins
  BY ClientSessionAssumption DEF IssuedOK
<1>. QED
  BY <1>1, <1>2 DEF IssuedOK, WebPassword

LEMMA QuietStep == ASSUME ClientInv, Quiet PROVE ClientInv'
<1>1. IssuedOK' /\ WebPassword' /\ Issued' = Issued
  BY DEF ClientInv, Quiet, IssuedOK, WebPassword, Mobile, Issued
<1>2. ReqsOK'
  <2> SUFFICES ASSUME NEW q \in Reqs
               PROVE  /\ {"st", "ref", "new"} \subseteq DOMAIN req'[q]
                      /\ req'[q].ref \in 0 .. Issued /\ req'[q].new \in 0 .. Issued
                      /\ req'[q].st = "refreshed" => req'[q].new # 0
    BY <1>1 DEF Quiet, ReqsOK
  <2>1. /\ req[q].ref \in 0 .. Issued /\ req[q].new \in 0 .. Issued
        /\ stored \in 0 .. Issued /\ 0 \in 0 .. Issued
    BY IssuedFacts DEF ClientInv, IssuedOK, ReqsOK
  <2>2. QuietReq(q)
    BY DEF Quiet
  <2>. QED
    BY <2>1, <2>2 DEF QuietReq
<1>3. Undelivered'
  BY DEF ClientInv, Quiet, QuietReq, Undelivered, IssuedOK, ReqsOK
<1>4. NotLeftBehind'
  BY DEF ClientInv, Quiet, QuietReq, NotLeftBehind
<1>5. MethodMatches'
  <2> SUFFICES ASSUME ~late PROVE MethodMatches'
    BY DEF Quiet, MethodMatches
  <2>1. stored # 0 => methodOf[sessionOf[stored]] \in Methods /\ (~Mobile => methodOf[sessionOf[stored]] = "password")
    <3>1. stored # 0 => stored \in 1 .. Issued
      BY IssuedFacts DEF ClientInv, IssuedOK
    <3>. QED
      BY <3>1, IssuedFacts DEF ClientInv
  <2>. QED
    BY <2>1 DEF ClientInv, Quiet, QuietReq, MethodMatches, Mobile, Methods
<1>. QED
  BY <1>1, <1>2, <1>3, <1>4, <1>5 DEF ClientInv

(* A pair is added at the end.                                             *)
LEMMA AppendFacts ==
  ASSUME NEW s \in Seq(Nat), NEW x \in Nat
  PROVE  /\ Append(s, x) \in Seq(Nat) /\ Len(Append(s, x)) = Len(s) + 1
         /\ Append(s, x)[Len(s) + 1] = x /\ \A p \in 1 .. Len(s) : Append(s, x)[p] = s[p]
OBVIOUS

(* A refresh, by the server behind a request or by the app: the used token *)
(* has a successor of the same session, in the answer to r.                *)
LEMMA GrantStep ==
  ASSUME ClientInv, NEW r \in Reqs, req[r].st \in {"sent", "refreshing"}, req[r].ref \in usable,
         Grant(req[r].ref), NEW to \in {"ok", "refreshed"},
         req' = [req EXCEPT ![r].st = to, ![r].new = Issued + 1],
         UNCHANGED <<platform, methodOf, stored, method, logins, dropped, late>>
  PROVE  ClientInv'
<1> DEFINE p == req[r].ref
           n == Issued + 1
<1>1. /\ sessionOf' \in Seq(Nat) /\ Issued' = n /\ sessionOf'[n] = sessionOf[p]
      /\ \A i \in 1 .. Issued : sessionOf'[i] = sessionOf[i]
  BY AppendFacts DEF Grant, ClientInv, IssuedOK, Issued
<1>2. usable' = (usable \ {p}) \cup {n} /\ p \in 1 .. Issued /\ Issued \in Nat
  BY DEF Grant, ClientInv, IssuedOK, Issued
<1>3. /\ req'[r].st = to /\ req'[r].new = n /\ req'[r].ref = p /\ {"st", "ref", "new"} \subseteq DOMAIN req'[r]
      /\ DOMAIN req' = Reqs /\ \A q \in Reqs \ {r} : req'[q] = req[q]
  BY DEF ClientInv, ReqsOK
<1>4. IssuedOK'
  <2>1. \A i \in 1 .. n : i = n \/ i \in 1 .. Issued
    BY <1>2
  <2>2. \A i \in 1 .. Issued' : sessionOf'[i] \in 1 .. logins
    BY <1>1, <1>2, <2>1 DEF ClientInv, IssuedOK
  <2>3. logins' = logins
    BY DEF ClientInv
  <2>4. usable' \subseteq 1 .. Issued' /\ stored' \in 0 .. Issued'
    BY <1>1, <1>2 DEF ClientInv, IssuedOK
  <2>. QED
    BY <1>1, <2>2, <2>3, <2>4 DEF ClientInv, IssuedOK
<1>5. ReqsOK'
  BY <1>1, <1>2, <1>3 DEF ClientInv, ReqsOK
<1>6. Undelivered'
  BY <1>2, <1>3 DEF ClientInv, Undelivered, ReqsOK, IssuedOK
<1>7. WebPassword'
  BY DEF ClientInv, WebPassword, Mobile
<1>8. NotLeftBehind'
  <2> SUFFICES ASSUME stored # 0, ~dropped
               PROVE  stored \in usable' \/ \E q \in Reqs : req'[q].new # 0 /\ sessionOf'[req'[q].new] = sessionOf'[stored]
    BY DEF NotLeftBehind
  <2>1. stored \in 1 .. Issued /\ sessionOf'[stored] = sessionOf[stored]
    <3>1. stored \in 1 .. Issued
      BY <1>2 DEF ClientInv, IssuedOK
    <3>. QED
      BY <1>1, <3>1
  <2>2. CASE stored = p
    <3>1. req'[r].new # 0
      BY <1>2, <1>3
    <3>2. sessionOf'[req'[r].new] = sessionOf'[stored]
      BY <1>1, <1>3, <2>1, <2>2
    <3>. QED
      BY <3>1, <3>2
  <2>3. CASE stored \in usable /\ stored # p
    BY <1>2, <2>3
  <2>4. CASE stored \notin usable
    <3>1. PICK q \in Reqs : req[q].new # 0 /\ sessionOf[req[q].new] = sessionOf[stored]
      BY <2>4 DEF ClientInv, NotLeftBehind
    <3>2. q # r /\ req[q].new \in 1 .. Issued
      BY <3>1 DEF ClientInv, Undelivered, ReqsOK
    <3>. QED
      BY <1>1, <1>3, <2>1, <3>1, <3>2
  <2>. QED
    BY <2>2, <2>3, <2>4
<1>9. MethodMatches'
  <2>1. stored # 0 => sessionOf'[stored] = sessionOf[stored]
    BY <1>1 DEF ClientInv, IssuedOK, Issued
  <2>2. \A q \in Reqs \ {r} : req[q].ref # 0 => sessionOf'[req[q].ref] = sessionOf[req[q].ref]
    BY <1>1 DEF ClientInv, ReqsOK
  <2>. QED
    BY <1>3, <2>1, <2>2 DEF ClientInv, MethodMatches, Mobile
<1>. QED
  BY <1>4, <1>5, <1>6, <1>7, <1>8, <1>9 DEF ClientInv

(* A pair arrives: it becomes the stored one, and its token is unused.     *)
LEMMA StoreStep ==
  ASSUME ClientInv, NEW r \in Reqs, req[r].new # 0, stored' = req[r].new,
         UNCHANGED <<platform, sessionOf, methodOf, usable, logins, dropped>>,
         late' = (late \/ Overtaken(req[r].new)),
         method' = method \/ method' = methodOf[sessionOf[stored']],
         DOMAIN req' = Reqs, req'[r].new = 0,
         \A q \in Reqs : /\ {"st", "ref", "new"} \subseteq DOMAIN req'[q]
                         /\ req'[q].new # 0 => req'[q].new = req[q].new /\ req'[q].st = req[q].st
                         /\ req'[q].new = 0 => req[q].new = 0 \/ q = r
                         /\ req'[q].st = "refreshed" => req'[q].new # 0
                         /\ \/ req'[q].ref = req[q].ref /\ (req'[q].st = "sent" => req[q].st = "sent")
                            \/ req'[q].ref = 0
                            \/ req'[q].ref = stored' /\ method' = methodOf[sessionOf[stored']] /\ method' # "broker"
  PROVE  ClientInv'
<1>1. /\ stored' \in usable /\ stored' \in 1 .. Issued /\ Issued' = Issued
      /\ methodOf[sessionOf[stored']] \in Methods
  <2>1. stored' \in usable
    BY DEF ClientInv, Undelivered
  <2>2. stored' \in 1 .. Issued /\ Issued' = Issued
    BY <2>1 DEF ClientInv, IssuedOK, Issued
  <2>. QED
    BY <2>1, <2>2, IssuedFacts DEF ClientInv
<1>2. IssuedOK' /\ WebPassword' /\ NotLeftBehind'
  BY <1>1 DEF ClientInv, IssuedOK, WebPassword, NotLeftBehind, Mobile
<1>3. ReqsOK'
  <2>1. 0 \in 0 .. Issued /\ stored' \in 0 .. Issued
    BY <1>1, IssuedFacts DEF ClientInv
  <2>2. \A q \in Reqs : req'[q].ref \in 0 .. Issued /\ req'[q].new \in 0 .. Issued
    BY <2>1 DEF ClientInv, ReqsOK
  <2>. QED
    BY <1>1, <2>2 DEF ReqsOK
<1>4. Undelivered'
  BY DEF ClientInv, Undelivered, ReqsOK
<1>5. MethodMatches'
  <2> SUFFICES ASSUME ~late' PROVE MethodMatches'
    BY DEF MethodMatches
  <2>1. ~late /\ stored # 0 /\ sessionOf[stored'] = sessionOf[stored]
    BY DEF Overtaken
  <2>2. Mobile => method' = methodOf[sessionOf[stored']]
    BY <2>1 DEF ClientInv, MethodMatches
  <2>. QED
    BY <1>1, <2>1, <2>2 DEF ClientInv, MethodMatches, Mobile, Methods
<1>. QED
  BY <1>2, <1>3, <1>4, <1>5 DEF ClientInv

----------------------------------------------------------------------------
(* The steps that are quiet.                                               *)
LEMMA SettledFacts ==
  /\ Unsent.st = "unsent" /\ Unsent.ref = 0 /\ Unsent.new = 0 /\ {"st", "ref", "new"} \subseteq DOMAIN Unsent
  /\ Settled.st = "settled" /\ Settled.ref = 0 /\ Settled.new = 0 /\ {"st", "ref", "new"} \subseteq DOMAIN Settled
BY DEF Unsent, Settled

LEMMA SendQuiet == ASSUME ClientInv, NEW r \in Reqs, Send(r) PROVE Quiet
<1>1. /\ DOMAIN req' = Reqs /\ \A q \in Reqs \ {r} : req'[q] = req[q]
      /\ req'[r] = [Unsent EXCEPT !.st = "sent", !.kind = Asked, !.acc = Credentials.acc, !.ref = Credentials.ref]
  BY DEF Send, ClientInv, ReqsOK
<1>2. /\ req'[r].st = "sent" /\ req'[r].new = 0 /\ {"st", "ref", "new"} \subseteq DOMAIN req'[r]
      /\ req'[r].ref = IF Mobile /\ method = "broker" THEN 0 ELSE stored
  BY <1>1 DEF Unsent, Credentials, MethodStored
<1>3. req[r].new = 0
  BY DEF Send, Unsent
<1>. QED
  BY <1>1, <1>2, <1>3 DEF Send, Quiet, QuietReq, server, ClientInv, ReqsOK, bounds

(* One request changes its state, or settles.                              *)
LEMMA MoveQuiet ==
  ASSUME ClientInv, NEW r \in Reqs, NEW to \in {"ok", "401", "queued", "reading", "refused"},
         req[r].st \notin {"ok", "refreshed"},
         req' = [req EXCEPT ![r].st = to] \/ req' = [req EXCEPT ![r].st = to, ![r].retry = TRUE],
         UNCHANGED <<platform, sessionOf, methodOf, usable, stored, method, logins, dropped, late>>
  PROVE  Quiet
<1>1. /\ DOMAIN req' = Reqs /\ \A q \in Reqs \ {r} : req'[q] = req[q]
      /\ req'[r].st = to /\ req'[r].new = req[r].new /\ req'[r].ref = req[r].ref
      /\ {"st", "ref", "new"} \subseteq DOMAIN req'[r]
  BY DEF ClientInv, ReqsOK
<1>2. req[r].new = 0
  BY DEF ClientInv, Undelivered
<1>. QED
  BY <1>1, <1>2 DEF Quiet, QuietReq, ClientInv, ReqsOK

LEMMA SettleQuiet ==
  ASSUME ClientInv, NEW r \in Reqs, req' = [req EXCEPT ![r] = Settled], dropped => dropped',
         req[r].new # 0 => dropped',
         UNCHANGED <<platform, sessionOf, methodOf, usable, stored, method, logins, late>>
  PROVE  Quiet
<1>1. DOMAIN req' = Reqs /\ req'[r] = Settled /\ \A q \in Reqs \ {r} : req'[q] = req[q]
  BY DEF ClientInv, ReqsOK
<1>. QED
  BY <1>1, SettledFacts DEF Quiet, QuietReq, ClientInv, ReqsOK

LEMMA ReadQuiet ==
  ASSUME ClientInv, NEW r \in Reqs, ReadToken(r) PROVE Quiet
<1>1. req[r].new = 0
  BY DEF ReadToken, ClientInv, Undelivered
<1>2. CASE req' = [req EXCEPT ![r].st = "refreshing", ![r].ref = stored]
  <2>1. /\ DOMAIN req' = Reqs /\ \A q \in Reqs \ {r} : req'[q] = req[q]
        /\ req'[r].st = "refreshing" /\ req'[r].new = req[r].new /\ req'[r].ref = stored
        /\ {"st", "ref", "new"} \subseteq DOMAIN req'[r]
    BY <1>2 DEF ClientInv, ReqsOK
  <2>. QED
    BY <1>1, <2>1 DEF ReadToken, Quiet, QuietReq, ClientInv, ReqsOK, server, bounds
<1>3. CASE req' = [req EXCEPT ![r] = Settled]
  BY <1>1, <1>3, SettleQuiet DEF ReadToken, server, bounds
<1>. QED
  BY <1>2, <1>3 DEF ReadToken

LEMMA ReopenQuiet == ASSUME ClientInv, Reopen PROVE Quiet
<1>1. /\ DOMAIN req' = Reqs
      /\ \A q \in Reqs : (req'[q] = Unsent /\ req[q] = Unsent) \/ req'[q] = Settled
  BY DEF Reopen
<1>2. dropped => dropped'
  BY DEF Reopen
<1>3. \A q \in Reqs : req[q].new # 0 => dropped'
  BY DEF Reopen
<1>. QED
  BY <1>1, <1>2, <1>3, SettledFacts DEF Reopen, Quiet, QuietReq, server

----------------------------------------------------------------------------
(* Logging in and out.                                                     *)
LEMMA LoginStep == ASSUME ClientInv, NEW m \in Methods, Login(m) PROVE ClientInv'
<1> DEFINE n == Issued + 1
<1>1. /\ logins \in Nat /\ logins + 1 \in 1 .. MaxLogins /\ Issued \in Nat /\ (m = "broker" => Mobile)
  BY IssuedFacts, ClientSessionAssumption DEF Login, LoginOffered, ClientInv, IssuedOK
<1>2. /\ sessionOf' \in Seq(Nat) /\ Issued' = n /\ sessionOf'[n] = logins + 1
      /\ \A i \in 1 .. Issued : sessionOf'[i] = sessionOf[i]
  BY <1>1, AppendFacts DEF Login, Opened, ClientInv, IssuedOK, Issued
<1>3. /\ methodOf' \in [1 .. MaxLogins -> Methods] /\ methodOf'[logins + 1] = m
      /\ \A s \in 1 .. logins : methodOf'[s] = methodOf[s]
  BY <1>1 DEF Login, Opened, ClientInv, IssuedOK
<1>4. /\ usable' = usable \cup {n} /\ stored' = n /\ method' = m /\ logins' = logins + 1
      /\ UNCHANGED <<platform, req, dropped, late>>
  BY DEF Login, Opened
<1>5. IssuedOK'
  <2>1. \A i \in 1 .. n : i = n \/ i \in 1 .. Issued
    BY <1>1
  <2>2. \A i \in 1 .. Issued' : sessionOf'[i] \in 1 .. logins'
    <3> SUFFICES ASSUME NEW i \in 1 .. n PROVE sessionOf'[i] \in 1 .. logins + 1
      BY <1>2, <1>4
    <3>1. CASE i = n
      BY <1>1, <1>2, <3>1
    <3>2. CASE i \in 1 .. Issued
      <4>1. sessionOf'[i] = sessionOf[i] /\ sessionOf[i] \in 1 .. logins
        BY <1>2, <3>2 DEF ClientInv, IssuedOK
      <4>. QED
        BY <1>1, <4>1
    <3>. QED
      BY <2>1, <3>1, <3>2
  <2>3. usable' \subseteq 1 .. Issued' /\ stored' \in 0 .. Issued' /\ logins' \in 0 .. MaxLogins
    BY <1>1, <1>2, <1>4 DEF ClientInv, IssuedOK
  <2>. QED
    BY <1>2, <1>3, <1>4, <2>2, <2>3 DEF IssuedOK, ClientInv
<1>6. ReqsOK'
  BY <1>1, <1>2, <1>4 DEF ClientInv, ReqsOK
<1>7. Undelivered'
  BY <1>1, <1>4 DEF ClientInv, Undelivered, ReqsOK
<1>8. WebPassword' /\ NotLeftBehind'
  <2>1. \A s \in 1 .. logins' : s = logins + 1 \/ s \in 1 .. logins
    BY <1>1, <1>4
  <2>. QED
    BY <1>1, <1>3, <1>4, <2>1 DEF ClientInv, WebPassword, NotLeftBehind, Mobile, Methods
<1>9. MethodMatches'
  <2>1. \A q \in Reqs : req[q].ref # 0 => methodOf'[sessionOf'[req[q].ref]] = methodOf[sessionOf[req[q].ref]]
    <3> SUFFICES ASSUME NEW q \in Reqs, req[q].ref # 0
                 PROVE  methodOf'[sessionOf'[req[q].ref]] = methodOf[sessionOf[req[q].ref]]
      OBVIOUS
    <3>1. req[q].ref \in 1 .. Issued
      BY <1>1 DEF ClientInv, ReqsOK
    <3>. QED
      BY <1>2, <1>3, <3>1 DEF ClientInv, IssuedOK
  <2>2. methodOf'[sessionOf'[stored']] = method'
    BY <1>2, <1>3, <1>4
  <2>. QED
    BY <1>4, <2>1, <2>2 DEF ClientInv, MethodMatches, Mobile
<1>. QED
  BY <1>5, <1>6, <1>7, <1>8, <1>9 DEF ClientInv

(* The tokens are cleared, by the user or because the refresh failed.      *)
LEMMA ClearStep ==
  ASSUME ClientInv, stored' = 0, usable' \in {usable, usable \ {stored}}, DOMAIN req' = Reqs,
         \A q \in Reqs : req'[q] = req[q] \/ (req'[q] = Settled /\ req[q].new = 0),
         UNCHANGED <<platform, sessionOf, methodOf, logins, dropped, late>>
  PROVE  ClientInv'
<1>1. 0 \in 0 .. Issued /\ Issued' = Issued
  BY IssuedFacts DEF ClientInv, Issued
<1>2. IssuedOK' /\ WebPassword' /\ NotLeftBehind'
  BY <1>1 DEF ClientInv, IssuedOK, WebPassword, NotLeftBehind, Mobile
<1>3. ReqsOK'
  BY <1>1, SettledFacts DEF ClientInv, ReqsOK
<1>4. Undelivered'
  <2> SUFFICES ASSUME NEW r \in Reqs, req'[r].new # 0
               PROVE  /\ req'[r].st \in {"ok", "refreshed"} /\ req'[r].new \in usable' /\ req'[r].new # stored'
                      /\ \A q \in Reqs : req'[q].ref # req'[r].new /\ (q # r => req'[q].new # req'[r].new)
    BY DEF Undelivered
  <2>1. req'[r] = req[r]
    BY SettledFacts
  <2>2. req'[r].new \in usable'
    BY <2>1 DEF ClientInv, Undelivered
  <2>. QED
    BY <2>1, <2>2, SettledFacts DEF ClientInv, Undelivered
<1>5. MethodMatches'
  BY SettledFacts DEF ClientInv, MethodMatches
<1>. QED
  BY <1>2, <1>3, <1>4, <1>5 DEF ClientInv

----------------------------------------------------------------------------
LEMMA ServeStep == ASSUME ClientInv, NEW r \in Reqs, Serve(r) PROVE ClientInv'
<1>1. /\ req[r].st = "sent" /\ UNCHANGED <<platform, stored, method, bounds, dropped, late>>
  BY DEF Serve
<1>2. CASE req' = [req EXCEPT ![r].st = "ok"] /\ UNCHANGED server
  BY <1>1, <1>2, MoveQuiet, QuietStep DEF server, bounds
<1>3. CASE /\ req[r].ref \in usable /\ Grant(req[r].ref) /\ UNCHANGED methodOf
           /\ req' = [req EXCEPT ![r].st = "ok", ![r].new = Issued + 1]
  BY <1>1, <1>3, GrantStep DEF bounds
<1>4. CASE req' = [req EXCEPT ![r].st = "401"] /\ UNCHANGED server
  BY <1>1, <1>4, MoveQuiet, QuietStep DEF server, bounds
<1>. QED
  BY <1>2, <1>3, <1>4 DEF Serve

LEMMA ReceiveStep == ASSUME ClientInv, NEW r \in Reqs, ReceiveOk(r) PROVE ClientInv'
<1>1. /\ req' = [req EXCEPT ![r] = Settled] /\ UNCHANGED <<platform, server, method, bounds, dropped>>
      /\ late' = (late \/ Overtaken(req[r].new)) /\ stored' = Kept(req[r].new)
  BY DEF ReceiveOk
<1>2. CASE req[r].new = 0
  <2>1. /\ UNCHANGED <<platform, sessionOf, methodOf, usable, stored, method, logins, late>>
        /\ dropped' = dropped /\ req' = [req EXCEPT ![r] = Settled]
    BY <1>1, <1>2 DEF Kept, Overtaken, server, bounds, ClientInv, IssuedOK
  <2>. QED
    <3>1. Quiet
      BY <1>2, <2>1, SettleQuiet
    <3>. QED
      BY <3>1, QuietStep
<1>3. CASE req[r].new # 0
  <2>1. stored' = req[r].new
    BY <1>1, <1>3 DEF Kept
  <2>2. DOMAIN req' = Reqs /\ req'[r] = Settled /\ \A q \in Reqs \ {r} : req'[q] = req[q]
    BY <1>1 DEF ClientInv, ReqsOK
  <2>3. UNCHANGED <<platform, sessionOf, methodOf, usable, logins, dropped, method>>
    BY <1>1 DEF server, bounds
  <2>4. \A q \in Reqs : /\ {"st", "ref", "new"} \subseteq DOMAIN req'[q]
                        /\ req'[q].new # 0 => req'[q].new = req[q].new /\ req'[q].st = req[q].st
                        /\ req'[q].new = 0 => req[q].new = 0 \/ q = r
                        /\ req'[q].st = "refreshed" => req'[q].new # 0
                        /\ \/ req'[q].ref = req[q].ref /\ (req'[q].st = "sent" => req[q].st = "sent")
                           \/ req'[q].ref = 0
    BY <2>2, SettledFacts DEF ClientInv, ReqsOK
  <2>. QED
    BY <1>1, <1>3, <2>1, <2>2, <2>3, <2>4, SettledFacts, StoreStep
<1>. QED
  BY <1>2, <1>3

LEMMA RefreshStep == ASSUME ClientInv, NEW r \in Reqs, Refresh(r) PROVE ClientInv'
<1>1. req[r].st = "refreshing" /\ UNCHANGED <<platform, methodOf, stored, method, logins, dropped, late>>
  BY DEF Refresh
<1>2. CASE /\ req[r].ref \in usable /\ Grant(req[r].ref)
           /\ req' = [req EXCEPT ![r].st = "refreshed", ![r].new = Issued + 1]
  BY <1>1, <1>2, GrantStep
<1>3. CASE req' = [req EXCEPT ![r].st = "refused"] /\ UNCHANGED <<sessionOf, usable>>
  BY <1>1, <1>3, MoveQuiet, QuietStep
<1>. QED
  BY <1>2, <1>3 DEF Refresh

(* The leader's pair is stored, and all that waited are sent again with it. *)
LEMMA RefreshedStep == ASSUME ClientInv, NEW r \in Reqs, Refreshed(r) PROVE ClientInv'
<1>1. /\ req[r].st = "refreshed" /\ req[r].new # 0 /\ stored' = req[r].new
      /\ late' = (late \/ Overtaken(req[r].new)) /\ method' = methodOf[sessionOf[stored']]
      /\ UNCHANGED <<platform, sessionOf, methodOf, usable, logins, dropped>>
  BY DEF Refreshed, ClientInv, ReqsOK, server, bounds
<1>2. /\ DOMAIN req' = Reqs
      /\ \A q \in Reqs \ (Queued \cup {r}) : req'[q] = req[q]
      /\ \A q \in Queued \cup {r} :
           req'[q] = [[req[q] EXCEPT !.st = "sent"] EXCEPT !.acc = stored', !.new = 0,
                        !.ref = IF method' = "broker" THEN 0 ELSE stored']
  BY DEF Refreshed, Drained, Queued
<1>3. \A q \in Queued \cup {r} :
        /\ {"st", "ref", "new"} \subseteq DOMAIN req'[q] /\ req'[q].st = "sent" /\ req'[q].new = 0
        /\ req'[q].ref = IF method' = "broker" THEN 0 ELSE stored'
  <2> SUFFICES ASSUME NEW q \in Queued \cup {r}
               PROVE  /\ {"st", "ref", "new"} \subseteq DOMAIN req'[q] /\ req'[q].st = "sent"
                      /\ req'[q].new = 0 /\ req'[q].ref = IF method' = "broker" THEN 0 ELSE stored'
    OBVIOUS
  <2>1. q \in Reqs /\ {"st", "ref", "new"} \subseteq DOMAIN req[q]
    BY DEF ClientInv, ReqsOK, Queued
  <2>. QED
    BY <1>2, <2>1
<1>4. \A q \in Queued : req[q].new = 0
  BY DEF Queued, ClientInv, Undelivered
<1>5. \A q \in Reqs : /\ {"st", "ref", "new"} \subseteq DOMAIN req'[q]
                      /\ req'[q].new # 0 => req'[q].new = req[q].new /\ req'[q].st = req[q].st
                      /\ req'[q].new = 0 => req[q].new = 0 \/ q = r
                      /\ req'[q].st = "refreshed" => req'[q].new # 0
                      /\ \/ req'[q].ref = req[q].ref /\ (req'[q].st = "sent" => req[q].st = "sent")
                         \/ req'[q].ref = 0
                         \/ req'[q].ref = stored' /\ method' = methodOf[sessionOf[stored']] /\ method' # "broker"
  <2> TAKE q \in Reqs
  <2>1. CASE q \in Queued \cup {r}
    BY <1>1, <1>3, <1>4, <2>1
  <2>2. CASE q \notin Queued \cup {r}
    BY <1>2, <2>2 DEF ClientInv, ReqsOK
  <2>. QED
    BY <2>1, <2>2
<1>6. req'[r].new = 0
  BY <1>3
<1>. QED
  BY <1>1, <1>2, <1>5, <1>6, StoreStep

LEMMA RefusedStep == ASSUME ClientInv, NEW r \in Reqs, Refused(r) PROVE ClientInv'
<1>1. DOMAIN req' = Reqs /\ \A q \in Reqs : req'[q] = IF q \in Queued \cup {r} THEN Settled ELSE req[q]
  BY DEF Refused, Drained
<1>2. \A q \in Queued \cup {r} : req[q].new = 0
  BY DEF Refused, Queued, ClientInv, Undelivered
<1>3. stored' = 0 /\ UNCHANGED <<platform, sessionOf, methodOf, usable, logins, dropped, late>>
  BY DEF Refused, server, bounds
<1>. QED
  BY <1>1, <1>2, <1>3, ClearStep

LEMMA ProgressStep == ASSUME ClientInv, NEW r \in Reqs, Progress(r) PROVE ClientInv'
<1>1. CASE Expired(r) \/ Reject(r)
  <2>1. req[r].new = 0
    BY <1>1 DEF Expired, Reject, ClientInv, Undelivered
  <2>. QED
    BY <1>1, <2>1, SettleQuiet, QuietStep DEF Expired, Reject, server, bounds
<1>2. CASE Wait(r)
  BY <1>2, MoveQuiet, QuietStep DEF Wait, server, bounds
<1>3. CASE Lead(r)
  BY <1>3, MoveQuiet, QuietStep DEF Lead, server, bounds
<1>4. CASE ReadToken(r)
  BY <1>4, ReadQuiet, QuietStep
<1>. QED
  BY <1>1, <1>2, <1>3, <1>4, ServeStep, ReceiveStep, RefreshStep, RefreshedStep, RefusedStep DEF Progress

LEMMA ClientStep == ClientInv /\ [Next]_vars => ClientInv'
<1> SUFFICES ASSUME ClientInv, [Next]_vars PROVE ClientInv'
  OBVIOUS
<1>1. CASE SignOut
  BY <1>1, ClearStep DEF SignOut, server, bounds, ClientInv, ReqsOK
<1>2. CASE Logout
  <2>1. CASE usable' = usable \ {stored} /\ stored' = 0
    BY <1>2, <2>1, ClearStep DEF Logout, ClientInv, ReqsOK
  <2>2. CASE UNCHANGED <<usable, stored>>
    <3>1. Quiet
      BY <1>2, <2>2 DEF Logout, Quiet, QuietReq, ClientInv, ReqsOK
    <3>. QED
      BY <3>1, QuietStep
  <2>. QED
    BY <1>2, <2>1, <2>2 DEF Logout
<1>3. CASE Reopen
  BY <1>3, ReopenQuiet, QuietStep
<1>4. CASE Expire \/ RestartServer \/ UNCHANGED vars
  <2>1. Quiet
    BY <1>4 DEF Expire, RestartServer, vars, client, server, bounds, Quiet, QuietReq, ClientInv, ReqsOK
  <2>. QED
    BY <2>1, QuietStep
<1>5. ASSUME NEW r \in Reqs, Send(r) PROVE ClientInv'
  BY <1>5, SendQuiet, QuietStep
<1>6. ASSUME NEW r \in Reqs, Lose(r) PROVE ClientInv'
  BY <1>6, SettleQuiet, QuietStep DEF Lose, server
<1>. QED
  BY <1>1, <1>2, <1>3, <1>4, <1>5, <1>6, LoginStep, ProgressStep DEF Next

(* The inductive invariant holds in every reachable state.                 *)
THEOREM ClientInvariance == Spec => []ClientInv
<1>. QED
  BY ClientInitially, ClientStep, PTL DEF Spec

(* However many requests refresh, wait, overtake each other and fail: the  *)
(* refresh token that the client holds is unused, or its successor is on   *)
(* its way, or an answer that carried one was lost.                        *)
THEOREM NeverLeftBehind == Spec => []NotLeftBehind
<1>1. ClientInv => NotLeftBehind
  BY DEF ClientInv
<1>. QED
  BY <1>1, ClientInvariance, PTL

(* A session is refreshed the way it was opened, unless a pair of an       *)
(* earlier session arrived late.                                           *)
THEOREM MethodAlwaysMatches == Spec => []MethodMatches
<1>1. ClientInv => MethodMatches
  BY DEF ClientInv
<1>. QED
  BY <1>1, ClientInvariance, PTL

----------------------------------------------------------------------------
(* Types.  The requests are typed by the number of pairs issued so far,    *)
(* which only grows.                                                       *)

ReqTypes(n) ==
  [st : {"unsent", "settled", "sent", "ok", "401", "queued"} \cup Leading,
   kind : {"data", "me"}, acc : 0 .. n, ref : 0 .. n, retry : BOOLEAN, new : 0 .. n]
ReqsTyped ==
  req \in [Reqs -> ReqTypes(Issued)] /\ \A r \in Reqs : req[r].st = "refreshed" => req[r].new # 0
FlagsTyped == signedIn \in BOOLEAN /\ dropped \in BOOLEAN /\ late \in BOOLEAN /\ abandoned \in BOOLEAN
PairsTyped ==
  /\ platform \in {"mobile", "web"} /\ logins \in 0 .. MaxLogins
  /\ sessionOf \in Seq(Nat) /\ \A p \in 1 .. Issued : sessionOf[p] \in 1 .. logins
  /\ methodOf \in [1 .. MaxLogins -> Methods]
  /\ usable \subseteq 1 .. Issued /\ live \subseteq 1 .. Issued /\ cached \subseteq 1 .. Issued
HeldTyped == stored \in 0 .. Issued /\ method \in Methods

TypesInv == PairsTyped /\ HeldTyped /\ ReqsTyped /\ FlagsTyped

LEMMA UnsentTyped ==
  ASSUME NEW n \in Nat
  PROVE  Unsent \in ReqTypes(n) /\ Settled \in ReqTypes(n) /\ Unsent.st # "refreshed" /\ Settled.st # "refreshed"
<1>1. 0 \in 0 .. n
  OBVIOUS
<1>2. Unsent \in ReqTypes(n) /\ Unsent.st = "unsent"
  BY <1>1 DEF Unsent, ReqTypes
<1>3. \A q \in ReqTypes(n) : [q EXCEPT !.st = "settled"] \in ReqTypes(n) /\ [q EXCEPT !.st = "settled"].st = "settled"
  BY DEF ReqTypes
<1>. QED
  BY <1>2, <1>3 DEF Settled

LEMMA GrantTypes ==
  ASSUME TypesInv, NEW p \in usable, Grant(p), UNCHANGED <<platform, methodOf, logins>>,
         cached' \subseteq cached \cup {Issued + 1}
  PROVE  PairsTyped' /\ Issued \in Nat /\ Issued' = Issued + 1
<1>1. Issued \in Nat /\ p \in 1 .. Issued /\ sessionOf[p] \in 1 .. logins /\ sessionOf[p] \in Nat
  BY DEF TypesInv, PairsTyped, Issued
<1>2. /\ sessionOf' \in Seq(Nat) /\ Issued' = Issued + 1
      /\ sessionOf'[Issued + 1] = sessionOf[p] /\ \A q \in 1 .. Issued : sessionOf'[q] = sessionOf[q]
  BY <1>1, AppendFacts DEF Grant, TypesInv, PairsTyped, Issued
<1>3. \A q \in 1 .. Issued' : sessionOf'[q] \in 1 .. logins
  <2>1. \A q \in 1 .. Issued : sessionOf'[q] \in 1 .. logins
    BY <1>2 DEF TypesInv, PairsTyped
  <2>2. \A q \in 1 .. Issued' : q \in 1 .. Issued \/ q = Issued + 1
    BY <1>1, <1>2
  <2>. QED
    BY <1>1, <1>2, <2>1, <2>2
<1>4. /\ usable' \subseteq 1 .. Issued' /\ live' \subseteq 1 .. Issued' /\ cached' \subseteq 1 .. Issued'
  BY <1>1, <1>2 DEF Grant, TypesInv, PairsTyped
<1>5. /\ platform' \in {"mobile", "web"} /\ logins' \in 0 .. MaxLogins /\ logins' = logins
      /\ methodOf' \in [1 .. MaxLogins -> Methods]
  BY DEF TypesInv, PairsTyped
<1>. QED
  BY <1>1, <1>2, <1>3, <1>4, <1>5 DEF PairsTyped

LEMMA ReqsGrow ==
  ASSUME ReqsTyped, Issued \in Nat, Issued' \in Nat, Issued <= Issued'
  PROVE  \A r \in Reqs : req[r] \in ReqTypes(Issued')
BY DEF ReqsTyped, ReqTypes

LEMMA LoginTypes ==
  ASSUME TypesInv, NEW m \in Methods, Login(m)
  PROVE  TypesInv'
<1>0. Issued \in Nat /\ logins + 1 \in 1 .. MaxLogins
  BY ClientSessionAssumption DEF TypesInv, PairsTyped, Issued, Login, LoginOffered
<1>1. /\ sessionOf' \in Seq(Nat) /\ Issued' = Issued + 1
      /\ sessionOf'[Issued + 1] = logins + 1 /\ \A q \in 1 .. Issued : sessionOf'[q] = sessionOf[q]
  BY <1>0, AppendFacts DEF Login, Opened, TypesInv, PairsTyped, Issued
<1>2. PairsTyped'
  <2>1. \A q \in 1 .. Issued' : sessionOf'[q] \in 1 .. logins'
    <3>1. logins' = logins + 1 /\ logins \in Nat /\ \A q \in 1 .. Issued : sessionOf[q] \in 1 .. logins
      BY ClientSessionAssumption DEF Login, TypesInv, PairsTyped
    <3>. QED
      BY <1>0, <1>1, <3>1
  <2>2. /\ usable' \subseteq 1 .. Issued' /\ live' \subseteq 1 .. Issued' /\ cached' \subseteq 1 .. Issued'
        /\ methodOf' \in [1 .. MaxLogins -> Methods] /\ platform' = platform /\ logins' \in 0 .. MaxLogins
    BY <1>0, <1>1 DEF Login, Opened, TypesInv, PairsTyped
  <2>. QED
    BY <1>1, <2>1, <2>2 DEF TypesInv, PairsTyped
<1>3. HeldTyped' /\ FlagsTyped'
  BY <1>0, <1>1 DEF Login, Opened, TypesInv, HeldTyped, FlagsTyped
<1>4. ReqsTyped'
  BY <1>0, <1>1, ReqsGrow DEF Login, TypesInv, ReqsTyped
<1>. QED
  BY <1>2, <1>3, <1>4 DEF TypesInv

(* A step that issues no pair: the requests are all there is to look at.   *)
LEMMA NothingIssued ==
  ASSUME TypesInv, UNCHANGED <<platform, sessionOf, methodOf, logins>>,
         usable' \subseteq usable, live' \subseteq live, cached' \subseteq cached,
         HeldTyped', FlagsTyped', DOMAIN req' = Reqs, req' = [r \in Reqs |-> req'[r]],
         \A r \in Reqs : req'[r] \in ReqTypes(Issued) /\ (req'[r].st = "refreshed" => req'[r].new # 0)
  PROVE  TypesInv'
<1>1. PairsTyped' /\ Issued' = Issued
  BY DEF TypesInv, PairsTyped, Issued
<1>. QED
  BY <1>1 DEF TypesInv, ReqsTyped

LEMMA ProgressTypes ==
  ASSUME TypesInv, NEW r \in Reqs, Send(r) \/ Lose(r) \/ Progress(r)
  PROVE  TypesInv'
<1>0. /\ Issued \in Nat /\ stored \in 0 .. Issued /\ method \in Methods
      /\ \A q \in Reqs : req[q] \in ReqTypes(Issued) /\ (req[q].st = "refreshed" => req[q].new # 0)
      /\ req = [q \in Reqs |-> req[q]]
  BY DEF TypesInv, PairsTyped, HeldTyped, ReqsTyped, Issued
<1>1. Unsent \in ReqTypes(Issued) /\ Settled \in ReqTypes(Issued) /\ Unsent.st # "refreshed" /\ Settled.st # "refreshed"
  BY <1>0, UnsentTyped
<1>2. CASE Send(r)
  <2>1. /\ UNCHANGED <<platform, sessionOf, methodOf, usable, live, cached, stored, method, signedIn, logins, dropped, late, abandoned>>
        /\ req' = [req EXCEPT ![r] = req'[r]]
    BY <1>0, <1>2 DEF Send, server, bounds
  <2>2. req'[r] \in ReqTypes(Issued) /\ req'[r].st # "refreshed"
    <3>1. Credentials.acc \in 0 .. Issued /\ Credentials.ref \in 0 .. Issued /\ Asked \in {"data", "me"}
      BY <1>0 DEF Credentials, Asked
    <3>2. req'[r] = [st |-> "sent", kind |-> Asked, acc |-> Credentials.acc, ref |-> Credentials.ref,
                     retry |-> FALSE, new |-> 0]
      BY <1>0, <1>2 DEF Send, Unsent
    <3>. QED
      BY <1>0, <3>1, <3>2 DEF ReqTypes
  <2>3. HeldTyped' /\ FlagsTyped'
    BY <2>1 DEF TypesInv, HeldTyped, FlagsTyped, Issued
  <2>. QED
    BY <1>0, <2>1, <2>2, <2>3, NothingIssued
<1>3. CASE Lose(r) \/ ReceiveOk(r) \/ Expired(r) \/ Reject(r)
  <2>1. /\ UNCHANGED <<platform, sessionOf, methodOf, usable, live, cached, method, logins, abandoned>>
        /\ stored' \in {stored, req[r].new} /\ req' = [req EXCEPT ![r] = Settled]
    BY <1>3 DEF Lose, ReceiveOk, Expired, Reject, Kept, server, bounds
  <2>2. FlagsTyped'
    BY <1>3 DEF Lose, ReceiveOk, Expired, Reject, TypesInv, FlagsTyped, bounds
  <2>3. HeldTyped'
    BY <1>0, <2>1 DEF HeldTyped, Issued, ReqTypes
  <2>. QED
    BY <1>0, <1>1, <2>1, <2>2, <2>3, NothingIssued
<1>4. CASE Wait(r) \/ Lead(r) \/ ReadToken(r)
  <2>1. /\ UNCHANGED <<platform, sessionOf, methodOf, usable, live, cached, stored, method, logins, dropped, late>>
        /\ req' = [req EXCEPT ![r] = req'[r]]
    BY <1>0, <1>4 DEF Wait, Lead, ReadToken, server, bounds
  <2>2. req'[r] \in ReqTypes(Issued) /\ req'[r].st # "refreshed"
    BY <1>0, <1>1, <1>4 DEF Wait, Lead, ReadToken, ReqTypes, Leading
  <2>3. HeldTyped' /\ FlagsTyped'
    BY <1>4, <2>1 DEF Wait, Lead, ReadToken, TypesInv, HeldTyped, FlagsTyped, Issued, bounds
  <2>. QED
    BY <1>0, <2>1, <2>2, <2>3, NothingIssued
<1>5. CASE Refused(r)
  <2>1. /\ UNCHANGED <<platform, sessionOf, methodOf, usable, live, cached, logins, dropped, late, abandoned>>
        /\ stored' = 0 /\ method' = "password" /\ signedIn' = FALSE
        /\ req' = Drained(Queued \cup {r}, "settled")
    BY <1>5 DEF Refused, server, bounds
  <2>2. req' = [q \in Reqs |-> IF q \in Queued \cup {r} THEN Settled ELSE req[q]]
    BY <2>1 DEF Drained
  <2>3. HeldTyped' /\ FlagsTyped'
    <3>1. 0 \in 0 .. Issued /\ Issued' = Issued
      BY <1>0, <2>1 DEF Issued
    <3>. QED
      BY <2>1, <3>1 DEF TypesInv, HeldTyped, FlagsTyped, Methods
  <2>. QED
    BY <1>0, <1>1, <2>1, <2>2, <2>3, NothingIssued
<1>6. CASE Serve(r) \/ Refresh(r)
  <2>1. /\ HeldTyped /\ FlagsTyped /\ UNCHANGED <<platform, methodOf, stored, method, logins>>
        /\ UNCHANGED <<signedIn, dropped, late, abandoned>>
    BY <1>6 DEF Serve, Refresh, TypesInv, server, bounds
  <2>2. CASE /\ UNCHANGED <<sessionOf, usable, live, cached>>
             /\ \E x \in {"ok", "401", "refused"} : req' = [req EXCEPT ![r].st = x]
    <3>0. PICK x \in {"ok", "401", "refused"} : req' = [req EXCEPT ![r].st = x]
      BY <2>2
    <3>1. req' = [req EXCEPT ![r] = req'[r]] /\ req'[r] \in ReqTypes(Issued) /\ req'[r].st # "refreshed"
      <4>1. req'[r] = [req[r] EXCEPT !.st = x] /\ req' = [req EXCEPT ![r] = req'[r]]
        BY <1>0, <3>0
      <4>2. \A q \in ReqTypes(Issued) : [q EXCEPT !.st = x] \in ReqTypes(Issued) /\ [q EXCEPT !.st = x].st = x
        BY DEF ReqTypes, Leading
      <4>. QED
        BY <1>0, <4>1, <4>2
    <3>2. HeldTyped' /\ FlagsTyped'
      BY <2>1, <2>2 DEF HeldTyped, FlagsTyped, Issued
    <3>. QED
      BY <1>0, <2>1, <2>2, <3>1, <3>2, NothingIssued
  <2>3. CASE /\ req[r].ref \in usable /\ Grant(req[r].ref) /\ cached' \subseteq cached \cup {Issued + 1}
             /\ \/ req' = [req EXCEPT ![r].st = "ok", ![r].new = Issued + 1]
                \/ req' = [req EXCEPT ![r].st = "refreshed", ![r].new = Issued + 1]
    <3>1. PairsTyped' /\ Issued' = Issued + 1
      BY <2>1, <2>3, GrantTypes
    <3>2. \A q \in Reqs : req[q] \in ReqTypes(Issued')
      BY <1>0, <3>1, ReqsGrow DEF TypesInv
    <3>3. ReqsTyped'
      <4>1. PICK x \in {"ok", "refreshed"} : req' = [req EXCEPT ![r] = [[@ EXCEPT !.st = x] EXCEPT !.new = Issued']]
        <5>1. CASE req' = [req EXCEPT ![r].st = "ok", ![r].new = Issued + 1]
          BY <1>0, <3>1, <5>1
        <5>2. CASE req' = [req EXCEPT ![r].st = "refreshed", ![r].new = Issued + 1]
          BY <1>0, <3>1, <5>2
        <5>. QED
          BY <2>3, <5>1, <5>2
      <4>2. \A q \in ReqTypes(Issued') : [[q EXCEPT !.st = x] EXCEPT !.new = Issued'] \in ReqTypes(Issued')
        <5>1. Issued' \in 0 .. Issued'
          BY <1>0, <3>1
        <5>2. \A q \in ReqTypes(Issued') : [q EXCEPT !.st = x] \in ReqTypes(Issued')
          BY DEF ReqTypes, Leading
        <5>3. \A q \in ReqTypes(Issued') : [q EXCEPT !.new = Issued'] \in ReqTypes(Issued')
          BY <5>1 DEF ReqTypes
        <5>. QED
          BY <5>2, <5>3
      <4>3. \A q \in ReqTypes(Issued') : [[q EXCEPT !.st = x] EXCEPT !.new = Issued'].new = Issued'
        BY DEF ReqTypes
      <4>4. req'[r] = [[req[r] EXCEPT !.st = x] EXCEPT !.new = Issued'] /\ \A q \in Reqs : q # r => req'[q] = req[q]
        BY <1>0, <4>1
      <4>5. \A q \in Reqs : req'[q] \in ReqTypes(Issued') /\ (req'[q].st = "refreshed" => req'[q].new # 0)
        <5>1. req'[r] \in ReqTypes(Issued') /\ req'[r].new = Issued' /\ Issued' # 0
          <6>1. req[r] \in ReqTypes(Issued') /\ Issued' # 0
            BY <1>0, <3>1, <3>2
          <6>2. /\ [[req[r] EXCEPT !.st = x] EXCEPT !.new = Issued'] \in ReqTypes(Issued')
                /\ [[req[r] EXCEPT !.st = x] EXCEPT !.new = Issued'].new = Issued'
            BY <4>2, <4>3, <6>1
          <6>. QED
            BY <4>4, <6>1, <6>2
        <5>. QED
          BY <1>0, <3>2, <4>4, <5>1
      <4>6. req' = [q \in Reqs |-> req'[q]]
        BY <1>0, <4>1
      <4>. QED
        BY <4>5, <4>6 DEF ReqsTyped
    <3>4. HeldTyped' /\ FlagsTyped'
      BY <1>0, <2>1, <3>1 DEF HeldTyped, FlagsTyped
    <3>. QED
      BY <3>1, <3>3, <3>4 DEF TypesInv
  <2>4. CASE Serve(r)
    BY <2>2, <2>3, <2>4 DEF Serve, server
  <2>5. CASE Refresh(r)
    BY <2>2, <2>3, <2>5 DEF Refresh
  <2>. QED
    BY <1>6, <2>4, <2>5
<1>7. CASE Refreshed(r)
  <2>1. /\ UNCHANGED <<platform, sessionOf, methodOf, usable, live, cached, logins, signedIn, dropped, abandoned>>
        /\ late' \in BOOLEAN /\ stored' = req[r].new /\ req[r].st = "refreshed"
        /\ method' = methodOf[sessionOf[req[r].new]]
    BY <1>7 DEF Refreshed, Overtaken, TypesInv, FlagsTyped, server, bounds
  <2>2. stored' \in 1 .. Issued /\ stored' \in 0 .. Issued /\ method' \in Methods
    <3>1. req[r].new \in 1 .. Issued
      BY <1>0, <2>1 DEF ReqTypes
    <3>2. sessionOf[req[r].new] \in 1 .. MaxLogins
      BY <3>1, ClientSessionAssumption DEF TypesInv, PairsTyped
    <3>. QED
      BY <1>0, <2>1, <3>1, <3>2 DEF TypesInv, PairsTyped
  <2>3. \A q \in Reqs : req'[q] = IF q \in Queued \cup {r}
                                    THEN [[req[q] EXCEPT !.st = "sent"] EXCEPT !.acc = stored', !.new = 0,
                                           !.ref = IF method' = "broker" THEN 0 ELSE stored']
                                    ELSE req[q]
    BY <1>7 DEF Refreshed, Drained
  <2>4. DOMAIN req' = Reqs /\ req' = [q \in Reqs |-> req'[q]]
    BY <1>7 DEF Refreshed
  <2>5. HeldTyped' /\ FlagsTyped'
    BY <2>1, <2>2 DEF TypesInv, HeldTyped, FlagsTyped, Issued
  <2>6. ASSUME NEW q \in Reqs
        PROVE  req'[q] \in ReqTypes(Issued) /\ (req'[q].st = "refreshed" => req'[q].new # 0)
    <3>1. (IF method' = "broker" THEN 0 ELSE stored') \in 0 .. Issued /\ 0 \in 0 .. Issued
      BY <1>0, <2>2
    <3>2. PICK n \in 0 .. Issued : n = IF method' = "broker" THEN 0 ELSE stored'
      BY <3>1
    <3>3. CASE q \in Queued \cup {r}
      <4>1. req'[q] = [[req[q] EXCEPT !.st = "sent"] EXCEPT !.acc = stored', !.new = 0, !.ref = n]
        BY <2>3, <3>2, <3>3
      <4>. QED
        BY <1>0, <2>2, <3>1, <4>1 DEF ReqTypes
    <3>. QED
      BY <1>0, <2>3, <3>3
  <2>. QED
    BY <2>1, <2>4, <2>5, <2>6, NothingIssued
<1>. QED
  BY <1>2, <1>3, <1>4, <1>5, <1>6, <1>7 DEF Progress

LEMMA TypesStep == TypesInv /\ [Next]_vars => TypesInv'
<1> SUFFICES ASSUME TypesInv, [Next]_vars PROVE TypesInv'
  OBVIOUS
<1>0. /\ Issued \in Nat /\ stored \in 0 .. Issued /\ method \in Methods /\ 0 \in 0 .. Issued
      /\ \A q \in Reqs : req[q] \in ReqTypes(Issued) /\ (req[q].st = "refreshed" => req[q].new # 0)
      /\ req = [q \in Reqs |-> req[q]] /\ DOMAIN req = Reqs
  BY DEF TypesInv, PairsTyped, HeldTyped, ReqsTyped, Issued
<1>1. CASE SignOut \/ Logout \/ Expire \/ RestartServer \/ UNCHANGED vars
  <2>1. /\ UNCHANGED <<platform, sessionOf, methodOf, logins, req, dropped, late, abandoned>>
        /\ usable' \subseteq usable /\ live' \subseteq live /\ cached' \subseteq cached
        /\ stored' \in {0, stored} /\ method' \in {"password", method} /\ signedIn' \in {FALSE, signedIn}
    BY <1>1 DEF SignOut, Logout, Expire, RestartServer, vars, server, client, bounds
  <2>2. HeldTyped' /\ FlagsTyped'
    BY <1>0, <2>1 DEF TypesInv, HeldTyped, FlagsTyped, Issued, Methods
  <2>. QED
    BY <1>0, <2>1, <2>2, NothingIssued
<1>2. CASE Reopen
  <2>1. /\ UNCHANGED <<platform, sessionOf, methodOf, logins, usable, live, cached, stored, method, late, abandoned>>
        /\ dropped' \in BOOLEAN /\ signedIn' = FALSE
        /\ req' = [r \in Reqs |-> IF req[r] = Unsent THEN Unsent ELSE Settled]
    BY <1>2 DEF Reopen, TypesInv, FlagsTyped, server
  <2>2. HeldTyped' /\ FlagsTyped'
    BY <2>1 DEF TypesInv, HeldTyped, FlagsTyped, Issued
  <2>. QED
    BY <1>0, <2>1, <2>2, UnsentTyped, NothingIssued
<1>. QED
  BY <1>1, <1>2, LoginTypes, ProgressTypes DEF Next

(* Every pair is of a login that was made, and whoever holds, caches or    *)
(* answers with one holds one that was issued.                             *)
THEOREM SessionTypes == Spec => []SessionTypeOK
<1>1. Init => TypesInv
  <2> SUFFICES ASSUME Init PROVE TypesInv
    OBVIOUS
  <2>1. sessionOf = << >> /\ Issued = 0 /\ sessionOf \in Seq(Nat)
    BY DEF Init, Issued
  <2>2. PairsTyped
    BY <2>1, ClientSessionAssumption DEF Init, PairsTyped, Methods
  <2>3. HeldTyped /\ FlagsTyped
    <3>1. stored = 0 /\ 0 \in 0 .. Issued
      BY <2>1 DEF Init
    <3>2. HeldTyped
      BY <3>1 DEF Init, HeldTyped, Methods
    <3>. QED
      BY <3>2 DEF Init, FlagsTyped
  <2>4. ReqsTyped
    BY <2>1, UnsentTyped DEF Init, ReqsTyped
  <2>. QED
    BY <2>2, <2>3, <2>4 DEF TypesInv
<1>2. TypesInv => SessionTypeOK
  BY DEF TypesInv, PairsTyped, HeldTyped, ReqsTyped, FlagsTyped, ReqTypes, SessionTypeOK
<1>. QED
  BY <1>1, <1>2, TypesStep, PTL DEF Spec
=============================================================================
