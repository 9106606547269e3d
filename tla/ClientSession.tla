--------------------------- MODULE ClientSession ---------------------------
(***************************************************************************)
(* The session of a client: the mobile app, which stores a token pair and  *)
(* refreshes it behind its requests, or the web page, whose cookie holds   *)
(* the refresh token alone and whose access token the server mints and     *)
(* caches.  Keycloak accepts a refresh token once (realm.json:             *)
(* revokeRefreshToken, refreshTokenMaxReuse 0) and answers with the next   *)
(* pair, so the client has to learn of every pair it is issued.  Requests  *)
(* run concurrently and their answers arrive in any order, late, or never. *)
(*                                                                         *)
(* Pairs are numbered as they are issued; 0 is no pair.                    *)
(***************************************************************************)
EXTENDS Naturals, Sequences

CONSTANTS
  MaxReqs,    \* bound: the requests ever sent; all may be in flight together
  Platforms,  \* "mobile", "web" or both
  MaxLogins,  \* bound: sessions opened
  MaxUpsets,  \* bound: expiries of access tokens and restarts of the server
  MaxFaults   \* bound: lost answers, failing calls, restarts of the client

ASSUME ClientSessionAssumption ==
  /\ Platforms \subseteq {"mobile", "web"} /\ MaxReqs \in Nat
  /\ MaxLogins \in Nat /\ MaxUpsets \in Nat /\ MaxFaults \in Nat

Reqs == 1 .. MaxReqs
Methods == {"password", "broker"}
Leading == {"reading", "refreshing", "refreshed", "refused"}

VARIABLES
  platform,
  \* The server and Keycloak.
  sessionOf,  \* of each pair issued, the login it descends from
  methodOf,   \* login -> how it was made
  usable,     \* pairs whose refresh token has been neither used nor revoked
  live,       \* pairs whose access token has not expired
  cached,     \* pairs in the access-token cache (web)
  \* The client.
  stored,     \* the pair in secure storage, or in the cookie
  method,     \* apollo_auth_method (mobile)
  signedIn,   \* profile (mobile) or the "me" query (web) is not null
  req,        \* the requests in flight
  \* Bounds and history.
  logins, upsets, faults,
  dropped,    \* an answer that carried a new pair was lost
  late,       \* a pair of an ended session was stored
  abandoned   \* a leader found no refresh token and left its queue

server == <<sessionOf, methodOf, usable, live, cached>>
client == <<stored, method, signedIn, req>>
bounds == <<logins, upsets, faults>>
vars == <<platform, server, client, bounds, dropped, late, abandoned>>

Unsent == [st |-> "unsent", kind |-> "data", acc |-> 0, ref |-> 0, retry |-> FALSE, new |-> 0]
Settled == [Unsent EXCEPT !.st = "settled"]
Mobile == platform = "mobile"
Fault == faults < MaxFaults /\ faults' = faults + 1
Issued == Len(sessionOf)
Refreshing == \E r \in Reqs : req[r].st \in Leading
Queued == {r \in Reqs : req[r].st = "queued"}

(* Forms these operators would take in a faulty program.                   *)
KeptOld(new) == stored
DrainedLeader(rs, st) ==
  [r \in Reqs |-> IF r \notin rs \ Queued THEN req[r]
                  ELSE IF st = "sent" THEN [req[r] EXCEPT !.st = st] ELSE Settled]
MethodSent == "password"

Init ==
  /\ platform \in Platforms
  /\ sessionOf = << >>
  /\ methodOf = [s \in 1 .. MaxLogins |-> "password"]
  /\ usable = {} /\ live = {} /\ cached = {}
  /\ stored = 0 /\ method = "password" /\ signedIn = FALSE
  /\ req = [r \in Reqs |-> Unsent]
  /\ logins = 0 /\ upsets = 0 /\ faults = 0
  /\ dropped = FALSE /\ late = FALSE /\ abandoned = FALSE

----------------------------------------------------------------------------
(* What both sides do with a pair.                                         *)

(* The refresh grant: the token is used up and a new pair issued.          *)
Grant(p) ==
  LET n == Issued + 1
  IN  /\ sessionOf' = Append(sessionOf, sessionOf[p])
      /\ usable' = (usable \ {p}) \cup {n}
      /\ live' = live \cup {n}

(* The request interceptor of the app, or the browser's cookie.  Tokens    *)
(* from a social login are refreshed by the app alone, never by the server.*)
MethodStored == method
Credentials ==
  [acc |-> stored,
   ref |-> IF Mobile /\ MethodStored = "broker" THEN 0 ELSE stored]

(* storeTokens, or Set-Cookie: an answer without a pair changes nothing.   *)
Kept(new) == IF new = 0 THEN stored ELSE new

(* An answer from a session that is not the latest to have been opened, or *)
(* that arrives after the tokens were cleared.                             *)
Overtaken(new) ==
  new # 0 /\ (stored = 0 \/ sessionOf[new] # sessionOf[stored])

(* loadSession and refreshProfile: a profile that cannot be fetched is no   *)
(* profile, and the app shows the login.                                    *)
ProfileKept(q) == Mobile => q.kind = "data"

(* drainQueue: the requests that waited are sent again, or are rejected.   *)
Drained(rs, st) ==
  [r \in Reqs |-> IF r \in rs
                    THEN IF st = "sent" THEN [req[r] EXCEPT !.st = st] ELSE Settled
                    ELSE req[r]]

(* RequireAuth accepts the bearer token, or the access token cached under  *)
(* the cookie's refresh token.                                             *)
Accepted(q) == IF Mobile THEN q.acc \in live ELSE q.ref \in cached \cap live

----------------------------------------------------------------------------
(* Logging in and out.                                                     *)

(* The login page and screen: /login turns away whom validateAuth knows,   *)
(* the navigator shows the tabs instead of the login once there is a        *)
(* profile.                                                                 *)
LoginOffered(m) == ~signedIn /\ logins < MaxLogins /\ (m = "broker" => Mobile)

(* login and loginWithIdp: a new session, and its first pair stored under   *)
(* its method.                                                              *)
Opened(m) ==
  LET n == Issued + 1
  IN  /\ sessionOf' = Append(sessionOf, logins + 1)
      /\ methodOf' = [methodOf EXCEPT ![logins + 1] = m]
      /\ usable' = usable \cup {n}
      /\ live' = live \cup {n}
      /\ stored' = n /\ method' = m

(* Signing in with a password or a provider, and the profile fetched next.  *)
Login(m) ==
  /\ LoginOffered(m) /\ Opened(m)
  /\ logins' = logins + 1
  /\ signedIn' = TRUE
  /\ UNCHANGED <<platform, cached, req, upsets, faults, dropped, late, abandoned>>

(* signOut of the app clears the tokens, at Keycloak nothing changes.      *)
SignOut ==
  /\ Mobile /\ signedIn
  /\ stored' = 0 /\ method' = "password" /\ signedIn' = FALSE
  /\ UNCHANGED <<platform, server, req, bounds, dropped, late, abandoned>>

(* The logout mutation of the page: the server revokes the refresh token   *)
(* and clears the cookie, unless the call fails; the page shows the login  *)
(* either way.                                                             *)
Logout ==
  /\ ~Mobile /\ signedIn
  /\ \/ /\ usable' = usable \ {stored} /\ stored' = 0
        /\ UNCHANGED faults
     \/ /\ Fault
        /\ UNCHANGED <<usable, stored>>
  /\ signedIn' = FALSE
  /\ UNCHANGED <<platform, sessionOf, methodOf, live, cached, method, req, logins, upsets,
                 dropped, late, abandoned>>

(* The client is closed and opened: requests and their answers are gone.   *)
Reopen ==
  /\ Fault
  /\ dropped' = (dropped \/ \E r \in Reqs : req[r].new # 0)
  /\ req' = [r \in Reqs |-> IF req[r] = Unsent THEN Unsent ELSE Settled]
  /\ signedIn' = FALSE
  /\ UNCHANGED <<platform, server, stored, method, logins, upsets, late, abandoned>>

----------------------------------------------------------------------------
(* A request to its answer.                                                *)

(* _auth.tsx asks for the profile first, and for the rest once it is there. *)
Asked == IF signedIn THEN "data" ELSE "me"

(* Pages ask for data while signed in.  Otherwise it is the profile that   *)
(* is asked for: loadSession, or beforeLoad of the routes.                 *)
Send(r) ==
  /\ req[r] = Unsent /\ (r > 1 => req[r - 1] # Unsent)
  /\ (signedIn \/ stored # 0)
  /\ req' = [req EXCEPT ![r] = [Unsent EXCEPT !.st = "sent",
                                  !.kind = Asked,
                                  !.acc = Credentials.acc, !.ref = Credentials.ref]]
  /\ UNCHANGED <<platform, server, stored, method, signedIn, bounds, dropped, late, abandoned>>

(* RequireAuth: a token that is not accepted is replaced through the       *)
(* refresh token of the request, if that has not been used.                *)
Serve(r) ==
  /\ req[r].st = "sent"
  /\ \/ /\ Accepted(req[r])
        /\ req' = [req EXCEPT ![r].st = "ok"]
        /\ UNCHANGED server
     \/ /\ ~Accepted(req[r]) /\ req[r].ref \in usable
        /\ Grant(req[r].ref)
        /\ cached' = IF Mobile THEN cached ELSE cached \cup {Issued + 1}
        /\ req' = [req EXCEPT ![r].st = "ok", ![r].new = Issued + 1]
        /\ UNCHANGED methodOf
     \/ /\ ~Accepted(req[r]) /\ req[r].ref \notin usable
        /\ req' = [req EXCEPT ![r].st = "401"]
        /\ UNCHANGED server
  /\ UNCHANGED <<platform, stored, method, signedIn, bounds, dropped, late, abandoned>>

(* The answer is lost.                                                     *)
Lose(r) ==
  /\ req[r].st \in {"sent", "ok"} /\ Fault
  /\ dropped' = (dropped \/ req[r].new # 0)
  /\ signedIn' = (signedIn /\ ProfileKept(req[r]))
  /\ req' = [req EXCEPT ![r] = Settled]
  /\ UNCHANGED <<platform, server, stored, method, logins, upsets, late, abandoned>>

(* A successful answer: its pair, if it brings one, is stored; a profile   *)
(* opens the app.                                                          *)
ReceiveOk(r) ==
  /\ req[r].st = "ok"
  /\ late' = (late \/ Overtaken(req[r].new))
  /\ stored' = Kept(req[r].new)
  /\ signedIn' = (signedIn \/ req[r].kind = "me")
  /\ req' = [req EXCEPT ![r] = Settled]
  /\ UNCHANGED <<platform, server, method, bounds, dropped, abandoned>>

(* The page on 401: the session-expired event turns it to the login once.  *)
Expired(r) ==
  /\ ~Mobile /\ req[r].st = "401"
  /\ signedIn' = FALSE
  /\ req' = [req EXCEPT ![r] = Settled]
  /\ UNCHANGED <<platform, server, stored, method, bounds, dropped, late, abandoned>>

----------------------------------------------------------------------------
(* The app on 401.                                                         *)

(* A request that has led a refresh is not retried again.                  *)
Reject(r) ==
  /\ Mobile /\ req[r].st = "401" /\ req[r].retry
  /\ signedIn' = (signedIn /\ ProfileKept(req[r]))
  /\ req' = [req EXCEPT ![r] = Settled]
  /\ UNCHANGED <<platform, server, stored, method, bounds, dropped, late, abandoned>>

(* Behind a refresh that is running it waits in pendingQueue.              *)
Wait(r) ==
  /\ Mobile /\ req[r].st = "401" /\ ~req[r].retry /\ Refreshing
  /\ req' = [req EXCEPT ![r].st = "queued"]
  /\ UNCHANGED <<platform, server, stored, method, signedIn, bounds, dropped, late, abandoned>>

Lead(r) ==
  /\ Mobile /\ req[r].st = "401" /\ ~req[r].retry /\ ~Refreshing
  /\ req' = [req EXCEPT ![r].st = "reading", ![r].retry = TRUE]
  /\ UNCHANGED <<platform, server, stored, method, signedIn, bounds, dropped, late, abandoned>>

(* The leader reads the refresh token.  Without one it gives up, and the   *)
(* queue is not drained.                                                   *)
ReadToken(r) ==
  /\ req[r].st = "reading"
  /\ \/ /\ stored # 0
        /\ req' = [req EXCEPT ![r].st = "refreshing", ![r].ref = stored]
        /\ UNCHANGED <<signedIn, abandoned>>
     \/ /\ stored = 0
        /\ req' = [req EXCEPT ![r] = Settled]
        /\ signedIn' = (signedIn /\ ProfileKept(req[r]))
        /\ abandoned' = (abandoned \/ Queued # {})
  /\ UNCHANGED <<platform, server, stored, method, bounds, dropped, late>>

(* The refresh through the server, or at Keycloak for a social login.  It  *)
(* can also fail on its way there.                                         *)
Refresh(r) ==
  /\ req[r].st = "refreshing"
  /\ \/ /\ req[r].ref \in usable
        /\ Grant(req[r].ref)
        /\ req' = [req EXCEPT ![r].st = "refreshed", ![r].new = Issued + 1]
        /\ UNCHANGED faults
     \/ /\ req[r].ref \in usable => Fault
        /\ req[r].ref \notin usable => UNCHANGED faults
        /\ req' = [req EXCEPT ![r].st = "refused"]
        /\ UNCHANGED <<sessionOf, usable, live>>
  /\ UNCHANGED <<platform, methodOf, cached, stored, method, signedIn, logins, upsets,
                 dropped, late, abandoned>>

(* The new pair is stored under its method, the queue is drained and the   *)
(* leader sent again; each of them reads its credentials anew.             *)
Refreshed(r) ==
  /\ req[r].st = "refreshed"
  /\ late' = (late \/ Overtaken(req[r].new))
  /\ stored' = req[r].new
  /\ method' = methodOf[sessionOf[req[r].new]]
  /\ req' = LET again == Drained(Queued \cup {r}, "sent")
            IN  [q \in Reqs |->
                   IF q \in Queued \cup {r}
                     THEN [again[q] EXCEPT !.acc = stored', !.new = 0,
                             !.ref = IF method' = "broker" THEN 0 ELSE stored']
                     ELSE again[q]]
  /\ UNCHANGED <<platform, server, signedIn, bounds, dropped, abandoned>>

(* The refresh failed: the queue is rejected and the app signs out.        *)
Refused(r) ==
  /\ req[r].st = "refused"
  /\ req' = Drained(Queued \cup {r}, "settled")
  /\ stored' = 0 /\ method' = "password" /\ signedIn' = FALSE
  /\ UNCHANGED <<platform, server, bounds, dropped, late, abandoned>>

----------------------------------------------------------------------------
(* The environment.                                                        *)

(* The access tokens run out, or the server restarts with an empty cache.  *)
Expire ==
  /\ upsets < MaxUpsets /\ live # {}
  /\ upsets' = upsets + 1
  /\ live' = {}
  /\ UNCHANGED <<platform, sessionOf, methodOf, usable, cached, client, logins, faults,
                 dropped, late, abandoned>>

RestartServer ==
  /\ upsets < MaxUpsets /\ cached # {}
  /\ upsets' = upsets + 1
  /\ cached' = {}
  /\ UNCHANGED <<platform, sessionOf, methodOf, usable, live, client, logins, faults,
                 dropped, late, abandoned>>

Progress(r) ==
  \/ Serve(r) \/ ReceiveOk(r) \/ Expired(r)
  \/ Reject(r) \/ Wait(r) \/ Lead(r) \/ ReadToken(r) \/ Refresh(r) \/ Refreshed(r) \/ Refused(r)

Next ==
  \/ \E m \in Methods : Login(m)
  \/ SignOut \/ Logout \/ Reopen \/ Expire \/ RestartServer
  \/ \E r \in Reqs : Send(r) \/ Lose(r) \/ Progress(r)

Spec == Init /\ [][Next]_vars

(* Requests that were sent are answered, and answers are handled.          *)
SessionFairSpec == Spec /\ \A r \in Reqs : WF_vars(Progress(r))

----------------------------------------------------------------------------
(* Type invariant; a pair in flight or stored has been issued.             *)
SessionTypeOK ==
  /\ platform \in {"mobile", "web"} /\ logins \in 0 .. MaxLogins
  /\ sessionOf \in Seq(Nat) /\ \A p \in 1 .. Issued : sessionOf[p] \in 1 .. logins
  /\ methodOf \in [1 .. MaxLogins -> Methods] /\ method \in Methods
  /\ usable \cup live \cup cached \subseteq 1 .. Issued /\ stored \in 0 .. Issued
  /\ req \in [Reqs -> [st : {"unsent", "settled", "sent", "ok", "401", "queued"} \cup Leading,
                       kind : {"data", "me"}, acc : 0 .. Issued, ref : 0 .. Issued,
                       retry : BOOLEAN, new : 0 .. Issued]]
  /\ {signedIn, dropped, late, abandoned} \subseteq BOOLEAN
  /\ \A r \in Reqs : req[r].st = "refreshed" => req[r].new # 0

(* A refresh token works once, and the client must not be left behind: the *)
(* pair it holds can be used, or its successor is on its way in an answer, *)
(* or an answer with one was lost.  Rotation by the server behind a        *)
(* request, by the app's own refresh, and answers overtaking each other    *)
(* keep this; sign-outs and new logins end the session it is about.        *)
NotLeftBehind ==
  stored # 0 =>
    \/ stored \in usable
    \/ \E r \in Reqs : req[r].new # 0 /\ sessionOf[req[r].new] = sessionOf[stored]
    \/ dropped

(* A client is never refreshed the wrong way (api/client.ts: brokered      *)
(* tokens "belong to a different Keycloak client"): the recorded method is *)
(* that of the stored pair, and a brokered refresh token is in no header,  *)
(* but for a pair of an earlier session that arrives late.                 *)
MethodMatches ==
  ~late =>
    /\ stored # 0 /\ Mobile => method = methodOf[sessionOf[stored]]
    /\ \A r \in Reqs : req[r].st = "sent" /\ req[r].ref # 0
                         => methodOf[sessionOf[req[r].ref]] = "password"

(* Every request settles: those that wait for another request's refresh    *)
(* are sent again or rejected, whatever becomes of the refresh, unless the *)
(* tokens were cleared just before the leader read them.                   *)
WaitersSettle == Queued # {} ~> Queued = {} \/ abandoned

(* token_cache.go: the cache is "rebuilt lazily after a restart from the   *)
(* refresh token each client still holds in its cookie, so users stay      *)
(* logged in across redeploys".  The code does not keep this (README,       *)
(* Disagreements).                                                         *)
StayLoggedIn ==
  [][\A r \in Reqs : Expired(r) /\ signedIn => ~\E p \in usable : sessionOf[p] = logins]_vars

============================================================================
