------------------------------- MODULE Sessions -------------------------------
(***************************************************************************)
(* The session backend and the identity provider together: login, requests *)
(* that renew the access token on the way, logout, the janitor, lost       *)
(* messages and restarts of either program                                 *)
(* (app/internal/session, app/internal/web/web.go, app/internal/oauth,     *)
(* app/internal/gateway, service/internal/auth, and IdpTokens).            *)
(*                                                                         *)
(* A request that calls the provider is "calling" until the provider has   *)
(* dealt with it and "answered" until the answer is there; either half may *)
(* be lost.  The HTTP clients give up after a while, so a call is over by  *)
(* its deadline.  What a program does between two calls takes no time, but *)
(* other requests may come between its steps.  Each access to the session  *)
(* store is one step; a handler works on the copy Get gave it.             *)
(***************************************************************************)
EXTENDS IdpTokens

CONSTANTS
  Sid,          \* session ids
  Worker,       \* requests in progress at the same time
  Latency,      \* the time-out of the HTTP clients
  Skew,         \* tokenRefreshSkew
  SessionAge,   \* maxSessionAge
  MaxTime,      \* bound: the clock
  MaxTrouble    \* bound: lost messages and restarts

\* As in the code: 10 s, 30 s, 30 min and 24 h.
ASSUME TimeAssumption ==
  /\ Latency \in Nat \ {0} /\ Skew \in Nat /\ SessionAge \in Nat
  /\ 3 * Latency <= Skew /\ Skew < TokenTTL /\ TokenTTL < SessionAge

ASSUME ClockAssumption == MaxTime \in Nat

VARIABLES
  sessions,    \* MemoryStore.sessions
  request,     \* what each worker is doing
  used,        \* history: session ids that have been given out
  loggedOut,   \* history: sessions that were logged out
  raced,       \* history: those with another call under way or just over
  revoked,     \* history: access tokens that were revoked
  forgotten,   \* history: pairs issued before the provider last restarted
  trouble      \* lost messages and restarts so far

app == <<sessions, request>>
history == <<used, loggedOut, raced, revoked, forgotten>>
vars == <<now, idp, logins, grants, app, history, trouble>>

NoSession == [kind |-> "none"]
Idle == [at |-> "idle"]

\* Token 0 is no token; the refresh token is that of the same pair.  An expiry
\* of 0 is none.  pending says that a State is kept.
Fresh == [token |-> 0, pair |-> 0, expires |-> 0, created |-> now, pending |-> TRUE]

\* What Get finds: a session past its token's expiry or its age is deleted.
Found(sid) ==
  LET s == sessions[sid] IN
  IF \/ s = NoSession
     \/ s.expires # 0 /\ now >= s.expires
     \/ now - s.created > SessionAge
  THEN NoSession ELSE s

Init ==
  /\ IdpInit
  /\ sessions = [sid \in Sid |-> NoSession]
  /\ request = [w \in Worker |-> Idle]
  /\ used = {} /\ loggedOut = {} /\ raced = {} /\ revoked = {} /\ forgotten = {}
  /\ trouble = 0

Set(w, r) == request' = [request EXCEPT ![w] = r]

\* A call to the provider begins.
Call(kind, sid, s, arg) ==
  [at |-> "calling", call |-> kind, sid |-> sid, session |-> s, arg |-> arg,
   deadline |-> now + Latency]

\* Calls whose answer the session still waits for.
Renewing(sid) ==
  {w \in Worker : /\ request[w].at \in {"calling", "answered"}
                  /\ request[w].sid = sid
                  /\ request[w].call \in {"exchange", "introspect", "refresh"}}

-----------------------------------------------------------------------------
(* The handlers of the app.                                                *)

\* handleLogin: a new session with a State, then the browser is sent away.
Login(sid) ==
  /\ sid \notin used
  /\ used' = used \cup {sid}
  /\ sessions' = [sessions EXCEPT ![sid] = Fresh]
  /\ UNCHANGED <<now, idp, logins, grants, request, loggedOut, raced, revoked, forgotten, trouble>>

\* The user signs in at the provider, perhaps more than once.
Authorize(sid) ==
  /\ sid \in used
  /\ IssueCode(sid)
  /\ UNCHANGED <<now, app, history, trouble>>

\* handleCallback: a login must be pending.
Callback(w, c) ==
  LET sid == logins[c] IN
  /\ request[w] = Idle
  /\ Found(sid) # NoSession /\ Found(sid).pending
  /\ Set(w, Call("exchange", sid, Found(sid), c))
  /\ UNCHANGED <<now, idp, logins, grants, sessions, history, trouble>>

FreshEnough(s) == s.expires - now > Skew

\* requireAuth and ensureFreshToken: the session is looked up, its token used
\* as it is or renewed first.
Api(w, sid) ==
  LET s == Found(sid) IN
  /\ request[w] = Idle
  /\ s # NoSession /\ s.token # 0
  /\ Set(w, IF FreshEnough(s) THEN [at |-> "forward", sid |-> sid]
            ELSE Call("refresh", sid, s, s.pair))
  /\ UNCHANGED <<now, idp, logins, grants, sessions, history, trouble>>

\* Director reads the session again and sends the token it finds.
Forward(w) ==
  LET s == Found(request[w].sid) IN
  /\ request[w].at = "forward"
  /\ Set(w, IF s # NoSession /\ s.token # 0
            THEN Call("verify", request[w].sid, s, s.token) ELSE Idle)
  /\ sessions' = [sessions EXCEPT ![request[w].sid] = s]
  /\ UNCHANGED <<now, idp, logins, grants, history, trouble>>

\* handleLogout looks the session up ...
Logout(w, sid) ==
  /\ request[w] = Idle
  /\ Found(sid) # NoSession
  /\ Set(w, [at |-> "leaving", sid |-> sid, session |-> Found(sid)])
  /\ UNCHANGED <<now, idp, logins, grants, sessions, history, trouble>>

\* ... deletes it, whatever it is by now, and revokes the token it saw.
ClearCookie(w) ==
  LET sid == request[w].sid
      s == request[w].session
  IN
  /\ request[w].at = "leaving"
  /\ sessions' = [sessions EXCEPT ![sid] = NoSession]
  /\ Set(w, IF s.token # 0 THEN Call("revoke", sid, s, s.token) ELSE Idle)
  /\ loggedOut' = loggedOut \cup {sid}
  /\ raced' = IF Renewing(sid) = {} /\ sessions[sid] = s THEN raced ELSE raced \cup {sid}
  /\ UNCHANGED <<now, idp, logins, grants, used, revoked, forgotten, trouble>>

\* Any request that looks at a session that is over deletes it.
Expire(sid) ==
  /\ sessions[sid] # NoSession /\ Found(sid) = NoSession
  /\ sessions' = [sessions EXCEPT ![sid] = NoSession]
  /\ UNCHANGED <<now, idp, logins, grants, request, history, trouble>>

-----------------------------------------------------------------------------
(* The provider deals with a call.                                         *)

Answer(w, good, pair) ==
  request' = [request EXCEPT ![w] =
    [at |-> "answered", call |-> @.call, sid |-> @.sid, session |-> @.session, arg |-> @.arg,
     deadline |-> @.deadline, good |-> good, pair |-> pair, time |-> now]]

Provider(w) ==
  LET r == request[w] IN
  /\ r.at = "calling"
  /\ \/ r.call = "exchange" /\ Exchange(r.arg) /\ Answer(w, CodeGood(r.arg), NextPair)
     \/ r.call = "refresh" /\ Rotate(r.arg) /\ Answer(w, RefreshGood(r.arg), NextPair)
     \/ r.call = "introspect" /\ Introspect(r.arg) /\ Answer(w, Active(r.arg), r.arg)
     \/ r.call = "verify" /\ Introspect(r.arg) /\ Answer(w, Active(r.arg), r.arg)
     \/ r.call = "revoke" /\ Revoke(r.arg) /\ Answer(w, TRUE, r.arg)
  /\ revoked' = IF r.call = "revoke" THEN revoked \cup {r.arg} ELSE revoked
  /\ UNCHANGED <<now, sessions, used, loggedOut, raced, forgotten, trouble>>

-----------------------------------------------------------------------------
(* The app gets the answer.                                                *)

Save(sid, s) == sessions' = [sessions EXCEPT ![sid] = s]

RenewedTokenOnly(r) ==
  [r.session EXCEPT !.token = r.pair, !.pending = FALSE,
                    !.expires = now + (grants[r.pair].expires - r.time)]

RenewedStillPending(r) ==
  [r.session EXCEPT !.token = r.pair, !.pair = r.pair,
                    !.expires = now + (grants[r.pair].expires - r.time)]

\* ExpiresAt: from now on, as long as the provider said when it answered.
Renewed(r) ==
  [r.session EXCEPT !.token = r.pair, !.pair = r.pair, !.pending = FALSE,
                    !.expires = now + (grants[r.pair].expires - r.time)]

\* The new token is looked up before the session is saved.
Exchanged(w) ==
  LET r == request[w] IN
  /\ r.at = "answered" /\ r.call = "exchange" /\ r.good
  /\ Set(w, Call("introspect", r.sid, Renewed(r), r.pair))
  /\ UNCHANGED <<now, idp, logins, grants, sessions, history, trouble>>

\* The lookup says when the token expires.
Introspected(w) ==
  LET r == request[w] IN
  /\ r.at = "answered" /\ r.call = "introspect" /\ r.good
  /\ Save(r.sid, [r.session EXCEPT !.expires = grants[r.arg].expires])
  /\ Set(w, Idle)
  /\ UNCHANGED <<now, idp, logins, grants, history, trouble>>

RefreshedKeepingToken(w) ==
  LET r == request[w] IN
  /\ r.at = "answered" /\ r.call = "refresh" /\ r.good
  /\ Save(r.sid, [Renewed(r) EXCEPT !.token = r.session.token])
  /\ Set(w, [at |-> "forward", sid |-> r.sid])
  /\ UNCHANGED <<now, idp, logins, grants, history, trouble>>

\* ensureFreshToken goes on with the new token.
Refreshed(w) ==
  LET r == request[w] IN
  /\ r.at = "answered" /\ r.call = "refresh" /\ r.good
  /\ Save(r.sid, Renewed(r))
  /\ Set(w, [at |-> "forward", sid |-> r.sid])
  /\ UNCHANGED <<now, idp, logins, grants, history, trouble>>

\* What an error does: a failed refresh drops the session, a failed login
\* leaves it pending.
GiveUp(w) ==
  /\ Set(w, Idle)
  /\ IF request[w].call = "refresh" THEN Save(request[w].sid, NoSession) ELSE UNCHANGED sessions

Refused(w) ==
  /\ request[w].at = "answered"
  /\ ~request[w].good
  /\ GiveUp(w)
  /\ UNCHANGED <<now, idp, logins, grants, history, trouble>>

\* The service has verified the token, or the provider has revoked it.
Finished(w) ==
  /\ request[w].at = "answered"
  /\ request[w].good /\ request[w].call \in {"verify", "revoke"}
  /\ Set(w, Idle)
  /\ UNCHANGED <<now, idp, logins, grants, sessions, history, trouble>>

\* The call or its answer is lost, or late.
Lost(w) ==
  /\ request[w].at \in {"calling", "answered"}
  /\ trouble < MaxTrouble
  /\ trouble' = trouble + 1
  /\ GiveUp(w)
  /\ UNCHANGED <<now, idp, logins, grants, history>>

-----------------------------------------------------------------------------
\* Time passes, except over a step of a program or the deadline of a call.
Tick ==
  /\ now < MaxTime
  /\ \A w \in Worker :
       /\ request[w].at \notin {"forward", "leaving"}
       /\ request[w].at \in {"calling", "answered"} => now < request[w].deadline
  /\ now' = now + 1
  /\ UNCHANGED <<idp, logins, grants, app, history, trouble>>

Janitor ==
  /\ Cleanup
  /\ UNCHANGED <<now, app, history, trouble>>

ProviderRestarts ==
  /\ trouble < MaxTrouble
  /\ trouble' = trouble + 1
  /\ Forget
  /\ forgotten' = DOMAIN grants
  /\ UNCHANGED <<now, app, used, loggedOut, raced, revoked>>

AppRestarts ==
  /\ trouble < MaxTrouble
  /\ trouble' = trouble + 1
  /\ sessions' = [sid \in Sid |-> NoSession]
  /\ request' = [w \in Worker |-> Idle]
  /\ UNCHANGED <<now, idp, logins, grants, history>>

Next ==
  \/ \E sid \in Sid : Login(sid) \/ Authorize(sid) \/ Expire(sid)
  \/ \E w \in Worker, c \in DOMAIN logins : Callback(w, c)
  \/ \E w \in Worker, sid \in Sid : Api(w, sid) \/ Logout(w, sid)
  \/ \E w \in Worker :
       \/ Forward(w) \/ ClearCookie(w) \/ Provider(w)
       \/ Exchanged(w) \/ Introspected(w) \/ Refreshed(w)
       \/ Refused(w) \/ Finished(w) \/ Lost(w)
  \/ Tick \/ Janitor
  \/ ProviderRestarts \/ AppRestarts

Spec == Init /\ [][Next]_vars

-----------------------------------------------------------------------------
(* Properties.                                                             *)

Pair == DOMAIN grants

TypeOK ==
  /\ now \in 0..MaxTime
  /\ DOMAIN codes \subseteq DOMAIN logins
  /\ DOMAIN tokens \subseteq Pair /\ refresh \subseteq Pair
  /\ \A i \in DOMAIN tokens : tokens[i] = grants[i].expires
  /\ \A sid \in Sid : sessions[sid] # NoSession =>
       /\ sid \in used
       /\ sessions[sid].token \in Pair \cup {0}
       /\ sessions[sid].pending <=> sessions[sid].token = 0
  /\ \A w \in Worker : request[w].at \in {"idle", "forward", "leaving", "calling", "answered"}

\* idp token/store.go:55,91, codes and refresh tokens are single-use: of all the
\* pairs that go back to one sign-in at most one can be renewed, however often
\* callbacks and refreshes run at the same time, are lost or repeated.
SingleUse ==
  \A i, j \in refresh : grants[i].code = grants[j].code => i = j

\* web.go:262-264, "so a proxied request never carries an already-expired
\* token": when the provider is asked about the token of a proxied request it
\* has not expired.
NeverForwardsExpired ==
  \A w \in Worker :
    (request[w].at = "answered" /\ request[w].call = "verify" /\ ~request[w].good) =>
      request[w].arg \in revoked \cup forgotten

\* A session and the provider agree, also a session that a call has brought back
\* after its logout: as long as the access token of a session lasts and no call
\* renews it, the provider knows the token and will renew it with the refresh
\* token the session holds; except tokens from before a restart of the provider.
SessionRenewable ==
  \A sid \in Sid :
    LET s == sessions[sid] IN
    (s # NoSession /\ s.token # 0 /\ Renewing(sid) = {}
       /\ now <= grants[s.token].expires /\ s.token \notin forgotten)
      => Active(s.token) /\ RefreshGood(s.pair)

\* A logout that no other call of its session runs into is final as far as its
\* own calls get: the session never comes back, and once the provider has had
\* the revocation the token is not accepted any more and no pair of that sign-in
\* can be renewed.  When the revocation is lost the provider knows nothing of
\* the logout, and access tokens that were renewed before it last their time.
LogoutIsFinal ==
  \A sid \in loggedOut \ raced :
    /\ sessions[sid] = NoSession
    /\ \A i \in revoked :
         logins[grants[i].code] = sid =>
           ~Active(i) /\ \A j \in refresh : grants[j].code # grants[i].code

\* session.go:111, "Delete removes a session, effectively logging the user
\* out", and web.go:191, "The session is already gone locally": when the
\* provider has revoked the token of a logout, the session is not there.
LoggedOutStaysOut ==
  \A i \in revoked : sessions[logins[grants[i].code]] = NoSession
==============================================================================
