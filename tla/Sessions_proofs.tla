--------------------------- MODULE Sessions_proofs ----------------------------
(***************************************************************************)
(* First the provider alone: codes and refresh tokens are single-use, for  *)
(* any number of sessions, requests, codes and tokens.  The reason is in   *)
(* IdpInv: a code that is still in the store has no pair yet, and of the   *)
(* pairs that go back to one code at most one is in the refresh map.       *)
(*                                                                         *)
(* Then the app with it: the invariant Inv and what follows from it about  *)
(* sessions, forwarded tokens and logouts.                                 *)
(***************************************************************************)
EXTENDS Sessions, TLAPS

Grant == [code : Nat, expires : Nat]

IdpInv ==
  /\ now \in Nat
  /\ logins \in Seq(Sid)
  /\ grants \in Seq(Grant)
  /\ DOMAIN codes \subseteq DOMAIN logins
  /\ refresh \subseteq DOMAIN grants
  /\ \A i \in DOMAIN grants : grants[i].code \in DOMAIN logins \ DOMAIN codes
  /\ SingleUse

LEMMA WithoutDomain ==
  ASSUME NEW f, NEW S
  PROVE  DOMAIN Without(f, S) = DOMAIN f \ S
BY DEF Without, Restrict

LEMMA WithDomain ==
  ASSUME NEW f, NEW x, NEW v
  PROVE  DOMAIN With(f, x, v) = DOMAIN f \cup {x}
BY DEF With

\* Taking codes and refresh tokens out of the store keeps the invariant.
LEMMA TakingOut ==
  ASSUME IdpInv, UNCHANGED <<logins, grants>>, now' \in Nat,
         DOMAIN codes' \subseteq DOMAIN codes, refresh' \subseteq refresh
  PROVE  IdpInv'
BY DEF IdpInv, SingleUse

\* So does a new pair for a code that is not in the store and whose other pairs
\* are not left in the refresh map.
LEMMA IssuedKeeps ==
  ASSUME IdpInv, NEW c \in DOMAIN logins, NEW left \in SUBSET refresh,
         \A j \in left : grants[j].code # c,
         Issued(c, left), UNCHANGED <<now, logins>>,
         c \notin DOMAIN codes', DOMAIN codes' \subseteq DOMAIN codes
  PROVE  IdpInv'
<1> DEFINE n == Len(grants) + 1
           g == [code |-> c, expires |-> now + TokenTTL]
<1>1. g \in Grant
  <2>1. c \in Nat
    BY DEF IdpInv
  <2> QED  BY <2>1, LifetimeAssumption DEF IdpInv, Grant
<1>2. grants' = Append(grants, g) /\ refresh' = left \cup {n}
  BY DEF Issued, NextPair
<1>3. grants' \in Seq(Grant) /\ DOMAIN grants' = 1..n /\ DOMAIN grants = 1..Len(grants)
  BY <1>1, <1>2 DEF IdpInv
<1>4. grants'[n].code = c /\ \A i \in DOMAIN grants : grants'[i] = grants[i]
  BY <1>1, <1>2 DEF IdpInv
<1>5. Len(grants) \in Nat /\ left \subseteq DOMAIN grants
  BY DEF IdpInv
<1>6. refresh' \subseteq DOMAIN grants'
  BY <1>2, <1>3, <1>5
<1>7. \A i \in DOMAIN grants' : grants'[i].code \in DOMAIN logins' \ DOMAIN codes'
  <2>1. \A i \in DOMAIN grants' : i \in DOMAIN grants \/ i = n
    BY <1>3, <1>5
  <2> QED  BY <1>4, <2>1 DEF IdpInv
<1>8. SingleUse'
  <2> SUFFICES ASSUME NEW i \in refresh', NEW j \in refresh',
                      grants'[i].code = grants'[j].code
               PROVE  i = j
    BY DEF SingleUse
  <2>1. CASE i \in left /\ j \in left
    BY <1>4, <1>5, <2>1 DEF IdpInv, SingleUse
  <2>2. CASE i = n /\ j \in left
    BY <1>4, <1>5, <2>2
  <2>3. CASE i \in left /\ j = n
    BY <1>4, <1>5, <2>3
  <2> QED  BY <1>2, <2>1, <2>2, <2>3
<1> QED
  BY <1>3, <1>6, <1>7, <1>8 DEF IdpInv

LEMMA ExchangeKeeps ==
  ASSUME IdpInv, NEW c, Exchange(c), UNCHANGED now
  PROVE  IdpInv'
<1>1. DOMAIN codes' = DOMAIN codes \ {c} /\ UNCHANGED logins
  BY WithoutDomain DEF Exchange
<1>2. CASE CodeGood(c)
  <2>1. c \in DOMAIN logins /\ \A j \in refresh : grants[j].code # c
    BY <1>2 DEF IdpInv, CodeGood
  <2>2. Issued(c, refresh)
    BY <1>2 DEF Exchange
  <2> QED  BY <1>1, <2>1, <2>2, IssuedKeeps
<1>3. CASE ~CodeGood(c)
  <2>1. UNCHANGED <<tokens, refresh, grants>>
    BY <1>3 DEF Exchange
  <2> QED  BY <1>1, <2>1, TakingOut DEF IdpInv
<1> QED
  BY <1>2, <1>3

LEMMA RotateKeeps ==
  ASSUME IdpInv, NEW i, Rotate(i), UNCHANGED now
  PROVE  IdpInv'
<1>1. UNCHANGED <<codes, logins>>
  BY DEF Rotate
<1>2. CASE RefreshGood(i)
  <2> DEFINE c == grants[i].code
  <2>1. i \in refresh /\ i \in DOMAIN grants
    BY <1>2 DEF IdpInv, RefreshGood
  <2>2. c \in DOMAIN logins /\ c \notin DOMAIN codes
    BY <2>1 DEF IdpInv
  <2>3. \A j \in refresh \ {i} : grants[j].code # c
    BY <2>1 DEF IdpInv, SingleUse
  <2>4. Issued(c, refresh \ {i})
    BY <1>2 DEF Rotate
  <2> QED  BY <1>1, <2>2, <2>3, <2>4, IssuedKeeps
<1>3. CASE ~RefreshGood(i)
  <2>1. refresh' = refresh \ {i} /\ UNCHANGED <<tokens, grants>>
    BY <1>3 DEF Rotate
  <2> QED  BY <1>1, <2>1, TakingOut DEF IdpInv
<1> QED
  BY <1>2, <1>3

LEMMA IssueCodeKeeps ==
  ASSUME IdpInv, NEW sid \in Sid, IssueCode(sid), UNCHANGED now
  PROVE  IdpInv'
<1> DEFINE n == Len(logins) + 1
<1>1. logins' = Append(logins, sid) /\ DOMAIN codes' = DOMAIN codes \cup {n}
      /\ UNCHANGED <<refresh, grants>>
  BY WithDomain DEF IssueCode
<1>2. logins' \in Seq(Sid) /\ DOMAIN logins' = 1..n /\ DOMAIN logins = 1..Len(logins)
      /\ Len(logins) \in Nat
  BY <1>1 DEF IdpInv
<1>3. DOMAIN codes' \subseteq DOMAIN logins' /\ DOMAIN logins \subseteq DOMAIN logins'
      /\ n \notin DOMAIN logins
  BY <1>1, <1>2 DEF IdpInv
<1>4. \A i \in DOMAIN grants : grants[i].code \in DOMAIN logins' \ DOMAIN codes'
  BY <1>1, <1>3 DEF IdpInv
<1>5. SingleUse'
  BY <1>1 DEF IdpInv, SingleUse
<1> QED
  BY <1>1, <1>2, <1>3, <1>4, <1>5 DEF IdpInv

LEMMA ProviderKeeps ==
  ASSUME IdpInv, NEW w \in Worker, Provider(w)
  PROVE  IdpInv'
<1> DEFINE arg == request[w].arg
<1>1. now' = now /\ now \in Nat
  BY DEF Provider, IdpInv
<1>2. CASE Exchange(arg)
  BY <1>1, <1>2, ExchangeKeeps
<1>3. CASE Rotate(arg)
  BY <1>1, <1>3, RotateKeeps
<1>4. CASE Introspect(arg)
  <2>1. UNCHANGED <<codes, refresh, logins, grants>>
    BY <1>4 DEF Introspect
  <2> QED  BY <1>1, <2>1, TakingOut
<1>5. CASE Revoke(arg)
  <2>1. UNCHANGED <<codes, logins, grants>> /\ refresh' \subseteq refresh
    BY <1>5 DEF Revoke
  <2> QED  BY <1>1, <2>1, TakingOut
<1> QED
  BY <1>2, <1>3, <1>4, <1>5 DEF Provider

LEMMA NextKeeps ==
  ASSUME IdpInv, [Next]_vars
  PROVE  IdpInv'
<1>1. ASSUME NEW sid \in Sid, Authorize(sid)
      PROVE  IdpInv'
  BY <1>1, IssueCodeKeeps DEF Authorize
<1>2. ASSUME NEW w \in Worker, Provider(w)
      PROVE  IdpInv'
  BY <1>2, ProviderKeeps
<1>3. ASSUME Tick
      PROVE  IdpInv'
  <2>1. now' \in Nat /\ UNCHANGED <<codes, refresh, logins, grants>>
    BY <1>3 DEF Tick, idp, IdpInv
  <2> QED  BY <2>1, TakingOut
<1>4. ASSUME Janitor
      PROVE  IdpInv'
  <2>1. DOMAIN codes' \subseteq DOMAIN codes /\ refresh' \subseteq refresh
        /\ UNCHANGED <<now, logins, grants>>
    <3> DEFINE late == {c \in DOMAIN codes : now > codes[c]}
    <3>1. codes' = Without(codes, late) /\ refresh' \subseteq refresh
          /\ UNCHANGED <<now, logins, grants>>
      BY <1>4 DEF Janitor, Cleanup
    <3>2. DOMAIN Without(codes, late) = DOMAIN codes \ late
      BY WithoutDomain
    <3> QED  BY <3>1, <3>2
  <2> QED  BY <2>1, TakingOut DEF IdpInv
<1>5. ASSUME ProviderRestarts
      PROVE  IdpInv'
  <2>1. DOMAIN codes' \subseteq DOMAIN codes /\ refresh' \subseteq refresh
        /\ UNCHANGED <<now, logins, grants>>
    BY <1>5 DEF ProviderRestarts, Forget, NoCodes
  <2> QED  BY <2>1, TakingOut DEF IdpInv
<1>6. ASSUME UNCHANGED <<now, idp, logins, grants>>
      PROVE  IdpInv'
  BY <1>6 DEF idp, IdpInv, SingleUse
<1>7. ASSUME NEW sid \in Sid, Login(sid) \/ Expire(sid)
      PROVE  UNCHANGED <<now, idp, logins, grants>>
  BY <1>7 DEF Login, Expire
<1>8. ASSUME NEW w \in Worker, \E c \in DOMAIN logins : Callback(w, c)
      PROVE  UNCHANGED <<now, idp, logins, grants>>
  BY <1>8 DEF Callback
<1>9. ASSUME NEW w \in Worker, NEW sid \in Sid, Api(w, sid) \/ Logout(w, sid)
      PROVE  UNCHANGED <<now, idp, logins, grants>>
  BY <1>9 DEF Api, Logout
<1>10. ASSUME NEW w \in Worker,
              \/ Forward(w) \/ ClearCookie(w) \/ Exchanged(w) \/ Introspected(w) \/ Refreshed(w)
              \/ Refused(w) \/ Finished(w) \/ Lost(w)
       PROVE  UNCHANGED <<now, idp, logins, grants>>
  BY <1>10 DEF Forward, ClearCookie, Exchanged, Introspected, Refreshed, Refused, Finished, Lost
<1>11. ASSUME AppRestarts \/ UNCHANGED vars
       PROVE  UNCHANGED <<now, idp, logins, grants>>
  BY <1>11 DEF AppRestarts, vars
<1> QED
  BY <1>1, <1>2, <1>3, <1>4, <1>5, <1>6, <1>7, <1>8, <1>9, <1>10, <1>11 DEF Next

\* idp token/store.go:55,91.  Whatever the browser, the app and the provider do
\* and however calls race, are lost or repeated, at most one pair of a sign-in
\* can be renewed: a code gives one pair and a refresh token one successor.
THEOREM CodesAndRefreshTokensAreSingleUse == Spec => []SingleUse
<1>1. Init => IdpInv
  BY DEF Init, IdpInit, IdpInv, SingleUse, NoCodes
<1>2. IdpInv /\ [Next]_vars => IdpInv'
  BY NextKeeps
<1>3. IdpInv => SingleUse
  BY DEF IdpInv
<1> QED
  BY <1>1, <1>2, <1>3, PTL DEF Spec
-----------------------------------------------------------------------------
(***************************************************************************)
(* The session backend.  A new pair is carried by one request from the     *)
(* moment the provider issues it until the session is saved with it, and   *)
(* only a pair a session holds is renewed, sent or revoked.  So the newest *)
(* pair of a sign-in is carried, held, being renewed or lost; and the      *)
(* provider knows the refresh tokens of exactly the newest pairs whose     *)
(* access token it knows.                                                  *)
(***************************************************************************)

Session == [token : Nat, pair : Nat, expires : Nat, created : Nat, pending : BOOLEAN]

CallKind == {"exchange", "introspect", "refresh", "verify", "revoke"}

Request ==
  {Idle}
    \cup [at : {"forward"}, sid : Sid]
    \cup [at : {"leaving"}, sid : Sid, session : Session]
    \cup [at : {"calling"}, call : CallKind, sid : Sid, session : Session, arg : Nat,
          deadline : Nat]
    \cup [at : {"answered"}, call : CallKind, sid : Sid, session : Session, arg : Nat,
          deadline : Nat, good : BOOLEAN, pair : Nat, time : Nat]

Owner(i) == logins[grants[i].code]

Newest(i) == \A j \in Pair : grants[j].code = grants[i].code => j <= i

Calls(r, call) == r.at \in {"calling", "answered"} /\ r.call = call

\* r has a new pair i that no session holds yet.
Carries(r, i) ==
  \/ r.at = "answered" /\ r.call \in {"exchange", "refresh"} /\ r.good /\ r.pair = i
  \/ Calls(r, "introspect") /\ r.arg = i

\* r renews pair i.
Renews(r, i) == Calls(r, "refresh") /\ r.arg = i

Known ==
  /\ IdpInv
  /\ now \in 0..MaxTime
  /\ \A c \in DOMAIN logins : logins[c] \in used
  /\ \A i \in Pair : grants[i].expires # 0
  /\ DOMAIN tokens \subseteq Pair
  /\ \A i \in DOMAIN tokens : tokens[i] = grants[i].expires
  /\ refresh = {i \in DOMAIN tokens : Newest(i)}
  /\ revoked \subseteq Pair \ DOMAIN tokens
  /\ forgotten \subseteq Pair
  /\ \A i \in Pair \ DOMAIN tokens : i \in revoked \cup forgotten \/ grants[i].expires < now
  /\ raced \subseteq Sid /\ loggedOut \subseteq used /\ used \subseteq Sid

\* What the copies of the session sid and the session itself are like.
Sound(sid, s) ==
  /\ s \in Session
  /\ sid \in used
  /\ s.token = 0 => s.pending
  /\ s.token # 0 =>
       /\ s.token \in Pair /\ Owner(s.token) = sid /\ s.pair = s.token
       /\ ~s.pending
       /\ s.expires # 0 /\ s.expires <= grants[s.token].expires + Latency

\* The tokens a request deals with belong to its session, and a call is over
\* before the token it is about expires.
Proper(r) ==
  /\ r \in Request
  /\ r # Idle => r.sid \in used
  /\ r.at = "leaving" => Sound(r.sid, r.session)
  /\ r.at \in {"calling", "answered"} => now <= r.deadline
  /\ r.at = "calling" => r.deadline <= now + Latency
  /\ Calls(r, "exchange") =>
       Sound(r.sid, r.session) /\ r.arg \in DOMAIN logins /\ logins[r.arg] = r.sid
  /\ Calls(r, "introspect") \/ Calls(r, "refresh") => Sound(r.sid, r.session)
  /\ Calls(r, "introspect") => r.session.token = r.arg
  /\ r.at \in {"calling", "answered"} /\ r.call # "exchange" => r.arg \in Pair /\ Owner(r.arg) = r.sid
  /\ Calls(r, "introspect") => r.deadline + TokenTTL <= grants[r.arg].expires + 2 * Latency
  /\ Calls(r, "verify") => r.deadline <= grants[r.arg].expires
  /\ r.at = "answered" => r.time <= now /\ r.deadline <= r.time + Latency
  /\ r.at = "answered" /\ r.call \in {"exchange", "refresh"} /\ r.good =>
       r.pair \in Pair /\ Owner(r.pair) = r.sid /\ grants[r.pair].expires = r.time + TokenTTL
  /\ r.at = "answered" /\ r.call = "verify" /\ ~r.good => r.arg \in revoked \cup forgotten

\* What Forward is going to send lasts.
Lasting(s) ==
  s # NoSession /\ s.token # 0 => now + Latency <= grants[s.token].expires

HoldsPair(sid, i) == sessions[sid] # NoSession /\ sessions[sid].token = i

SessionsSound ==
  /\ sessions \in [Sid -> Session \cup {NoSession}]
  /\ \A sid \in Sid : sessions[sid] = NoSession \/ Sound(sid, sessions[sid])
RequestsProper ==
  /\ request \in [Worker -> Request]
  /\ \A w \in Worker : Proper(request[w])
ForwardLasts == \A w \in Worker : request[w].at = "forward" => Lasting(sessions[request[w].sid])

CarriedOnce ==
  \A w \in Worker, i \in Pair : Carries(request[w], i) =>
    /\ Newest(i)
    /\ \A sid \in Sid : ~HoldsPair(sid, i)
    /\ \A v \in Worker : ~Renews(request[v], i) /\ (Carries(request[v], i) => v = w)

HeldNewest ==
  \A sid \in Sid, i \in Pair :
    HoldsPair(sid, i) => Newest(i) \/ \E v \in Worker : Renews(request[v], i)

GoneForGood ==
  \A sid \in loggedOut \ raced : sessions[sid] = NoSession /\ Renewing(sid) = {}

\* The tokens of a session that was logged out alone are the newest.
Ended(i) == Owner(i) \in loggedOut /\ (Owner(i) \notin raced => Newest(i))
RevokedEnded == \A i \in revoked : Ended(i)
RevokesEnded == \A w \in Worker : Calls(request[w], "revoke") => Ended(request[w].arg)

AppInv ==
  /\ SessionsSound /\ RequestsProper /\ ForwardLasts
  /\ CarriedOnce /\ HeldNewest
  /\ GoneForGood /\ RevokedEnded /\ RevokesEnded

Inv == Known /\ AppInv

LEMMA SessionIsSome ==
  ASSUME NEW s \in Session
  PROVE  s # NoSession
<1>1. DOMAIN s = {"token", "pair", "expires", "created", "pending"}
  BY DEF Session
<1>2. DOMAIN NoSession = {"kind"}
  BY DEF NoSession
<1> QED
  BY <1>1, <1>2

\* What is in the store stays as it was issued.
Kept ==
  /\ \A c \in DOMAIN logins : c \in DOMAIN logins' /\ logins'[c] = logins[c]
  /\ \A i \in Pair : i \in Pair' /\ grants'[i] = grants[i]
  /\ used \subseteq used'

LEMMA OwnerStays ==
  ASSUME IdpInv, Kept, NEW i \in Pair
  PROVE  Owner(i)' = Owner(i) /\ i \in Pair'
BY DEF IdpInv, Kept, Owner, Pair

LEMMA SoundStays ==
  ASSUME IdpInv, Kept, NEW sid, NEW s, Sound(sid, s)
  PROVE  Sound(sid, s)'
<1>1. s.token # 0 => Owner(s.token)' = Owner(s.token) /\ s.token \in Pair'
  BY OwnerStays DEF Sound
<1>2. s.token # 0 => grants'[s.token] = grants[s.token]
  BY DEF Sound, Kept
<1> QED
  BY <1>1, <1>2 DEF Sound, Kept

LEMMA ProperStays ==
  ASSUME IdpInv, Kept, NEW r, Proper(r),
         now \in Nat, now' \in Nat, now <= now',
         r.at \in {"calling", "answered"} => now' <= r.deadline,
         revoked \subseteq revoked', forgotten \subseteq forgotten'
  PROVE  Proper(r)'
<1>1. ASSUME Sound(r.sid, r.session)
      PROVE  Sound(r.sid, r.session)'
  BY <1>1, SoundStays
<1>2. ASSUME r.arg \in Pair
      PROVE  r.arg \in Pair' /\ Owner(r.arg)' = Owner(r.arg) /\ grants'[r.arg] = grants[r.arg]
  BY <1>2, OwnerStays DEF Kept
<1>3. ASSUME r.pair \in Pair
      PROVE  r.pair \in Pair' /\ Owner(r.pair)' = Owner(r.pair) /\ grants'[r.pair] = grants[r.pair]
  BY <1>3, OwnerStays DEF Kept
<1>4. ASSUME r.arg \in DOMAIN logins
      PROVE  r.arg \in DOMAIN logins' /\ logins'[r.arg] = logins[r.arg]
  BY <1>4 DEF Kept
<1>5. r \in Request /\ (r # Idle => r.sid \in used')
  BY DEF Proper, Kept
<1>6. r.at = "answered" => r.time \in Nat
  BY <1>5 DEF Request, Idle
<1>7. r.at = "leaving" => Sound(r.sid, r.session)'
  BY <1>1 DEF Proper
<1>8. Calls(r, "exchange") =>
         Sound(r.sid, r.session)' /\ r.arg \in DOMAIN logins' /\ logins'[r.arg] = r.sid
  BY <1>1, <1>4 DEF Proper
<1>9. Calls(r, "introspect") \/ Calls(r, "refresh") => Sound(r.sid, r.session)'
  BY <1>1 DEF Proper
<1>10. r.at \in {"calling", "answered"} /\ r.call # "exchange" =>
         r.arg \in Pair' /\ Owner(r.arg)' = r.sid
  BY <1>2 DEF Proper
<1>11. /\ Calls(r, "introspect") => r.deadline + TokenTTL <= grants'[r.arg].expires + 2 * Latency
       /\ Calls(r, "verify") => r.deadline <= grants'[r.arg].expires
  BY <1>2 DEF Proper, Calls
<1>12. r.at = "answered" => r.time <= now' /\ r.deadline <= r.time + Latency
  BY <1>6 DEF Proper
<1>13. r.at = "answered" /\ r.call \in {"exchange", "refresh"} /\ r.good =>
         r.pair \in Pair' /\ Owner(r.pair)' = r.sid /\ grants'[r.pair].expires = r.time + TokenTTL
  BY <1>3 DEF Proper
<1>14. r.at = "answered" /\ r.call = "verify" /\ ~r.good => r.arg \in revoked' \cup forgotten'
  BY DEF Proper
<1>15. Calls(r, "introspect") => r.session.token = r.arg
  BY DEF Proper
<1>16. r.at = "calling" => r.deadline <= now' + Latency
  <2>1. r.at = "calling" => r.deadline \in Nat
    BY <1>5 DEF Request, Idle
  <2> QED  BY <2>1, TimeAssumption DEF Proper
<1> QED
  BY <1>16, <1>5, <1>7, <1>8, <1>9, <1>10, <1>11, <1>12, <1>13, <1>14, <1>15 DEF Proper

Renewal(r) == Calls(r, "exchange") \/ Calls(r, "introspect") \/ Calls(r, "refresh")

LEMMA RenewingIs ==
  ASSUME NEW sid \in Sid, NEW w \in Worker
  PROVE  w \in Renewing(sid) <=> Renewal(request[w]) /\ request[w].sid = sid
BY DEF Renewing, Renewal, Calls

\* A handler whose request goes on as r and that leaves the session sid as s:
\* a pair may be handed over from the request to the session, or from the
\* session to the request that renews it.
HandOver(w, r, sid, s) ==
  /\ \A i : Carries(r, i) => Carries(request[w], i) /\ (s # NoSession => s.token # i)
  /\ \A i : Renews(r, i) => Renews(request[w], i) \/ (HoldsPair(sid, i) /\ s = sessions[sid])
  /\ s = NoSession \/ s = sessions[sid] \/ (Carries(request[w], s.token) /\ Lasting(s))
  /\ \A i : Renews(request[w], i) =>
       Renews(r, i) \/ (sid = request[w].sid /\ (s # NoSession => s.token # i))
  /\ r.at = "forward" => r.sid = sid /\ Lasting(s)
  /\ s # NoSession => sessions[sid] # NoSession \/ (Renewal(request[w]) /\ request[w].sid = sid)
  /\ Renewal(r) =>
       sessions[r.sid] # NoSession \/ (Renewal(request[w]) /\ request[w].sid = r.sid)

LEMMA HandOverKeeps ==
  ASSUME Inv, NEW w \in Worker, NEW r, NEW sid \in Sid, NEW s,
         UNCHANGED <<now, idp, logins, grants, used, revoked, forgotten>>,
         request' = [request EXCEPT ![w] = r], sessions' = [sessions EXCEPT ![sid] = s],
         Proper(r), s = NoSession \/ Sound(sid, s), HandOver(w, r, sid, s)
  PROVE  SessionsSound' /\ RequestsProper' /\ ForwardLasts' /\ CarriedOnce' /\ HeldNewest'
<1>1. /\ r \in Request /\ s \in Session \cup {NoSession}
      /\ request' \in [Worker -> Request] /\ sessions' \in [Sid -> Session \cup {NoSession}]
      /\ request'[w] = r /\ \A v \in Worker \ {w} : request'[v] = request[v]
      /\ sessions'[sid] = s /\ \A t \in Sid \ {sid} : sessions'[t] = sessions[t]
  BY DEF Inv, AppInv, RequestsProper, SessionsSound, Proper, Sound
<1>2. Kept /\ IdpInv /\ now \in Nat
  BY DEF Kept, Pair, Inv, Known, IdpInv
<1>3. \A i \in Pair : Newest(i)' <=> Newest(i)
  BY DEF Newest, Pair
<1>4. Pair' = Pair /\ \A i \in Pair : Owner(i)' = Owner(i)
  BY DEF Owner, Pair
<1>5. SessionsSound'
  <2>1. ASSUME NEW t \in Sid, sessions'[t] # NoSession
        PROVE  Sound(t, sessions[t])'
    <3> PICK x : x = sessions'[t]
      OBVIOUS
    <3>1. Sound(t, x)
      BY <1>1, <2>1 DEF Inv, AppInv, SessionsSound
    <3>2. Sound(t, x)'
      BY <1>2, <3>1, SoundStays
    <3> QED  BY <3>2
  <2> QED  BY <1>1, <2>1 DEF SessionsSound
<1>6. RequestsProper'
  <2>1. ASSUME NEW v \in Worker
        PROVE  Proper(request[v])'
    <3> PICK x : x = request'[v]
      OBVIOUS
    <3>1. Proper(x)
      BY <1>1 DEF Inv, AppInv, RequestsProper
    <3>2. x.at \in {"calling", "answered"} => now <= x.deadline
      BY <3>1 DEF Proper
    <3>3. Proper(x)'
      BY <1>2, <3>1, <3>2, ProperStays
    <3> QED  BY <3>3
  <2> QED  BY <1>1, <2>1 DEF RequestsProper
<1>7. ForwardLasts'
  <2>1. \A x : Lasting(x)' <=> Lasting(x)
    BY DEF Lasting
  <2>2. ASSUME NEW v \in Worker, request'[v].at = "forward"
        PROVE  Lasting(sessions'[request'[v].sid])
    <3>1. CASE v = w
      BY <1>1, <2>2, <3>1 DEF HandOver
    <3>2. CASE v # w
      <4>1. request[v] \in Request /\ request[v].at = "forward"
        BY <1>1, <2>2, <3>2 DEF Inv, AppInv, RequestsProper
      <4>2. request[v].sid \in Sid
        BY <4>1 DEF Request, Idle
      <4>3. Lasting(sessions[request[v].sid])
        BY <4>1 DEF Inv, AppInv, ForwardLasts
      <4>4. sessions'[request[v].sid] = sessions[request[v].sid] \/ s = NoSession \/ Lasting(s)
        BY <1>1, <4>2 DEF HandOver
      <4>5. Lasting(NoSession)
        BY DEF Lasting
      <4> QED  BY <1>1, <3>2, <4>2, <4>3, <4>4, <4>5
    <3> QED  BY <3>1, <3>2
  <2> QED  BY <2>1, <2>2 DEF ForwardLasts
<1>8. CarriedOnce'
  <2> SUFFICES ASSUME NEW v \in Worker, NEW i \in Pair', Carries(request[v], i)'
               PROVE  /\ Newest(i)'
                      /\ \A t \in Sid : ~HoldsPair(t, i)'
                      /\ \A u \in Worker : (~Renews(request[u], i) /\ (Carries(request[u], i) => u = v))'
    BY DEF CarriedOnce
  <2>0. Carries(request'[v], i) /\ i \in Pair
    BY <1>4
  <2>1. Carries(request[v], i)
    BY <1>1, <2>0 DEF HandOver
  <2>2. /\ Newest(i)
        /\ \A t \in Sid : ~HoldsPair(t, i)
        /\ \A u \in Worker : ~Renews(request[u], i) /\ (Carries(request[u], i) => u = v)
    BY <2>0, <2>1 DEF Inv, AppInv, CarriedOnce
  <2>3. ASSUME s # NoSession
        PROVE  s.token # i
    <3>1. CASE v = w
      BY <1>1, <2>0, <2>3, <3>1 DEF HandOver
    <3>2. CASE v # w
      BY <1>1, <2>1, <2>2, <2>3, <3>2 DEF HandOver, HoldsPair
    <3> QED  BY <3>1, <3>2
  <2>4. \A t \in Sid : ~HoldsPair(t, i)'
    BY <1>1, <2>2, <2>3 DEF HoldsPair
  <2>5. \A u \in Worker : ~Renews(request'[u], i) /\ (Carries(request'[u], i) => u = v)
    BY <1>1, <2>2 DEF HandOver
  <2> QED  BY <1>3, <1>4, <2>2, <2>4, <2>5
<1>9. HeldNewest'
  <2> SUFFICES ASSUME NEW t \in Sid, NEW i \in Pair, sessions'[t] # NoSession,
                      sessions'[t].token = i
               PROVE  Newest(i) \/ \E v \in Worker : Renews(request'[v], i)
    BY <1>3, <1>4 DEF HeldNewest, HoldsPair
  <2>1. CASE t = sid /\ s # sessions[sid]
    <3>1. Carries(request[w], i)
      BY <1>1, <2>1 DEF HandOver
    <3> QED  BY <3>1 DEF Inv, AppInv, CarriedOnce
  <2>2. CASE ~(t = sid /\ s # sessions[sid])
    <3>1. HoldsPair(t, i)
      BY <1>1, <2>2 DEF HoldsPair
    <3>2. PICK v \in Worker : Newest(i) \/ Renews(request[v], i)
      BY <3>1 DEF Inv, AppInv, HeldNewest
    <3>3. CASE Renews(request[w], i) /\ ~Renews(r, i)
      <4>1. sid = request[w].sid /\ (s # NoSession => s.token # i)
        BY <3>3 DEF HandOver
      <4>2. Owner(i) = request[w].sid
        BY <3>3 DEF Inv, AppInv, RequestsProper, Proper, Renews, Calls
      <4>3. Owner(i) = t
        <5>1. Sound(t, sessions[t])
          BY <3>1 DEF Inv, AppInv, SessionsSound, HoldsPair
        <5>2. i # 0
          BY DEF Pair, Inv, Known, IdpInv
        <5> QED  BY <3>1, <5>1, <5>2 DEF Sound, HoldsPair
      <4> QED  BY <1>1, <4>1, <4>2, <4>3
    <3>4. CASE ~(Renews(request[w], i) /\ ~Renews(r, i))
      BY <1>1, <3>2, <3>4
    <3> QED  BY <3>3, <3>4
  <2> QED  BY <2>1, <2>2
<1> QED
  BY <1>5, <1>6, <1>7, <1>8, <1>9

LEMMA AppStep ==
  ASSUME Inv, NEW w \in Worker, NEW r, NEW sid \in Sid, NEW s,
         UNCHANGED <<now, idp, logins, grants, history>>,
         request' = [request EXCEPT ![w] = r], sessions' = [sessions EXCEPT ![sid] = s],
         Proper(r), s = NoSession \/ Sound(sid, s), HandOver(w, r, sid, s),
         Calls(r, "revoke") => Ended(r.arg)
  PROVE  AppInv'
<1>1. /\ request'[w] = r /\ \A v \in Worker \ {w} : request'[v] = request[v]
      /\ sessions'[sid] = s /\ \A t \in Sid \ {sid} : sessions'[t] = sessions[t]
  BY DEF Inv, AppInv, RequestsProper, SessionsSound
<1>2. \A i \in Pair : Newest(i)' <=> Newest(i)
  BY DEF Newest, Pair
<1>3. Pair' = Pair /\ \A i \in Pair : Owner(i)' = Owner(i)
  BY DEF Owner, Pair
<1>4. GoneForGood'
  <2> SUFFICES ASSUME NEW t \in loggedOut \ raced
               PROVE  sessions'[t] = NoSession /\ Renewing(t)' = {}
    BY DEF GoneForGood, history
  <2>1. t \in Sid /\ sessions[t] = NoSession /\ Renewing(t) = {}
    BY DEF Inv, Known, AppInv, GoneForGood
  <2>2. ASSUME NEW v \in Worker, Renewal(request[v])
        PROVE  request[v].sid # t
    BY <2>1, <2>2, RenewingIs
  <2>3. sessions'[t] = NoSession
    BY <1>1, <2>1, <2>2 DEF HandOver
  <2>4. ASSUME NEW v \in Worker, Renewal(request'[v])
        PROVE  request'[v].sid # t
    BY <1>1, <2>1, <2>2, <2>4 DEF HandOver
  <2>5. Renewing(t)' = {}
    BY <2>4 DEF Renewing, Renewal, Calls
  <2> QED  BY <2>3, <2>5
<1>5. RevokedEnded' /\ RevokesEnded'
  <2>1. \A i \in Pair : Ended(i)' <=> Ended(i)
    BY <1>2, <1>3 DEF Ended, history
  <2>2. RevokedEnded'
    BY <2>1 DEF Inv, AppInv, Known, RevokedEnded, history
  <2>3. ASSUME NEW v \in Worker, Calls(request'[v], "revoke")
        PROVE  Ended(request'[v].arg) /\ request'[v].arg \in Pair
    <3>1. Proper(request'[v])
      BY <1>1 DEF Inv, AppInv, RequestsProper
    <3>2. request'[v].arg \in Pair
      BY <2>3, <3>1 DEF Proper, Calls
    <3>3. Ended(request'[v].arg)
      BY <1>1, <2>3 DEF Inv, AppInv, RevokesEnded
    <3> QED  BY <3>2, <3>3
  <2> QED  BY <2>1, <2>2, <2>3 DEF RevokesEnded
<1>6. SessionsSound' /\ RequestsProper' /\ ForwardLasts' /\ CarriedOnce' /\ HeldNewest'
  BY HandOverKeeps DEF history
<1> QED
  BY <1>4, <1>5, <1>6 DEF AppInv

LEMMA FoundIs ==
  ASSUME Inv, NEW sid \in Sid, Found(sid) # NoSession
  PROVE  /\ Found(sid) = sessions[sid] /\ sessions[sid] # NoSession
         /\ Sound(sid, sessions[sid])
         /\ sessions[sid].token # 0 => HoldsPair(sid, sessions[sid].token)
<1>1. Found(sid) = sessions[sid] /\ sessions[sid] # NoSession
  BY DEF Found
<1>2. Sound(sid, sessions[sid])
  BY <1>1 DEF Inv, AppInv, SessionsSound
<1> QED
  BY <1>1, <1>2 DEF HoldsPair

\* What the invariant says of a request in progress.
LEMMA RequestIs ==
  ASSUME Inv, NEW w \in Worker
  PROVE  /\ Proper(request[w]) /\ request[w] \in Request
         /\ request[w] # Idle => request[w].sid \in Sid
<1>1. Proper(request[w]) /\ request[w] \in Request
  BY DEF Inv, AppInv, RequestsProper
<1> QED
  BY <1>1 DEF Request

LEMMA Times ==
  ASSUME Inv
  PROVE  /\ now \in Nat
         /\ \A i \in Pair : i \in Nat \ {0} /\ grants[i].expires \in Nat /\ grants[i].code \in DOMAIN logins
         /\ Latency \in Nat \ {0} /\ Skew \in Nat /\ TokenTTL \in Nat
         /\ 3 * Latency <= Skew /\ Skew < TokenTTL
<1>1. grants \in Seq(Grant) /\ now \in Nat /\ \A i \in DOMAIN grants : grants[i].code \in DOMAIN logins
  BY DEF Inv, Known, IdpInv
<1>2. \A i \in Pair : i \in Nat \ {0} /\ grants[i] \in Grant
  BY <1>1 DEF Pair
<1>3. \A i \in Pair : grants[i].expires \in Nat
  BY <1>2 DEF Grant
<1> QED
  BY <1>1, <1>2, <1>3, TimeAssumption, LifetimeAssumption DEF Pair

LEMMA IdleIsProper == Proper(Idle)
<1>1. Idle \in Request
  BY DEF Request
<1>2. Idle.at = "idle"
  BY DEF Idle
<1> QED
  BY <1>1, <1>2 DEF Proper, Calls

LEMMA CallbackKeeps ==
  ASSUME Inv, NEW w \in Worker, NEW c \in DOMAIN logins, Callback(w, c)
  PROVE  AppInv'
<1> PICK sid \in Sid : sid = logins[c]
  BY DEF Inv, Known, IdpInv
<1> PICK s : s = sessions[sid]
  OBVIOUS
<1> PICK r : r = Call("exchange", sid, s, c)
  OBVIOUS
<1>1. request[w] = Idle /\ Found(sid) # NoSession /\ Found(sid) = s /\ Sound(sid, s) /\ s # NoSession
  BY FoundIs DEF Callback
<1>2. request' = [request EXCEPT ![w] = r] /\ sessions' = [sessions EXCEPT ![sid] = s]
  BY <1>1 DEF Callback, Set, Inv, AppInv, SessionsSound
<1>3. /\ r.at = "calling" /\ r.call = "exchange" /\ r.sid = sid /\ r.session = s /\ r.arg = c
      /\ r.deadline = now + Latency
  BY DEF Call
<1>4. Proper(r)
  <2>1. c \in Nat
    BY DEF Inv, Known, IdpInv
  <2>2. r \in Request
    BY <1>1, <2>1, Times DEF Call, Request, CallKind, Sound
  <2> QED  BY <1>1, <1>3, <2>2, Times DEF Proper, Calls, Sound
<1>5. HandOver(w, r, sid, s)
  BY <1>1, <1>3 DEF HandOver, Carries, Renews, Calls, Idle, Renewal
<1>6. UNCHANGED <<now, idp, logins, grants, history>>
  BY DEF Callback
<1> QED
  BY <1>1, <1>2, <1>3, <1>4, <1>5, <1>6, AppStep DEF Calls

LEMMA ApiKeeps ==
  ASSUME Inv, NEW w \in Worker, NEW sid \in Sid, Api(w, sid)
  PROVE  AppInv'
<1> PICK s : s = sessions[sid]
  OBVIOUS
<1> PICK r : r = IF FreshEnough(s) THEN [at |-> "forward", sid |-> sid]
                 ELSE Call("refresh", sid, s, s.pair)
  OBVIOUS
<1>1. /\ request[w] = Idle /\ Found(sid) = s /\ Sound(sid, s) /\ s # NoSession
      /\ s.token # 0 /\ HoldsPair(sid, s.token)
  BY FoundIs DEF Api
<1>2. request' = [request EXCEPT ![w] = r] /\ sessions' = [sessions EXCEPT ![sid] = s]
  BY <1>1 DEF Api, Set, Inv, AppInv, SessionsSound
<1>3. s.token \in Pair /\ s.pair = s.token /\ Owner(s.token) = sid /\ sid \in used
      /\ s \in Session /\ s.expires <= grants[s.token].expires + Latency
  BY <1>1 DEF Sound
<1>4. UNCHANGED <<now, idp, logins, grants, history>>
  BY DEF Api
<1>5. CASE FreshEnough(s)
  <2>1. r = [at |-> "forward", sid |-> sid]
    BY <1>5
  <2>2. Proper(r)
    BY <1>3, <2>1 DEF Proper, Request, Calls, Idle
  <2>3. Lasting(s)
    <3>1. s.expires \in Nat
      BY <1>3 DEF Session
    <3> QED  BY <1>3, <1>5, <3>1, Times DEF FreshEnough, Lasting
  <2>4. HandOver(w, r, sid, s)
    BY <1>1, <2>1, <2>3 DEF HandOver, Carries, Renews, Calls, Idle, Renewal
  <2> QED  BY <1>1, <1>2, <1>4, <2>1, <2>2, <2>4, AppStep DEF Calls
<1>6. CASE ~FreshEnough(s)
  <2>1. /\ r.at = "calling" /\ r.call = "refresh" /\ r.sid = sid /\ r.session = s
        /\ r.arg = s.token /\ r.deadline = now + Latency
    BY <1>3, <1>6 DEF Call
  <2>2. r \in Request
    BY <1>3, <1>6, Times DEF Call, Request, CallKind, Session
  <2>3. Proper(r)
    BY <1>1, <1>3, <2>1, <2>2, Times DEF Proper, Calls
  <2>4. HandOver(w, r, sid, s)
    BY <1>1, <2>1 DEF HandOver, Carries, Renews, Calls, Idle, Renewal
  <2> QED  BY <1>1, <1>2, <1>4, <2>1, <2>3, <2>4, AppStep DEF Calls
<1> QED
  BY <1>5, <1>6

LEMMA ForwardKeeps ==
  ASSUME Inv, NEW w \in Worker, Forward(w)
  PROVE  AppInv'
<1> PICK sid \in Sid : sid = request[w].sid
  BY RequestIs DEF Forward, Idle
<1> PICK s : s = Found(sid)
  OBVIOUS
<1> PICK r : r = IF s # NoSession /\ s.token # 0 THEN Call("verify", sid, s, s.token) ELSE Idle
  OBVIOUS
<1>1. request[w].at = "forward" /\ request' = [request EXCEPT ![w] = r]
      /\ sessions' = [sessions EXCEPT ![sid] = s] /\ UNCHANGED <<now, idp, logins, grants, history>>
  BY DEF Forward, Set
<1>2. s # NoSession => s = sessions[sid] /\ Sound(sid, s)
  BY FoundIs
<1>3. CASE s # NoSession /\ s.token # 0
  <2>1. /\ r.at = "calling" /\ r.call = "verify" /\ r.sid = sid /\ r.session = s
        /\ r.arg = s.token /\ r.deadline = now + Latency
    BY <1>3 DEF Call
  <2>2. /\ s \in Session /\ sid \in used /\ s.token \in Pair /\ Owner(s.token) = sid
    BY <1>2, <1>3 DEF Sound
  <2>3. r \in Request
    BY <1>3, <2>2, Times DEF Call, Request, CallKind, Session
  <2>4. now + Latency <= grants[s.token].expires
    BY <1>1, <1>2, <1>3 DEF Inv, AppInv, ForwardLasts, Lasting
  <2>5. Proper(r)
    BY <2>1, <2>2, <2>3, <2>4, Times DEF Proper, Calls
  <2>6. HandOver(w, r, sid, s)
    BY <1>1, <1>2, <1>3, <2>1 DEF HandOver, Carries, Renews, Calls, Renewal
  <2> QED  BY <1>1, <1>2, <2>1, <2>5, <2>6, AppStep DEF Calls
<1>4. CASE ~(s # NoSession /\ s.token # 0)
  <2>1. r = Idle
    BY <1>4
  <2>2. Proper(r)
    BY <2>1, IdleIsProper
  <2>3. HandOver(w, r, sid, s)
    BY <1>1, <1>2, <2>1 DEF HandOver, Carries, Renews, Calls, Renewal, Idle
  <2> QED  BY <1>1, <1>2, <2>1, <2>2, <2>3, AppStep DEF Calls, Idle
<1> QED
  BY <1>3, <1>4

LEMMA LogoutKeeps ==
  ASSUME Inv, NEW w \in Worker, NEW sid \in Sid, Logout(w, sid)
  PROVE  AppInv'
<1> PICK s : s = sessions[sid]
  OBVIOUS
<1> PICK r : r = [at |-> "leaving", sid |-> sid, session |-> s]
  OBVIOUS
<1>1. request[w] = Idle /\ Found(sid) = s /\ Sound(sid, s) /\ s # NoSession
  BY FoundIs DEF Logout
<1>2. request' = [request EXCEPT ![w] = r] /\ sessions' = [sessions EXCEPT ![sid] = s]
  BY <1>1 DEF Logout, Set, Inv, AppInv, SessionsSound
<1>3. Proper(r)
  BY <1>1 DEF Proper, Request, Calls, Sound
<1>4. HandOver(w, r, sid, s)
  BY <1>1 DEF HandOver, Carries, Renews, Calls, Renewal, Idle
<1> QED
  BY <1>1, <1>2, <1>3, <1>4, AppStep DEF Logout, Calls

\* A new pair's session is as sound as the copy it was made from.
LEMMA RenewedSound ==
  ASSUME Inv, NEW w \in Worker, request[w].at = "answered",
         request[w].call \in {"exchange", "refresh"}, request[w].good
  PROVE  /\ Sound(request[w].sid, Renewed(request[w]))
         /\ Renewed(request[w]).token = request[w].pair /\ request[w].pair \in Pair
         /\ Owner(request[w].pair) = request[w].sid /\ request[w].sid \in Sid
         /\ request[w].sid \in used
         /\ now + TokenTTL <= grants[request[w].pair].expires + Latency
         /\ Carries(request[w], request[w].pair)
         /\ Renewed(request[w]) # NoSession
<1> PICK r : r = request[w]
  OBVIOUS
<1> PICK s : s = r.session
  OBVIOUS
<1> PICK n : n = Renewed(r)
  OBVIOUS
<1>1. Proper(r) /\ r \in Request /\ r # Idle /\ r.sid \in Sid
  BY RequestIs DEF Idle
<1>2. Calls(r, "exchange") \/ Calls(r, "refresh")
  BY DEF Calls
<1>3. Sound(r.sid, s) /\ s \in Session /\ r.sid \in used
  BY <1>1, <1>2 DEF Proper, Sound
<1>4. r.pair \in Pair /\ Owner(r.pair) = r.sid /\ grants[r.pair].expires = r.time + TokenTTL
      /\ r.time <= now /\ now <= r.deadline /\ r.deadline <= r.time + Latency
  BY <1>1 DEF Proper
<1>5. r.time \in Nat /\ r.deadline \in Nat
  BY <1>1 DEF Request, Idle
<1>6. /\ n.token = r.pair /\ n.pair = r.pair /\ n.pending = FALSE /\ n.created = s.created
      /\ n.expires = now + (grants[r.pair].expires - r.time)
      /\ n = [token |-> n.token, pair |-> n.pair, expires |-> n.expires, created |-> n.created,
              pending |-> n.pending]
  BY <1>3 DEF Renewed, Session
<1>7. n.expires = now + TokenTTL /\ n.expires \in Nat \ {0}
      /\ now + TokenTTL <= grants[r.pair].expires + Latency
  BY <1>4, <1>5, <1>6, Times
<1>8. r.pair \in Nat \ {0} /\ s.created \in Nat
  BY <1>3, <1>4, Times DEF Session
<1>9. n \in Session
  BY <1>6, <1>7, <1>8 DEF Session
<1>10. Sound(r.sid, n)
  BY <1>3, <1>4, <1>6, <1>7, <1>8, <1>9 DEF Sound
<1>11. Carries(r, r.pair)
  BY DEF Carries
<1>12. n # NoSession
  BY <1>9, SessionIsSome
<1> QED
  BY <1>1, <1>3, <1>4, <1>6, <1>7, <1>10, <1>11, <1>12

LEMMA ExchangedKeeps ==
  ASSUME Inv, NEW w \in Worker, Exchanged(w)
  PROVE  AppInv'
<1> PICK q : q = request[w]
  OBVIOUS
<1> PICK sid \in Sid : sid = q.sid
  BY RequestIs DEF Exchanged, Idle
<1> PICK s : s = sessions[sid]
  OBVIOUS
<1> PICK n : n = Renewed(q)
  OBVIOUS
<1> PICK r : r = Call("introspect", sid, n, q.pair)
  OBVIOUS
<1>1. q.at = "answered" /\ q.call = "exchange" /\ q.good
  BY DEF Exchanged
<1>2. /\ Sound(sid, n) /\ n.token = q.pair /\ q.pair \in Pair /\ Owner(q.pair) = sid /\ sid \in used
      /\ now + TokenTTL <= grants[q.pair].expires + Latency /\ Carries(q, q.pair)
  BY <1>1, RenewedSound
<1>3. request' = [request EXCEPT ![w] = r] /\ sessions' = [sessions EXCEPT ![sid] = s]
      /\ UNCHANGED <<now, idp, logins, grants, history>>
  BY DEF Exchanged, Set, Inv, AppInv, SessionsSound
<1>4. /\ r.at = "calling" /\ r.call = "introspect" /\ r.sid = sid /\ r.session = n
      /\ r.arg = q.pair /\ r.deadline = now + Latency
  BY DEF Call
<1>5. r \in Request
  BY <1>2, Times DEF Call, Request, CallKind, Sound
<1>6. Proper(r)
  BY <1>2, <1>4, <1>5, Times DEF Proper, Calls
<1>7. s # NoSession => s.token # q.pair
  BY <1>2 DEF Inv, AppInv, CarriedOnce, HoldsPair
<1>8. HandOver(w, r, sid, s)
  BY <1>1, <1>2, <1>4, <1>7 DEF HandOver, Carries, Renews, Calls, Renewal
<1>9. s = NoSession \/ Sound(sid, s)
  BY DEF Inv, AppInv, SessionsSound
<1> QED
  BY <1>3, <1>4, <1>6, <1>8, <1>9, AppStep DEF Calls

LEMMA IntrospectedKeeps ==
  ASSUME Inv, NEW w \in Worker, Introspected(w)
  PROVE  AppInv'
<1> PICK q : q = request[w]
  OBVIOUS
<1> PICK sid \in Sid : sid = q.sid
  BY RequestIs DEF Introspected, Idle
<1> PICK t : t = q.session
  OBVIOUS
<1> PICK s : s = [t EXCEPT !.expires = grants[q.arg].expires]
  OBVIOUS
<1>1. q.at = "answered" /\ q.call = "introspect" /\ q.good
      /\ request' = [request EXCEPT ![w] = Idle] /\ sessions' = [sessions EXCEPT ![sid] = s]
      /\ UNCHANGED <<now, idp, logins, grants, history>>
  BY DEF Introspected, Set, Save
<1>2. Calls(q, "introspect") /\ Proper(q) /\ q \in Request
  BY <1>1, RequestIs DEF Calls
<1>3. Sound(sid, t) /\ t.token = q.arg /\ q.arg \in Pair
      /\ now <= q.deadline /\ q.deadline + TokenTTL <= grants[q.arg].expires + 2 * Latency
  BY <1>1, <1>2 DEF Proper
<1>4. q.deadline \in Nat
  BY <1>1, <1>2 DEF Request, Idle
<1>5. q.arg # 0 /\ grants[q.arg].expires \in Nat \ {0}
  BY <1>3, Times DEF Inv, Known
<1>6. /\ s.token = q.arg /\ s.pair = t.pair /\ s.pending = t.pending /\ s.created = t.created
      /\ s.expires = grants[q.arg].expires /\ s \in Session
  BY <1>3, <1>5 DEF Session, Sound
<1>7. Sound(sid, s)
  BY <1>3, <1>5, <1>6, Times DEF Sound
<1>8. Carries(q, s.token)
  BY <1>2, <1>6 DEF Carries
<1>9. Lasting(s)
  BY <1>3, <1>4, <1>5, <1>6, Times DEF Lasting
<1>10. HandOver(w, Idle, sid, s)
  BY <1>1, <1>8, <1>9 DEF HandOver, Carries, Renews, Calls, Renewal, Idle
<1> QED
  BY <1>1, <1>7, <1>10, IdleIsProper, AppStep DEF Calls, Idle

LEMMA RefreshedKeeps ==
  ASSUME Inv, NEW w \in Worker, Refreshed(w)
  PROVE  AppInv'
<1> PICK q : q = request[w]
  OBVIOUS
<1> PICK sid \in Sid : sid = q.sid
  BY RequestIs DEF Refreshed, Idle
<1> PICK s : s = Renewed(q)
  OBVIOUS
<1> PICK r : r = [at |-> "forward", sid |-> sid]
  OBVIOUS
<1>1. q.at = "answered" /\ q.call = "refresh" /\ q.good
      /\ request' = [request EXCEPT ![w] = r] /\ sessions' = [sessions EXCEPT ![sid] = s]
      /\ UNCHANGED <<now, idp, logins, grants, history>>
  BY DEF Refreshed, Set, Save
<1>2. /\ Sound(sid, s) /\ s.token = q.pair /\ q.pair \in Pair /\ sid \in used /\ s # NoSession
      /\ now + TokenTTL <= grants[q.pair].expires + Latency /\ Carries(q, q.pair)
  BY <1>1, RenewedSound
<1>3. Proper(r)
  BY <1>2 DEF Proper, Request, Calls, Idle
<1>4. Lasting(s)
  BY <1>2, Times DEF Lasting
<1>5. \A i : Renews(q, i) => i # s.token
  BY <1>2 DEF Inv, AppInv, CarriedOnce
<1>6. HandOver(w, r, sid, s)
  BY <1>1, <1>2, <1>4, <1>5 DEF HandOver, Carries, Renews, Calls, Renewal
<1> QED
  BY <1>1, <1>2, <1>3, <1>6, AppStep DEF Calls

\* Whatever its call was for, a request that gives up leaves no pair behind.
LEMMA GiveUpKeeps ==
  ASSUME Inv, NEW w \in Worker, request[w].at \in {"calling", "answered"}, GiveUp(w),
         UNCHANGED <<now, idp, logins, grants, history>>
  PROVE  AppInv'
<1> PICK q : q = request[w]
  OBVIOUS
<1> PICK sid \in Sid : sid = q.sid
  BY RequestIs DEF Idle
<1> PICK s : s = IF q.call = "refresh" THEN NoSession ELSE sessions[sid]
  OBVIOUS
<1>1. request' = [request EXCEPT ![w] = Idle] /\ sessions' = [sessions EXCEPT ![sid] = s]
  BY DEF GiveUp, Set, Save, Inv, AppInv, SessionsSound
<1>2. s = NoSession \/ Sound(sid, s)
  BY DEF Inv, AppInv, SessionsSound
<1>3. HandOver(w, Idle, sid, s)
  BY DEF HandOver, Carries, Renews, Calls, Renewal, Idle
<1>4. ~Calls(Idle, "revoke")
  BY DEF Calls, Idle
<1> QED
  BY <1>1, <1>2, <1>3, <1>4, IdleIsProper, AppStep

LEMMA FinishedKeeps ==
  ASSUME Inv, NEW w \in Worker, Finished(w)
  PROVE  AppInv'
<1> PICK sid \in Sid : sid = request[w].sid
  BY RequestIs DEF Finished, Idle
<1> PICK s : s = sessions[sid]
  OBVIOUS
<1>1. request' = [request EXCEPT ![w] = Idle] /\ sessions' = [sessions EXCEPT ![sid] = s]
      /\ UNCHANGED <<now, idp, logins, grants, history>>
  BY DEF Finished, Set, Inv, AppInv, SessionsSound
<1>2. s = NoSession \/ Sound(sid, s)
  BY DEF Inv, AppInv, SessionsSound
<1>3. HandOver(w, Idle, sid, s)
  BY DEF Finished, HandOver, Carries, Renews, Calls, Renewal, Idle
<1>4. ~Calls(Idle, "revoke")
  BY DEF Calls, Idle
<1> QED
  BY <1>1, <1>2, <1>3, <1>4, IdleIsProper, AppStep

\* If the session is the one that was looked up and nothing else is under way,
\* its pair is the newest of its sign-in and stays so.
LEMMA ClearCookieKeeps ==
  ASSUME Inv, NEW w \in Worker, ClearCookie(w)
  PROVE  AppInv'
<1> PICK q : q = request[w]
  OBVIOUS
<1> PICK sid \in Sid : sid = q.sid
  BY RequestIs DEF ClearCookie, Idle
<1> PICK t : t = q.session
  OBVIOUS
<1> PICK r : r = IF t.token # 0 THEN Call("revoke", sid, t, t.token) ELSE Idle
  OBVIOUS
<1>1. /\ q.at = "leaving" /\ request' = [request EXCEPT ![w] = r]
      /\ sessions' = [sessions EXCEPT ![sid] = NoSession]
      /\ loggedOut' = loggedOut \cup {sid}
      /\ raced' = IF Renewing(sid) = {} /\ sessions[sid] = t THEN raced ELSE raced \cup {sid}
      /\ UNCHANGED <<now, idp, logins, grants, used, revoked, forgotten>>
  BY DEF ClearCookie, Set
<1>2. Proper(q) /\ Sound(sid, t)
  BY <1>1, RequestIs DEF Proper
<1>3. ASSUME t.token # 0
      PROVE  Proper(r)
  <2>1. /\ r.at = "calling" /\ r.call = "revoke" /\ r.sid = sid /\ r.session = t
        /\ r.arg = t.token /\ r.deadline = now + Latency
    BY <1>3 DEF Call
  <2>2. t \in Session /\ sid \in used /\ t.token \in Pair /\ Owner(t.token) = sid
    BY <1>2, <1>3 DEF Sound
  <2>3. r \in Request
    BY <1>3, <2>2, Times DEF Call, Request, CallKind, Session
  <2> QED  BY <2>1, <2>2, <2>3, Times DEF Proper, Calls
<1>4. Proper(r)
  BY <1>3, IdleIsProper
<1>5. HandOver(w, r, sid, NoSession)
  BY <1>1 DEF HandOver, Carries, Renews, Calls, Renewal, Idle, Call
<1>6. SessionsSound' /\ RequestsProper' /\ ForwardLasts' /\ CarriedOnce' /\ HeldNewest'
  BY <1>1, <1>4, <1>5, HandOverKeeps
<1>7. /\ request'[w] = r /\ \A v \in Worker \ {w} : request'[v] = request[v]
      /\ sessions'[sid] = NoSession /\ \A u \in Sid \ {sid} : sessions'[u] = sessions[u]
  BY <1>1 DEF Inv, AppInv, RequestsProper, SessionsSound
<1>8. \A i \in Pair : Newest(i)' <=> Newest(i)
  BY <1>1 DEF Newest, Pair
<1>9. Pair' = Pair /\ \A i \in Pair : Owner(i)' = Owner(i)
  BY <1>1 DEF Owner, Pair
<1>10. GoneForGood'
  <2> SUFFICES ASSUME NEW u \in (loggedOut' \ raced')
               PROVE  sessions'[u] = NoSession /\ Renewing(u)' = {}
    BY DEF GoneForGood
  <2>1. u \in Sid /\ (u # sid => u \in loggedOut \ raced) /\ Renewing(u) = {}
    BY <1>1 DEF Inv, Known, AppInv, GoneForGood
  <2>2. sessions'[u] = NoSession
    BY <1>1, <1>7, <2>1 DEF Inv, AppInv, GoneForGood
  <2>3. \A v \in Worker : Renewal(request'[v]) => Renewal(request[v]) /\ request'[v] = request[v]
    BY <1>7 DEF Renewal, Calls, Call, Idle
  <2>4. Renewing(u)' = {}
    BY <2>1, <2>3 DEF Renewing, Renewal, Calls
  <2> QED  BY <2>2, <2>4
<1>11. ASSUME NEW i \in Pair, Ended(i)
       PROVE  Ended(i)'
  BY <1>1, <1>8, <1>9, <1>11 DEF Ended
<1>12. RevokedEnded'
  BY <1>1, <1>11 DEF Inv, AppInv, Known, RevokedEnded
<1>13. ASSUME t.token # 0
       PROVE  t.token \in Pair /\ Ended(t.token)'
  <2>1. t.token \in Pair /\ Owner(t.token) = sid
    BY <1>2, <1>13 DEF Sound
  <2>2. ASSUME sid \notin raced'
        PROVE  Newest(t.token)
    <3>1. Renewing(sid) = {} /\ sessions[sid] = t
      BY <1>1, <2>2
    <3>2. HoldsPair(sid, t.token)
      BY <1>2, <3>1, SessionIsSome DEF HoldsPair, Sound
    <3>3. ASSUME NEW v \in Worker, Renews(request[v], t.token)
          PROVE  FALSE
      <4>1. request[v].sid = sid /\ Renewal(request[v])
        BY <2>1, <3>3, RequestIs DEF Proper, Renews, Calls, Renewal
      <4> QED  BY <3>1, <4>1, RenewingIs
    <3> QED  BY <2>1, <3>2, <3>3 DEF Inv, AppInv, HeldNewest
  <2> QED  BY <1>1, <1>8, <1>9, <2>1, <2>2 DEF Ended
<1>14. RevokesEnded'
  <2>1. ASSUME NEW v \in Worker, Calls(request'[v], "revoke")
        PROVE  Ended(request[v].arg)'
    <3> PICK i : i = request'[v].arg
      OBVIOUS
    <3>1. CASE v = w
      <4>1. t.token # 0 /\ i = t.token
        BY <1>7, <2>1, <3>1 DEF Calls, Idle, Call
      <4> QED  BY <1>13, <4>1
    <3>2. CASE v # w
      <4>1. i = request[v].arg /\ Calls(request[v], "revoke")
        BY <1>7, <2>1, <3>2
      <4>2. i \in Pair
        BY <4>1, RequestIs DEF Proper, Calls
      <4>3. Ended(i)
        BY <4>1 DEF Inv, AppInv, RevokesEnded
      <4> QED  BY <1>11, <4>2, <4>3
    <3> QED  BY <3>1, <3>2
  <2> QED  BY <2>1 DEF RevokesEnded
<1> QED
  BY <1>6, <1>10, <1>12, <1>14 DEF AppInv

LEMMA KnownStays ==
  ASSUME Known, UNCHANGED <<now, idp, logins, grants, revoked, forgotten>>,
         used \subseteq used', used' \subseteq Sid, loggedOut' \subseteq used', raced' \subseteq Sid
  PROVE  Known'
BY DEF Known, IdpInv, SingleUse, Newest, Pair, idp

LEMMA LoginKeeps ==
  ASSUME Inv, NEW sid \in Sid, Login(sid)
  PROVE  Inv'
<1> PICK s : s = Fresh
  OBVIOUS
<1>1. /\ sid \notin used /\ used' = used \cup {sid}
      /\ sessions' = [sessions EXCEPT ![sid] = s]
      /\ UNCHANGED <<now, idp, logins, grants, request, loggedOut, raced, revoked, forgotten>>
  BY DEF Login
<1>2. sid \notin loggedOut /\ used \subseteq Sid /\ loggedOut \subseteq used /\ raced \subseteq Sid
  BY <1>1 DEF Inv, Known
<1>3. Known'
  BY <1>1, <1>2, KnownStays DEF Inv
<1>4. Kept /\ IdpInv /\ now \in Nat
  BY <1>1 DEF Kept, Pair, Inv, Known, IdpInv
<1>5. s.token = 0 /\ s \in Session /\ s.pending
  BY <1>4 DEF Fresh, Session
<1>6. sessions' \in [Sid -> Session \cup {NoSession}] /\ sessions'[sid] = s
      /\ \A t \in Sid \ {sid} : sessions'[t] = sessions[t]
  BY <1>1, <1>5 DEF Inv, AppInv, SessionsSound
<1>7. \A i \in Pair : Newest(i)' <=> Newest(i)
  BY <1>1 DEF Newest, Pair
<1>8. Pair' = Pair /\ 0 \notin Pair /\ \A i \in Pair : Owner(i)' = Owner(i)
  BY <1>1, Times DEF Owner, Pair
<1>9. SessionsSound'
  <2>1. ASSUME NEW t \in Sid, sessions'[t] # NoSession
        PROVE  Sound(t, sessions[t])'
    <3>1. CASE t = sid
      BY <1>1, <1>5, <1>6, <3>1 DEF Sound
    <3>2. CASE t # sid
      <4> PICK x : x = sessions'[t]
        OBVIOUS
      <4>1. Sound(t, x)
        BY <1>6, <2>1, <3>2 DEF Inv, AppInv, SessionsSound
      <4>2. Sound(t, x)'
        BY <1>4, <4>1, SoundStays
      <4> QED  BY <4>2
    <3> QED  BY <3>1, <3>2
  <2> QED  BY <1>6, <2>1 DEF SessionsSound
<1>10. RequestsProper'
  <2>1. ASSUME NEW v \in Worker
        PROVE  Proper(request[v])'
    <3> PICK x : x = request[v]
      OBVIOUS
    <3>1. Proper(x)
      BY RequestIs
    <3>2. x.at \in {"calling", "answered"} => now <= x.deadline
      BY <3>1 DEF Proper
    <3>3. Proper(x)'
      BY <1>1, <1>4, <3>1, <3>2, ProperStays
    <3> QED  BY <1>1, <3>3
  <2> QED  BY <1>1, <2>1 DEF Inv, AppInv, RequestsProper
<1>11. ForwardLasts'
  <2>1. \A x : Lasting(x)' <=> Lasting(x)
    BY <1>1 DEF Lasting
  <2>2. Lasting(s)
    BY <1>5 DEF Lasting
  <2>3. ASSUME NEW v \in Worker, request'[v].at = "forward"
        PROVE  Lasting(sessions'[request'[v].sid])
    <3>1. request[v].sid \in Sid
      BY <1>1, <2>3, RequestIs DEF Idle
    <3>2. Lasting(sessions[request[v].sid])
      BY <1>1, <2>3 DEF Inv, AppInv, ForwardLasts
    <3> QED  BY <1>1, <1>6, <2>2, <3>1, <3>2
  <2> QED  BY <2>1, <2>3 DEF ForwardLasts
<1>12. ASSUME NEW t \in Sid, NEW i \in Pair
       PROVE  HoldsPair(t, i)' => HoldsPair(t, i)
  BY <1>5, <1>6, <1>8 DEF HoldsPair
<1>13. CarriedOnce'
  BY <1>1, <1>7, <1>8, <1>12 DEF Inv, AppInv, CarriedOnce
<1>14. HeldNewest'
  BY <1>1, <1>7, <1>8, <1>12 DEF Inv, AppInv, HeldNewest
<1>15. GoneForGood'
  BY <1>1, <1>2, <1>6 DEF Inv, AppInv, GoneForGood, Renewing
<1>16. RevokedEnded' /\ RevokesEnded'
  <2>1. \A i \in Pair : Ended(i)' <=> Ended(i)
    BY <1>1, <1>7, <1>8 DEF Ended
  <2>2. \A v \in Worker : Calls(request[v], "revoke") => request[v].arg \in Pair
    BY RequestIs DEF Proper, Calls
  <2> QED  BY <1>1, <2>1, <2>2 DEF Inv, AppInv, Known, RevokedEnded, RevokesEnded
<1> QED
  BY <1>3, <1>9, <1>10, <1>11, <1>13, <1>14, <1>15, <1>16 DEF Inv, AppInv

\* A step of the provider that no request waits for, or of the clock.
LEMMA StoreStep ==
  ASSUME Inv, Kept, UNCHANGED <<sessions, request, grants, used, loggedOut, raced, revoked>>,
         now' \in Nat, now <= now', forgotten \subseteq forgotten',
         \A w \in Worker : request[w].at \in {"calling", "answered"} => now' <= request[w].deadline,
         now' = now \/ \A w \in Worker : request[w].at # "forward"
  PROVE  AppInv'
<1>1. IdpInv /\ now \in Nat
  BY DEF Inv, Known, IdpInv
<1>2. \A i \in Pair : Newest(i)' <=> Newest(i)
  BY DEF Newest, Pair
<1>3. Pair' = Pair /\ \A i \in Pair : Owner(i)' = Owner(i)
  BY <1>1, OwnerStays DEF Pair
<1>4. SessionsSound'
  <2>1. ASSUME NEW t \in Sid, sessions[t] # NoSession
        PROVE  Sound(t, sessions[t])'
    <3> PICK x : x = sessions[t]
      OBVIOUS
    <3>1. Sound(t, x)
      BY <2>1 DEF Inv, AppInv, SessionsSound
    <3>2. Sound(t, x)'
      BY <1>1, <3>1, SoundStays
    <3> QED  BY <3>2
  <2> QED  BY <2>1 DEF Inv, AppInv, SessionsSound
<1>5. RequestsProper'
  <2>1. ASSUME NEW v \in Worker
        PROVE  Proper(request[v])'
    <3> PICK x : x = request[v]
      OBVIOUS
    <3>1. Proper(x)
      BY RequestIs
    <3>2. Proper(x)'
      BY <1>1, <3>1, ProperStays
    <3> QED  BY <3>2
  <2> QED  BY <2>1 DEF Inv, AppInv, RequestsProper
<1>6. ForwardLasts'
  BY DEF Inv, AppInv, ForwardLasts, Lasting
<1>7. \A t \in Sid, i \in Pair : HoldsPair(t, i)' <=> HoldsPair(t, i)
  BY DEF HoldsPair
<1>8. CarriedOnce'
  BY <1>2, <1>3, <1>7 DEF Inv, AppInv, CarriedOnce
<1>9. HeldNewest'
  BY <1>2, <1>3, <1>7 DEF Inv, AppInv, HeldNewest
<1>10. GoneForGood'
  BY DEF Inv, AppInv, GoneForGood, Renewing
<1>11. RevokedEnded' /\ RevokesEnded'
  <2>1. \A i \in Pair : Ended(i)' <=> Ended(i)
    BY <1>2, <1>3 DEF Ended
  <2>2. \A v \in Worker : Calls(request[v], "revoke") => request[v].arg \in Pair
    BY RequestIs DEF Proper, Calls
  <2> QED  BY <2>1, <2>2 DEF Inv, AppInv, Known, RevokedEnded, RevokesEnded
<1> QED
  BY <1>4, <1>5, <1>6, <1>8, <1>9, <1>10, <1>11 DEF AppInv

LEMMA ExpireKeeps ==
  ASSUME Inv, NEW sid \in Sid, Expire(sid)
  PROVE  Inv'
<1>1. /\ sessions' = [sessions EXCEPT ![sid] = NoSession]
      /\ UNCHANGED <<now, idp, logins, grants, request, history>>
  BY DEF Expire
<1>2. Known'
  BY <1>1, KnownStays DEF Inv, Known, history
<1>3. sessions' \in [Sid -> Session \cup {NoSession}] /\ sessions'[sid] = NoSession
      /\ \A t \in Sid \ {sid} : sessions'[t] = sessions[t]
  BY <1>1 DEF Inv, AppInv, SessionsSound
<1>4. Kept /\ IdpInv /\ now \in Nat
  BY <1>1 DEF Kept, Pair, Inv, Known, IdpInv, history
<1>5. \A i \in Pair : Newest(i)' <=> Newest(i)
  BY <1>1 DEF Newest, Pair
<1>6. Pair' = Pair /\ \A i \in Pair : Owner(i)' = Owner(i)
  BY <1>1 DEF Owner, Pair
<1>7. SessionsSound'
  <2>1. ASSUME NEW t \in Sid, sessions'[t] # NoSession
        PROVE  Sound(t, sessions[t])'
    <3> PICK x : x = sessions'[t]
      OBVIOUS
    <3>1. Sound(t, x)
      BY <1>3, <2>1 DEF Inv, AppInv, SessionsSound
    <3>2. Sound(t, x)'
      BY <1>4, <3>1, SoundStays
    <3> QED  BY <3>2
  <2> QED  BY <1>3, <2>1 DEF SessionsSound
<1>8. RequestsProper'
  <2>1. ASSUME NEW v \in Worker
        PROVE  Proper(request[v])'
    <3> PICK x : x = request[v]
      OBVIOUS
    <3>1. Proper(x)
      BY RequestIs
    <3>2. x.at \in {"calling", "answered"} => now <= x.deadline
      BY <3>1 DEF Proper
    <3>3. Proper(x)'
      BY <1>1, <1>4, <3>1, <3>2, ProperStays DEF history
    <3> QED  BY <1>1, <3>3
  <2> QED  BY <1>1, <2>1 DEF Inv, AppInv, RequestsProper
<1>9. ForwardLasts'
  <2>1. \A x : Lasting(x)' <=> Lasting(x)
    BY <1>1 DEF Lasting
  <2>2. Lasting(NoSession)
    BY DEF Lasting
  <2>3. ASSUME NEW v \in Worker, request'[v].at = "forward"
        PROVE  Lasting(sessions'[request'[v].sid])
    <3>1. request[v].sid \in Sid
      BY <1>1, <2>3, RequestIs DEF Idle
    <3>2. Lasting(sessions[request[v].sid])
      BY <1>1, <2>3 DEF Inv, AppInv, ForwardLasts
    <3> QED  BY <1>1, <1>3, <2>2, <3>1, <3>2
  <2> QED  BY <2>1, <2>3 DEF ForwardLasts
<1>10. ASSUME NEW t \in Sid, NEW i \in Pair
       PROVE  HoldsPair(t, i)' => HoldsPair(t, i)
  BY <1>3 DEF HoldsPair
<1>11. CarriedOnce'
  BY <1>1, <1>5, <1>6, <1>10 DEF Inv, AppInv, CarriedOnce
<1>12. HeldNewest'
  BY <1>1, <1>5, <1>6, <1>10 DEF Inv, AppInv, HeldNewest
<1>13. GoneForGood'
  <2> SUFFICES ASSUME NEW t \in loggedOut \ raced
               PROVE  sessions'[t] = NoSession /\ Renewing(t)' = {}
    BY <1>1 DEF GoneForGood, history
  <2>1. t \in Sid /\ sessions[t] = NoSession /\ Renewing(t) = {}
    BY DEF Inv, Known, AppInv, GoneForGood
  <2> QED  BY <1>1, <1>3, <2>1 DEF Renewing
<1>14. RevokedEnded' /\ RevokesEnded'
  <2>1. \A i \in Pair : Ended(i)' <=> Ended(i)
    BY <1>1, <1>5, <1>6 DEF Ended, history
  <2>2. \A v \in Worker : Calls(request[v], "revoke") => request[v].arg \in Pair
    BY RequestIs DEF Proper, Calls
  <2> QED  BY <1>1, <2>1, <2>2 DEF Inv, AppInv, Known, RevokedEnded, RevokesEnded, history
<1> QED
  BY <1>2, <1>7, <1>8, <1>9, <1>11, <1>12, <1>13, <1>14 DEF Inv, AppInv

LEMMA AppRestartsKeeps ==
  ASSUME Inv, AppRestarts
  PROVE  Inv'
<1>1. /\ sessions' = [sid \in Sid |-> NoSession] /\ request' = [w \in Worker |-> Idle]
      /\ UNCHANGED <<now, idp, logins, grants, history>>
  BY DEF AppRestarts
<1>2. Known'
  BY <1>1, KnownStays DEF Inv, Known, history
<1>3. SessionsSound'
  BY <1>1 DEF SessionsSound
<1>4. Idle \in Request /\ Idle.at = "idle"
  BY DEF Request, Idle
<1>5. RequestsProper'
  <2>1. ASSUME NEW v \in Worker
        PROVE  Proper(request[v])'
    <3> PICK x : x = request'[v]
      OBVIOUS
    <3>1. x = Idle
      BY <1>1
    <3>2. Proper(x)'
      BY <1>4, <3>1 DEF Proper, Calls
    <3> QED  BY <3>2
  <2>2. request' \in [Worker -> Request]
    BY <1>1, <1>4
  <2> QED  BY <2>1, <2>2 DEF RequestsProper
<1>6. ForwardLasts' /\ CarriedOnce' /\ HeldNewest' /\ GoneForGood' /\ RevokesEnded'
  <2>1. \A w \in Worker : request'[w].at = "idle"
    BY <1>1, <1>4
  <2>2. ForwardLasts'
    BY <2>1 DEF ForwardLasts
  <2>3. CarriedOnce'
    BY <2>1 DEF CarriedOnce, Carries, Calls
  <2>4. HeldNewest'
    BY <1>1 DEF HeldNewest, HoldsPair
  <2>5. GoneForGood'
    BY <1>1, <2>1 DEF Inv, Known, GoneForGood, Renewing, history
  <2>6. RevokesEnded'
    BY <2>1 DEF RevokesEnded, Calls
  <2> QED  BY <2>2, <2>3, <2>4, <2>5, <2>6
<1>7. RevokedEnded'
  <2>1. \A i \in Pair : Ended(i)' <=> Ended(i)
    BY <1>1 DEF Ended, Owner, Newest, Pair, history
  <2> QED  BY <1>1, <2>1 DEF Inv, AppInv, Known, RevokedEnded, history
<1> QED
  BY <1>2, <1>3, <1>5, <1>6, <1>7 DEF Inv, AppInv

LEMMA AuthorizeKeeps ==
  ASSUME Inv, NEW sid \in Sid, Authorize(sid)
  PROVE  Inv'
<1>1. /\ sid \in used /\ logins' = Append(logins, sid)
      /\ UNCHANGED <<now, tokens, refresh, grants, sessions, request, used, loggedOut, raced, revoked,
                     forgotten>>
  BY DEF Authorize, IssueCode, app, history
<1>2. IdpInv /\ logins \in Seq(Sid) /\ now \in Nat
  BY DEF Inv, Known, IdpInv
<1>3. \A c \in DOMAIN logins : c \in DOMAIN logins' /\ logins'[c] = logins[c]
  BY <1>1, <1>2
<1>4. \A c \in DOMAIN logins' : logins'[c] \in used
  BY <1>1, <1>2 DEF Inv, Known
<1>5. Kept
  BY <1>1, <1>3 DEF Kept, Pair
<1>6. IdpInv'
  BY <1>1, <1>2, IssueCodeKeeps DEF Authorize
<1>7. Known'
  BY <1>1, <1>4, <1>6 DEF Inv, Known, Newest, Pair
<1>8. \A w \in Worker : request[w].at \in {"calling", "answered"} => now <= request[w].deadline
  BY RequestIs DEF Proper
<1>9. AppInv'
  BY <1>1, <1>2, <1>5, <1>8, StoreStep
<1> QED
  BY <1>7, <1>9 DEF Inv

LEMMA TickKeeps ==
  ASSUME Inv, Tick
  PROVE  Inv'
<1>1. /\ now < MaxTime /\ now' = now + 1
      /\ UNCHANGED <<idp, logins, grants, sessions, request, used, loggedOut, raced, revoked, forgotten>>
      /\ \A w \in Worker :
           /\ request[w].at # "forward"
           /\ request[w].at \in {"calling", "answered"} => now < request[w].deadline
  BY DEF Tick, app, history
<1>2. now \in 0..MaxTime /\ now' \in 0..MaxTime /\ now \in Nat /\ now' \in Nat /\ now <= now'
  BY <1>1, ClockAssumption DEF Inv, Known
<1>3. Kept
  BY <1>1 DEF Kept, Pair
<1>4. IdpInv'
  BY NextKeeps DEF Inv, Known, Next
<1>5. Known'
  <2>1. \A i \in Pair \ DOMAIN tokens : i \in revoked \cup forgotten \/ grants[i].expires < now'
    BY <1>1, <1>2, Times DEF Inv, Known
  <2> QED  BY <1>1, <1>2, <1>4, <2>1 DEF Inv, Known, Newest, Pair, idp
<1>6. \A w \in Worker : request[w].at \in {"calling", "answered"} => now' <= request[w].deadline
  <2> SUFFICES ASSUME NEW w \in Worker, request[w].at \in {"calling", "answered"}
               PROVE  now' <= request[w].deadline
    OBVIOUS
  <2>1. request[w].deadline \in Nat
    BY RequestIs DEF Request, Idle
  <2> QED  BY <1>1, <1>2, <2>1
<1>7. AppInv'
  BY <1>1, <1>2, <1>3, <1>6, StoreStep
<1> QED
  BY <1>5, <1>7 DEF Inv

LEMMA WithoutValue ==
  ASSUME NEW f, NEW S, NEW x \in DOMAIN f \ S
  PROVE  Without(f, S)[x] = f[x]
BY DEF Without, Restrict

LEMMA WithValue ==
  ASSUME NEW f, NEW x, NEW v
  PROVE  With(f, x, v)[x] = v /\ \A y \in DOMAIN f \ {x} : With(f, x, v)[y] = f[y]
BY DEF With

LEMMA JanitorKeeps ==
  ASSUME Inv, Janitor
  PROVE  Inv'
<1> PICK old : old = {i \in DOMAIN tokens : now > tokens[i]}
  OBVIOUS
<1>1. /\ tokens' = Without(tokens, old) /\ refresh' = refresh \ old
      /\ UNCHANGED <<now, logins, grants, sessions, request, used, loggedOut, raced, revoked, forgotten>>
  BY DEF Janitor, Cleanup, app, history
<1>2. Kept /\ now \in Nat
  BY <1>1 DEF Kept, Pair, Inv, Known, IdpInv
<1>3. IdpInv'
  BY NextKeeps DEF Inv, Known, Next
<1>4. DOMAIN tokens' = DOMAIN tokens \ old /\ \A i \in DOMAIN tokens' : tokens'[i] = tokens[i]
  <2>1. DOMAIN Without(tokens, old) = DOMAIN tokens \ old
    BY WithoutDomain
  <2>2. \A i \in DOMAIN tokens \ old : Without(tokens, old)[i] = tokens[i]
    BY WithoutValue
  <2> QED  BY <1>1, <2>1, <2>2
<1>5. \A i \in old : i \in Pair /\ grants[i].expires < now
  BY DEF Inv, Known
<1>6. Pair' = Pair /\ \A i \in Pair : Newest(i)' <=> Newest(i)
  BY <1>1 DEF Newest, Pair
<1>7. Known'
  <2>1. refresh' = {i \in DOMAIN tokens' : Newest(i)}
    BY <1>1, <1>4 DEF Inv, Known
  <2>2. \A i \in Pair \ DOMAIN tokens' : i \in revoked \cup forgotten \/ grants[i].expires < now
    BY <1>4, <1>5 DEF Inv, Known
  <2>3. DOMAIN tokens' \subseteq Pair /\ \A i \in DOMAIN tokens' : tokens'[i] = grants[i].expires
    BY <1>4 DEF Inv, Known
  <2>4. refresh' = {i \in DOMAIN tokens : Newest(i)}'
    BY <1>6, <2>1, <2>3
  <2>5. revoked \subseteq Pair \ DOMAIN tokens'
    BY <1>4 DEF Inv, Known
  <2> QED  BY <1>1, <1>3, <1>6, <2>2, <2>3, <2>4, <2>5 DEF Inv, Known
<1>8. \A w \in Worker : request[w].at \in {"calling", "answered"} => now <= request[w].deadline
  BY RequestIs DEF Proper
<1>9. AppInv'
  BY <1>1, <1>2, <1>8, StoreStep
<1> QED
  BY <1>7, <1>9 DEF Inv

LEMMA ProviderRestartsKeeps ==
  ASSUME Inv, ProviderRestarts
  PROVE  Inv'
<1>1. /\ tokens' = NoCodes /\ refresh' = {} /\ forgotten' = Pair
      /\ UNCHANGED <<now, logins, grants, sessions, request, used, loggedOut, raced, revoked>>
  BY DEF ProviderRestarts, Forget, app, Pair
<1>2. Kept /\ now \in Nat
  BY <1>1 DEF Kept, Pair, Inv, Known, IdpInv
<1>3. IdpInv'
  BY NextKeeps DEF Inv, Known, Next
<1>4. DOMAIN tokens' = {}
  BY <1>1 DEF NoCodes
<1>5. Known'
  <2>1. Pair' = Pair
    BY <1>1 DEF Pair
  <2>2. refresh' = {i \in DOMAIN tokens : Newest(i)}'
    BY <1>1, <1>4
  <2> QED  BY <1>1, <1>3, <1>4, <2>1, <2>2 DEF Inv, Known
<1>6. \A w \in Worker : request[w].at \in {"calling", "answered"} => now <= request[w].deadline
  BY RequestIs DEF Proper
<1>7. forgotten \subseteq forgotten'
  BY <1>1 DEF Inv, Known
<1>8. AppInv'
  BY <1>1, <1>2, <1>6, <1>7, StoreStep
<1> QED
  BY <1>5, <1>8 DEF Inv

\* The provider answers a call.  Only the renewal of the newest pair makes it
\* the newest no more, and the new pair travels with the answer.
LEMMA AnswerKeeps ==
  ASSUME Inv, Kept, IdpInv', NEW w \in Worker, NEW good \in BOOLEAN, NEW pair \in Nat,
         request[w].at = "calling", Answer(w, good, pair),
         UNCHANGED <<now, sessions, used, loggedOut, raced, forgotten>>,
         revoked \subseteq revoked', \A i \in revoked' : i \in Pair /\ Ended(i),
         \A i \in Pair : Newest(i) => Newest(i)' \/ Renews(request[w], i),
         \A i \in Pair' \ Pair :
           i = pair /\ good /\ request[w].call \in {"exchange", "refresh"},
         good /\ request[w].call \in {"exchange", "refresh"} =>
           /\ pair \in Pair' \ Pair /\ Newest(pair)' /\ Owner(pair)' = request[w].sid
           /\ grants'[pair].expires = now + TokenTTL,
         request[w].call = "verify" /\ ~good => request[w].arg \in revoked \cup forgotten
  PROVE  AppInv'
<1> PICK q : q = request[w]
  OBVIOUS
<1> PICK r : r = request'[w]
  OBVIOUS
<1>1. Proper(q) /\ q \in Request /\ q.at = "calling" /\ q.sid \in Sid /\ q # Idle
  BY RequestIs DEF Idle
<1>2. q \in [at : {"calling"}, call : CallKind, sid : Sid, session : Session, arg : Nat,
             deadline : Nat]
  BY <1>1 DEF Request, Idle
<1>3. r = [at |-> "answered", call |-> q.call, sid |-> q.sid, session |-> q.session, arg |-> q.arg,
           deadline |-> q.deadline, good |-> good, pair |-> pair, time |-> now]
  BY DEF Answer, Inv, AppInv, RequestsProper
<1>4. /\ r.at = "answered" /\ r.call = q.call /\ r.sid = q.sid /\ r.session = q.session
      /\ r.arg = q.arg /\ r.deadline = q.deadline /\ r.good = good /\ r.pair = pair /\ r.time = now
  BY <1>3
<1>5. now \in Nat /\ IdpInv /\ revoked \subseteq revoked'
  BY Times DEF Inv, Known
<1>6. r \in Request
  <2>1. r \in [at : {"answered"}, call : CallKind, sid : Sid, session : Session, arg : Nat,
               deadline : Nat, good : BOOLEAN, pair : Nat, time : Nat]
    BY <1>2, <1>3, <1>5
  <2> QED  BY <2>1 DEF Request
<1>7. request' \in [Worker -> Request] /\ \A v \in Worker \ {w} : request'[v] = request[v]
  BY <1>6 DEF Answer, Inv, AppInv, RequestsProper
<1>8. Proper(r)'
  <2>1. q.at \in {"calling", "answered"} => now <= q.deadline
    BY <1>1 DEF Proper
  <2>2. Proper(q)'
    BY <1>1, <1>5, <2>1, ProperStays
  <2>3. q.deadline <= now + Latency /\ now <= now
    BY <1>1, <1>5 DEF Proper
  <2>4. \A c : Calls(r, c) <=> Calls(q, c)
    BY <1>1, <1>4 DEF Calls
  <2>5. r # Idle /\ r.at # "leaving" /\ r.at # "calling"
    BY <1>4 DEF Idle
  <2> QED  BY <1>1, <1>4, <1>6, <2>2, <2>3, <2>4, <2>5 DEF Proper
<1>9. SessionsSound'
  <2>1. ASSUME NEW t \in Sid, sessions[t] # NoSession
        PROVE  Sound(t, sessions[t])'
    <3> PICK x : x = sessions[t]
      OBVIOUS
    <3>1. Sound(t, x)
      BY <2>1 DEF Inv, AppInv, SessionsSound
    <3>2. Sound(t, x)'
      BY <1>5, <3>1, SoundStays
    <3> QED  BY <3>2
  <2> QED  BY <2>1 DEF Inv, AppInv, SessionsSound
<1>10. RequestsProper'
  <2>1. ASSUME NEW v \in Worker
        PROVE  Proper(request[v])'
    <3> PICK x : x = request'[v]
      OBVIOUS
    <3>1. CASE v = w
      BY <1>8, <3>1
    <3>2. CASE v # w
      <4>1. Proper(x)
        BY <1>7, <3>2, RequestIs
      <4>2. x.at \in {"calling", "answered"} => now <= x.deadline
        BY <4>1 DEF Proper
      <4>3. Proper(x)'
        BY <1>5, <4>1, <4>2, ProperStays
      <4> QED  BY <4>3
    <3> QED  BY <3>1, <3>2
  <2> QED  BY <1>7, <2>1 DEF RequestsProper
<1>11. ForwardLasts'
  <2> SUFFICES ASSUME NEW v \in Worker, request'[v].at = "forward"
               PROVE  Lasting(sessions[request[v].sid])'
    BY DEF ForwardLasts
  <2>1. v # w /\ request'[v] = request[v]
    BY <1>4, <1>7
  <2>2. request[v].sid \in Sid
    BY <2>1, RequestIs DEF Idle
  <2> PICK x : x = sessions[request[v].sid]
    OBVIOUS
  <2>3. Lasting(x)
    BY <2>1 DEF Inv, AppInv, ForwardLasts
  <2>4. ASSUME x # NoSession, x.token # 0
        PROVE  grants'[x.token] = grants[x.token]
    BY <2>2, <2>4 DEF Inv, AppInv, SessionsSound, Sound, Kept
  <2>5. Lasting(x)'
    BY <2>3, <2>4 DEF Lasting
  <2> QED  BY <2>1, <2>5
<1>12. /\ \A v \in Worker, i \in Pair : Carries(request'[v], i) => Carries(request[v], i)
       /\ \A v \in Worker, i \in Pair : Renews(request'[v], i) => Renews(request[v], i)
       /\ \A v \in Worker, i \in Pair : Renews(request[v], i) => Renews(request'[v], i)
  <2>1. \A i \in Pair : Carries(r, i) => Carries(q, i)
    BY <1>1, <1>4 DEF Carries, Calls
  <2>2. \A i \in Pair : Renews(r, i) <=> Renews(q, i)
    BY <1>1, <1>4 DEF Renews, Calls
  <2> QED  BY <1>7, <2>1, <2>2
<1>13. ASSUME NEW i \in Pair' \ Pair
       PROVE  /\ i = pair /\ Newest(i)'
              /\ \A v \in Worker : Carries(request'[v], i) => v = w
              /\ \A v \in Worker : ~Renews(request'[v], i)
              /\ \A t \in Sid : ~HoldsPair(t, i)'
  <2>1. i = pair /\ Newest(i)'
    BY <1>13
  <2>2. ASSUME NEW v \in Worker, Carries(request'[v], i), v # w
        PROVE  FALSE
    <3>1. Carries(request[v], i) /\ Proper(request[v])
      BY <1>7, <2>2, RequestIs
    <3>2. i \in Pair
      BY <3>1 DEF Proper, Carries, Calls
    <3> QED  BY <1>13, <3>2
  <2>3. ASSUME NEW v \in Worker, Renews(request'[v], i)
        PROVE  FALSE
    <3>1. Renews(request[v], i) /\ Proper(request[v])
      BY <1>1, <1>4, <1>7, <2>3, RequestIs DEF Renews, Calls
    <3>2. i \in Pair
      BY <3>1 DEF Proper, Renews, Calls
    <3> QED  BY <1>13, <3>2
  <2>4. ASSUME NEW t \in Sid, HoldsPair(t, i)'
        PROVE  FALSE
    <3>1. sessions[t] # NoSession /\ sessions[t].token = i /\ Sound(t, sessions[t])
      BY <2>4 DEF HoldsPair, Inv, AppInv, SessionsSound
    <3>2. i # 0
      BY <1>13, Times DEF IdpInv, Pair
    <3>3. i \in Pair
      BY <3>1, <3>2 DEF Sound
    <3> QED  BY <1>13, <3>3
  <2> QED  BY <2>1, <2>2, <2>3, <2>4
<1>14. \A t \in Sid, i \in Pair : HoldsPair(t, i)' <=> HoldsPair(t, i)
  BY DEF HoldsPair
<1>15. ASSUME NEW i \in Pair, Ended(i)
       PROVE  i \in Pair' /\ Ended(i)'
  <2>1. Owner(i)' = Owner(i) /\ i \in Pair'
    BY <1>5, OwnerStays
  <2>2. ASSUME Owner(i) \notin raced, Renews(q, i)
        PROVE  FALSE
    <3>1. Owner(i) = q.sid /\ Renewal(q)
      BY <1>1, <2>2 DEF Proper, Renews, Calls, Renewal
    <3>2. Renewing(q.sid) = {}
      BY <1>15, <2>2, <3>1 DEF Ended, Inv, AppInv, GoneForGood
    <3> QED  BY <1>1, <3>1, <3>2, RenewingIs
  <2> QED  BY <1>15, <2>1, <2>2 DEF Ended
<1>16. CarriedOnce'
  <2> SUFFICES ASSUME NEW v \in Worker, NEW i \in Pair', Carries(request[v], i)'
               PROVE  /\ Newest(i)'
                      /\ \A t \in Sid : ~HoldsPair(t, i)'
                      /\ \A u \in Worker : (~Renews(request[u], i) /\ (Carries(request[u], i) => u = v))'
    BY DEF CarriedOnce
  <2>1. Carries(request'[v], i)
    OBVIOUS
  <2>2. CASE i \in Pair
    <3>1. Carries(request[v], i)
      BY <1>12, <2>1, <2>2
    <3>2. /\ Newest(i)
          /\ \A t \in Sid : ~HoldsPair(t, i)
          /\ \A u \in Worker : ~Renews(request[u], i) /\ (Carries(request[u], i) => u = v)
      BY <2>2, <3>1 DEF Inv, AppInv, CarriedOnce
    <3>3. Newest(i)'
      BY <2>2, <3>2
    <3> QED  BY <1>12, <1>14, <2>2, <3>2, <3>3
  <2>3. CASE i \notin Pair
    BY <1>13, <2>1, <2>3
  <2> QED  BY <2>2, <2>3
<1>17. HeldNewest'
  <2> SUFFICES ASSUME NEW t \in Sid, NEW i \in Pair', HoldsPair(t, i)'
               PROVE  Newest(i)' \/ \E v \in Worker : Renews(request'[v], i)
    BY DEF HeldNewest
  <2>1. i \in Pair /\ HoldsPair(t, i)
    BY <1>13, <1>14
  <2>2. Newest(i) \/ \E v \in Worker : Renews(request[v], i)
    BY <2>1 DEF Inv, AppInv, HeldNewest
  <2> QED  BY <1>12, <2>1, <2>2
<1>18. GoneForGood'
  <2> SUFFICES ASSUME NEW t \in loggedOut \ raced
               PROVE  sessions[t] = NoSession /\ Renewing(t)' = {}
    BY DEF GoneForGood
  <2>1. t \in Sid /\ sessions[t] = NoSession /\ Renewing(t) = {}
    BY DEF Inv, Known, AppInv, GoneForGood
  <2>2. \A v \in Worker : Renewal(request'[v]) /\ request'[v].sid = t
                            => Renewal(request[v]) /\ request[v].sid = t
    BY <1>1, <1>4, <1>7 DEF Renewal, Calls
  <2>3. Renewing(t)' = {}
    BY <2>1, <2>2 DEF Renewing, Renewal, Calls
  <2> QED  BY <2>1, <2>3
<1>19. RevokedEnded'
  BY <1>15 DEF RevokedEnded
<1>20. RevokesEnded'
  <2> SUFFICES ASSUME NEW v \in Worker, Calls(request[v], "revoke")'
               PROVE  Ended(request[v].arg)'
    BY DEF RevokesEnded
  <2> PICK i : i = request'[v].arg
    OBVIOUS
  <2>1. Calls(request[v], "revoke") /\ i = request[v].arg
    BY <1>1, <1>4, <1>7 DEF Calls
  <2>2. i \in Pair
    BY <2>1, RequestIs DEF Proper, Calls
  <2>3. Ended(i)
    BY <2>1 DEF Inv, AppInv, RevokesEnded
  <2>4. Ended(i)'
    BY <1>15, <2>2, <2>3
  <2> QED  BY <2>4
<1> QED
  BY <1>9, <1>10, <1>11, <1>16, <1>17, <1>18, <1>19, <1>20 DEF AppInv

\* A new pair for the code c of the session that asked for it.
LEMMA NewPairKeeps ==
  ASSUME Inv, IdpInv', NEW w \in Worker, NEW c \in DOMAIN logins, NEW left,
         left = {i \in refresh : grants[i].code # c}, Issued(c, left),
         request[w].at = "calling", request[w].call \in {"exchange", "refresh"},
         logins[c] = request[w].sid, Answer(w, TRUE, NextPair),
         UNCHANGED <<now, logins, sessions, used, loggedOut, raced, forgotten, revoked>>,
         \A i \in Pair : grants[i].code = c /\ Newest(i) => Renews(request[w], i)
  PROVE  Inv'
<1> PICK n : n = NextPair
  OBVIOUS
<1> PICK g : g = [code |-> c, expires |-> now + TokenTTL]
  OBVIOUS
<1>1. /\ grants' = Append(grants, g) /\ refresh' = left \cup {n}
      /\ tokens' = With(tokens, n, now + TokenTTL)
  BY DEF Issued
<1>2. IdpInv /\ grants \in Seq(Grant) /\ n = Len(grants) + 1 /\ Len(grants) \in Nat /\ now \in Nat
  BY DEF NextPair, Inv, Known, IdpInv
<1>3. g \in Grant /\ g.code = c /\ g.expires = now + TokenTTL /\ now + TokenTTL # 0
  <2>1. c \in Nat
    BY <1>2 DEF IdpInv
  <2> QED  BY <1>2, <2>1, Times DEF Grant
<1>4. /\ Pair = 1..Len(grants) /\ Pair' = Pair \cup {n} /\ n \notin Pair /\ n \in Nat
      /\ grants'[n] = g /\ \A i \in Pair : grants'[i] = grants[i] /\ i <= n
  BY <1>1, <1>2, <1>3 DEF Pair
<1>5. Kept
  BY <1>4 DEF Kept
<1>6. Newest(n)'
  BY <1>4 DEF Newest
<1>7. \A i \in Pair : Newest(i)' <=> Newest(i) /\ grants[i].code # c
  <2>1. \A i \in Pair : i < n
    BY <1>2, <1>4
  <2>2. \A i \in Pair : ~(n <= i)
    BY <1>4, <2>1, <1>2
  <2> QED  BY <1>3, <1>4, <2>2 DEF Newest
<1>8. /\ DOMAIN tokens' = DOMAIN tokens \cup {n} /\ tokens'[n] = now + TokenTTL
      /\ \A i \in DOMAIN tokens \ {n} : tokens'[i] = tokens[i]
  <2> PICK v : v = now + TokenTTL
    OBVIOUS
  <2>1. DOMAIN With(tokens, n, v) = DOMAIN tokens \cup {n}
    BY WithDomain
  <2>2. With(tokens, n, v)[n] = v /\ \A i \in DOMAIN tokens \ {n} : With(tokens, n, v)[i] = tokens[i]
    BY WithValue
  <2> QED  BY <1>1, <2>1, <2>2
<1>9. Known'
  <2>1. refresh = {i \in DOMAIN tokens : Newest(i)} /\ DOMAIN tokens \subseteq Pair
    BY DEF Inv, Known
  <2>2. \A i : i \in refresh' <=> i \in DOMAIN tokens' /\ Newest(i)'
    BY <1>1, <1>4, <1>6, <1>7, <1>8, <2>1
  <2>3. refresh' = {i \in DOMAIN tokens : Newest(i)}'
    BY <1>8, <2>1, <2>2
  <2>4. \A i \in Pair' : grants'[i].expires # 0
    BY <1>3, <1>4 DEF Inv, Known
  <2>5. DOMAIN tokens' \subseteq Pair' /\ \A i \in DOMAIN tokens' : tokens'[i] = grants'[i].expires
    BY <1>3, <1>4, <1>8 DEF Inv, Known
  <2>6. revoked \subseteq Pair' \ DOMAIN tokens' /\ forgotten \subseteq Pair'
    BY <1>4, <1>8 DEF Inv, Known
  <2>7. \A i \in Pair' \ DOMAIN tokens' :
           i \in revoked \cup forgotten \/ grants'[i].expires < now
    BY <1>4, <1>8 DEF Inv, Known
  <2> QED  BY <1>2, <2>3, <2>4, <2>5, <2>6, <2>7 DEF Inv, Known
<1>10. AppInv'
  <2>1. \A i \in Pair : Newest(i) => Newest(i)' \/ Renews(request[w], i)
    BY <1>7
  <2>2. Owner(n)' = request[w].sid /\ grants'[n].expires = now + TokenTTL
    BY <1>3, <1>4 DEF Owner
  <2>3. \A i \in revoked : i \in Pair /\ Ended(i)
    BY DEF Inv, Known, AppInv, RevokedEnded
  <2>4. Answer(w, TRUE, n)
    OBVIOUS
  <2> QED  BY <1>4, <1>5, <1>6, <2>1, <2>2, <2>3, <2>4, AnswerKeeps
<1> QED
  BY <1>9, <1>10 DEF Inv

\* An answer that changes nothing but the access tokens that are known.
LEMMA OtherAnswerKeeps ==
  ASSUME Inv, IdpInv', NEW w \in Worker, NEW good \in BOOLEAN, NEW pair \in Nat,
         request[w].at = "calling", Answer(w, good, pair),
         UNCHANGED <<now, logins, grants, sessions, used, loggedOut, raced, forgotten>>,
         DOMAIN tokens' \subseteq DOMAIN tokens,
         \A i \in DOMAIN tokens' : tokens'[i] = tokens[i],
         \A i \in DOMAIN tokens \ DOMAIN tokens' : i \in revoked',
         refresh' = refresh \cap DOMAIN tokens',
         revoked \subseteq revoked', \A i \in revoked' : i \in Pair \ DOMAIN tokens' /\ Ended(i),
         ~(good /\ request[w].call \in {"exchange", "refresh"}),
         request[w].call = "verify" /\ ~good => request[w].arg \in revoked \cup forgotten
  PROVE  Inv'
<1>1. Kept
  BY DEF Kept, Pair
<1>2. Pair' = Pair /\ \A i \in Pair : Newest(i)' <=> Newest(i)
  BY DEF Newest, Pair
<1>3. Known'
  <2>1. refresh = {i \in DOMAIN tokens : Newest(i)} /\ DOMAIN tokens \subseteq Pair
    BY DEF Inv, Known
  <2>2. \A i : i \in refresh' <=> i \in DOMAIN tokens' /\ Newest(i)'
    BY <1>2, <2>1
  <2>3. refresh' = {i \in DOMAIN tokens : Newest(i)}'
    BY <2>1, <2>2
  <2>4. DOMAIN tokens' \subseteq Pair /\ \A i \in DOMAIN tokens' : tokens'[i] = grants[i].expires
    BY DEF Inv, Known
  <2>5. \A i \in Pair \ DOMAIN tokens' : i \in revoked' \cup forgotten \/ grants[i].expires < now
    BY DEF Inv, Known
  <2> QED  BY <1>2, <2>3, <2>4, <2>5 DEF Inv, Known
<1>4. AppInv'
  <2>1. \A i \in Pair : Newest(i) => Newest(i)' \/ Renews(request[w], i)
    BY <1>2
  <2>2. \A i \in Pair' \ Pair : i = pair /\ good /\ request[w].call \in {"exchange", "refresh"}
    BY <1>2
  <2>3. \A i \in revoked' : i \in Pair /\ Ended(i)
    OBVIOUS
  <2> QED  BY <1>1, <2>1, <2>2, <2>3, AnswerKeeps
<1> QED
  BY <1>3, <1>4 DEF Inv

LEMMA ProviderKeepsAll ==
  ASSUME Inv, NEW w \in Worker, Provider(w)
  PROVE  Inv'
<1> PICK q : q = request[w]
  OBVIOUS
<1> PICK i : i = q.arg
  OBVIOUS
<1>1. /\ q.at = "calling" /\ Proper(q) /\ q \in Request /\ q # Idle
      /\ now <= q.deadline
      /\ UNCHANGED <<now, sessions, used, loggedOut, raced, forgotten>>
      /\ revoked' = IF q.call = "revoke" THEN revoked \cup {i} ELSE revoked
  BY RequestIs DEF Provider, Proper, Idle
<1>2. IdpInv /\ IdpInv'
  BY ProviderKeeps DEF Inv, Known
<1>3. q.call # "exchange" => i \in Pair /\ i \in Nat /\ Owner(i) = q.sid
  BY <1>1, Times DEF Proper
<1>4. ASSUME NEW S
      PROVE  /\ DOMAIN Without(tokens, S) = DOMAIN tokens \ S
             /\ \A j \in DOMAIN tokens \ S : Without(tokens, S)[j] = tokens[j]
  BY WithoutDomain, WithoutValue
<1>5. refresh \subseteq DOMAIN tokens /\ DOMAIN tokens \subseteq Pair
  BY DEF Inv, Known
<1>6. \A j \in revoked : j \in Pair \ DOMAIN tokens /\ Ended(j)
  BY DEF Inv, Known, AppInv, RevokedEnded
<1>7. NextPair \in Nat
  BY <1>2 DEF IdpInv, NextPair
<1>8. CASE q.call = "exchange" /\ Exchange(i) /\ Answer(w, CodeGood(i), NextPair)
  <2>1. UNCHANGED logins /\ i \in DOMAIN logins /\ logins[i] = q.sid
    BY <1>1, <1>8 DEF Exchange, Proper, Calls
  <2>2. CASE CodeGood(i)
    <3>1. \A j \in Pair : grants[j].code # i
      BY <1>2, <2>2 DEF IdpInv, CodeGood, Pair
    <3> PICK left : left = {j \in refresh : grants[j].code # i}
      OBVIOUS
    <3>2. left = refresh
      BY <1>5, <3>1
    <3>3. Issued(i, left) /\ Answer(w, TRUE, NextPair)
      BY <1>8, <2>2, <3>2 DEF Exchange
    <3> QED  BY <1>1, <1>2, <1>8, <2>1, <3>1, <3>3, NewPairKeeps
  <2>3. CASE ~CodeGood(i)
    <3>1. UNCHANGED <<tokens, refresh, grants>> /\ Answer(w, FALSE, NextPair)
      BY <1>8, <2>3 DEF Exchange, CodeGood
    <3> QED  BY <1>1, <1>2, <1>5, <1>6, <1>7, <1>8, <2>1, <3>1, OtherAnswerKeeps
  <2> QED  BY <2>2, <2>3
<1>9. CASE q.call = "refresh" /\ Rotate(i) /\ Answer(w, RefreshGood(i), NextPair)
  <2>1. UNCHANGED <<codes, logins>>
    BY <1>9 DEF Rotate
  <2>2. CASE RefreshGood(i)
    <3> PICK c : c = grants[i].code
      OBVIOUS
    <3>1. i \in refresh /\ Newest(i) /\ c \in DOMAIN logins /\ logins[c] = q.sid
      BY <1>3, <1>9, <2>2, Times DEF RefreshGood, Inv, Known, Owner
    <3> PICK left : left = {j \in refresh : grants[j].code # c}
      OBVIOUS
    <3>2. left = refresh \ {i}
      BY <1>2, <3>1 DEF IdpInv, SingleUse
    <3>3. Issued(c, left) /\ Answer(w, TRUE, NextPair)
      BY <1>9, <2>2, <3>2 DEF Rotate
    <3>4. ASSUME NEW j \in Pair, grants[j].code = c, Newest(j)
          PROVE  Renews(q, j)
      <4>1. j <= i /\ i <= j
        BY <1>3, <1>9, <3>1, <3>4 DEF Newest
      <4>2. i = j
        BY <1>3, <1>9, <4>1, Times
      <4> QED  BY <1>1, <1>9, <4>2 DEF Renews, Calls
    <3>5. \A j \in Pair : grants[j].code = c /\ Newest(j) => Renews(request[w], j)
      BY <1>1, <3>4
    <3>6. UNCHANGED <<now, logins, sessions, used, loggedOut, raced, forgotten, revoked>>
      BY <1>1, <1>9, <2>1
    <3>7. /\ request[w].at = "calling" /\ request[w].call \in {"exchange", "refresh"}
          /\ logins[c] = request[w].sid /\ c \in DOMAIN logins
      BY <1>1, <1>9, <3>1
    <3> QED  BY <1>2, <3>3, <3>5, <3>6, <3>7, NewPairKeeps
  <2>3. CASE ~RefreshGood(i)
    <3>1. refresh' = refresh /\ UNCHANGED <<tokens, grants>> /\ Answer(w, FALSE, NextPair)
      BY <1>5, <1>9, <2>3 DEF Rotate, RefreshGood
    <3> QED  BY <1>1, <1>2, <1>5, <1>6, <1>7, <1>9, <2>1, <3>1, OtherAnswerKeeps
  <2> QED  BY <2>2, <2>3
<1>10. CASE q.call \in {"introspect", "verify"} /\ Introspect(i) /\ Answer(w, Active(i), i)
  <2>1. i \in Pair /\ now <= grants[i].expires
    <3>1. q.deadline \in Nat
      BY <1>1 DEF Request, Idle
    <3> QED  BY <1>1, <1>3, <1>10, <3>1, Times DEF Proper, Calls
  <2>2. Active(i) <=> i \in DOMAIN tokens
    BY <2>1 DEF Active, Inv, Known
  <2>3. DOMAIN tokens' = DOMAIN tokens /\ \A j \in DOMAIN tokens : tokens'[j] = tokens[j]
    BY <1>4, <1>10, <2>2 DEF Introspect
  <2>4. UNCHANGED <<refresh, logins, grants>>
    BY <1>10 DEF Introspect
  <2>5. ~Active(i) => i \in revoked \cup forgotten
    BY <2>1, <2>2, Times DEF Inv, Known
  <2>6. Active(i) \in BOOLEAN /\ revoked' = revoked
    BY <1>1, <1>10 DEF Active
  <2> PICK good \in BOOLEAN : good = Active(i)
    BY <2>6
  <2>7. Answer(w, good, i) /\ (~good => i \in revoked \cup forgotten)
    BY <1>10, <2>5 DEF Active
  <2>8. refresh' = refresh \cap DOMAIN tokens'
    BY <1>5, <2>3, <2>4
  <2>9. ~(good /\ q.call \in {"exchange", "refresh"})
    BY <1>10
  <2>10. \A j \in revoked' : j \in Pair \ DOMAIN tokens' /\ Ended(j)
    BY <1>6, <2>3, <2>6
  <2>11. /\ DOMAIN tokens' \subseteq DOMAIN tokens
         /\ \A j \in DOMAIN tokens' : tokens'[j] = tokens[j]
         /\ \A j \in DOMAIN tokens \ DOMAIN tokens' : j \in revoked'
    BY <2>3
  <2>12. i \in Nat /\ revoked \subseteq revoked' /\ (q.call = "verify" /\ ~good => i \in revoked \cup forgotten)
    BY <1>3, <1>10, <2>6, <2>7
  <2> QED  BY <1>1, <1>2, <2>4, <2>7, <2>8, <2>9, <2>10, <2>11, <2>12, OtherAnswerKeeps
<1>11. CASE q.call = "revoke" /\ Revoke(i) /\ Answer(w, TRUE, i)
  <2>1. DOMAIN tokens' = DOMAIN tokens \ {i} /\ \A j \in DOMAIN tokens' : tokens'[j] = tokens[j]
    <3>1. tokens' = Without(tokens, {i})
      BY <1>11 DEF Revoke
    <3>2. /\ DOMAIN Without(tokens, {i}) = DOMAIN tokens \ {i}
          /\ \A j \in DOMAIN tokens \ {i} : Without(tokens, {i})[j] = tokens[j]
      BY <1>4
    <3> QED  BY <3>1, <3>2
  <2>2. UNCHANGED <<logins, grants>> /\ refresh' = refresh \ {i} /\ revoked' = revoked \cup {i}
    BY <1>1, <1>5, <1>11 DEF Revoke
  <2>3. Ended(i)
    BY <1>1, <1>11 DEF Inv, AppInv, RevokesEnded, Calls
  <2>4. refresh' = refresh \cap DOMAIN tokens'
    BY <1>5, <2>1, <2>2
  <2>5. \A j \in revoked' : j \in Pair \ DOMAIN tokens' /\ Ended(j)
    BY <1>3, <1>6, <1>11, <2>1, <2>2, <2>3
  <2> QED  BY <1>1, <1>2, <1>3, <1>11, <2>1, <2>2, <2>4, <2>5, OtherAnswerKeeps
<1> QED
  BY <1>8, <1>9, <1>10, <1>11 DEF Provider

LEMMA InvInit == Init => Inv
<1> SUFFICES ASSUME Init
             PROVE  Inv
  OBVIOUS
<1>1. /\ now = 0 /\ codes = NoCodes /\ tokens = NoCodes /\ refresh = {} /\ logins = <<>> /\ grants = <<>>
      /\ sessions = [sid \in Sid |-> NoSession] /\ request = [w \in Worker |-> Idle]
      /\ used = {} /\ loggedOut = {} /\ raced = {} /\ revoked = {} /\ forgotten = {}
  BY DEF Init, IdpInit
<1>2. Pair = {} /\ DOMAIN tokens = {} /\ DOMAIN logins = {}
  BY <1>1 DEF Pair, NoCodes
<1>3. Known
  <2>1. IdpInv
    BY <1>1 DEF IdpInv, SingleUse, NoCodes
  <2> QED  BY <1>1, <1>2, <2>1, ClockAssumption DEF Known
<1>4. SessionsSound
  BY <1>1 DEF SessionsSound
<1>5. RequestsProper
  BY <1>1, IdleIsProper DEF RequestsProper, Proper
<1>6. \A w \in Worker : request[w].at = "idle"
  BY <1>1 DEF Idle
<1>7. ForwardLasts /\ RevokesEnded
  BY <1>6 DEF ForwardLasts, RevokesEnded, Calls
<1>8. CarriedOnce /\ HeldNewest /\ GoneForGood /\ RevokedEnded
  BY <1>1, <1>2 DEF CarriedOnce, HeldNewest, GoneForGood, RevokedEnded
<1> QED
  BY <1>3, <1>4, <1>5, <1>7, <1>8 DEF Inv, AppInv

LEMMA InvNext ==
  ASSUME Inv, [Next]_vars
  PROVE  Inv'
<1>1. ASSUME NEW sid \in Sid, Login(sid) \/ Authorize(sid) \/ Expire(sid)
      PROVE  Inv'
  BY <1>1, LoginKeeps, AuthorizeKeeps, ExpireKeeps
<1>2. ASSUME NEW w \in Worker, NEW c \in DOMAIN logins, Callback(w, c)
      PROVE  Inv'
  <2>1. Known'
    BY <1>2, KnownStays DEF Callback, history, Inv, Known
  <2> QED  BY <1>2, <2>1, CallbackKeeps DEF Inv
<1>3. ASSUME NEW w \in Worker, NEW sid \in Sid, Api(w, sid) \/ Logout(w, sid)
      PROVE  Inv'
  <2>1. Known'
    BY <1>3, KnownStays DEF Api, Logout, history, Inv, Known
  <2> QED  BY <1>3, <2>1, ApiKeeps, LogoutKeeps DEF Inv
<1>4. ASSUME NEW w \in Worker,
             Forward(w) \/ Exchanged(w) \/ Introspected(w) \/ Refreshed(w) \/ Finished(w)
      PROVE  Inv'
  <2>1. Known'
    BY <1>4, KnownStays DEF Forward, Exchanged, Introspected, Refreshed, Finished, history, Inv, Known
  <2> QED  BY <1>4, <2>1, ForwardKeeps, ExchangedKeeps, IntrospectedKeeps, RefreshedKeeps, FinishedKeeps
           DEF Inv
<1>5. ASSUME NEW w \in Worker, Refused(w) \/ Lost(w)
      PROVE  Inv'
  <2>1. /\ request[w].at \in {"calling", "answered"} /\ GiveUp(w)
        /\ UNCHANGED <<now, idp, logins, grants, history>>
    BY <1>5 DEF Refused, Lost
  <2>2. Known'
    BY <2>1, KnownStays DEF history, Inv, Known
  <2> QED  BY <2>1, <2>2, GiveUpKeeps DEF Inv
<1>6. ASSUME NEW w \in Worker, ClearCookie(w)
      PROVE  Inv'
  <2>1. request[w].sid \in used /\ request[w].sid \in Sid
    BY <1>6, RequestIs DEF ClearCookie, Proper, Idle
  <2>2. /\ UNCHANGED <<now, idp, logins, grants, used, revoked, forgotten>>
        /\ loggedOut' = loggedOut \cup {request[w].sid}
        /\ raced' \subseteq raced \cup {request[w].sid}
    BY <1>6 DEF ClearCookie
  <2>3. Known'
    BY <2>1, <2>2, KnownStays DEF Inv, Known
  <2> QED  BY <1>6, <2>3, ClearCookieKeeps DEF Inv
<1>7. ASSUME NEW w \in Worker, Provider(w)
      PROVE  Inv'
  BY <1>7, ProviderKeepsAll
<1>8. CASE Tick
  BY <1>8, TickKeeps
<1>9. CASE Janitor
  BY <1>9, JanitorKeeps
<1>10. CASE ProviderRestarts
  BY <1>10, ProviderRestartsKeeps
<1>11. CASE AppRestarts
  BY <1>11, AppRestartsKeeps
<1>12. CASE UNCHANGED vars
  <2>1. UNCHANGED <<now, idp, logins, grants, sessions, request, used, loggedOut, raced, revoked, forgotten>>
    BY <1>12 DEF vars, app, history
  <2>2. Known'
    BY <2>1, KnownStays DEF Inv, Known
  <2>3. Kept /\ now \in Nat /\ \A w \in Worker : request[w].at \in {"calling", "answered"} => now <= request[w].deadline
    BY <2>1, RequestIs, Times DEF Kept, Pair, Proper
  <2>4. AppInv'
    BY <2>1, <2>3, StoreStep
  <2> QED  BY <2>2, <2>4 DEF Inv
<1> QED
  BY <1>1, <1>2, <1>3, <1>4, <1>5, <1>6, <1>7, <1>8, <1>9, <1>10, <1>11, <1>12 DEF Next

LEMMA InvAlways == Spec => []Inv
BY InvInit, InvNext, PTL DEF Spec

-----------------------------------------------------------------------------
(* What a logout takes out of the app does not come back into it.          *)

\* Where a pair is: in a session, on its way into one, in the hands of a logout,
\* or revoked or about to be.
Held(i) == \E sid \in Sid : HoldsPair(sid, i)
Carried(i) == \E w \in Worker : Carries(request[w], i)
Left(r, i) == r.at = "leaving" /\ r.session.token = i
Leaving(i) == \E w \in Worker : Left(request[w], i)
Revoking(r, i) == Calls(r, "revoke") /\ r.arg = i
Out(i) == i \in revoked \/ \E w \in Worker : Revoking(request[w], i)

NeverBack ==
  \A i \in Nat \ {0} :
    /\ Held(i) => ~Out(i)
    /\ Carried(i) => ~Out(i) /\ ~Leaving(i)

\* All of them are pairs, and none is held and carried.
LEMMA PlacesOfPairs ==
  ASSUME Inv, NEW i \in Nat \ {0}
  PROVE  /\ Held(i) \/ Carried(i) \/ Leaving(i) \/ Out(i) => i \in Pair
         /\ ~(Held(i) /\ Carried(i))
<1>1. Held(i) => i \in Pair
  BY DEF Held, HoldsPair, Inv, AppInv, SessionsSound, Sound
<1>2. ASSUME NEW w \in Worker, Carries(request[w], i)
      PROVE  i \in Pair
  BY <1>2, RequestIs DEF Carries, Proper, Calls
<1>3. ASSUME NEW w \in Worker, Left(request[w], i)
      PROVE  i \in Pair
  BY <1>3, RequestIs DEF Left, Proper, Sound
<1>4. ASSUME NEW w \in Worker, Revoking(request[w], i)
      PROVE  i \in Pair
  BY <1>4, RequestIs DEF Revoking, Proper, Calls
<1>5. revoked \subseteq Pair
  BY DEF Inv, Known
<1>6. ASSUME NEW w \in Worker, Carries(request[w], i)
      PROVE  ~Held(i)
  BY <1>2, <1>6 DEF Inv, AppInv, CarriedOnce, Held
<1> QED
  BY <1>1, <1>2, <1>3, <1>4, <1>5, <1>6 DEF Carried, Leaving, Out

\* A step of one request: a new pair is one nobody had, a pair is saved by who
\* carried it, a logout copies what is held, and revokes it when it is not.
LEMMA NeverBackStep ==
  ASSUME Inv, NeverBack, NEW w \in Worker, NEW r,
         request' = [request EXCEPT ![w] = r],
         \A i \in Nat \ {0} : Carries(r, i) => Carries(request[w], i) \/ i \notin Pair,
         \A i \in Nat \ {0} : Left(r, i) => Held(i) \/ Left(request[w], i),
         \A i \in Nat \ {0} : Revoking(r, i) =>
            Revoking(request[w], i) \/ (Left(request[w], i) /\ ~Held(i)'),
         \A i \in revoked' : i \in revoked \/ Revoking(request[w], i),
         \A i \in Nat \ {0} : Held(i)' => Held(i) \/ Carries(request[w], i)
  PROVE  NeverBack'
<1>1. request'[w] = r /\ \A v \in Worker \ {w} : request'[v] = request[v]
  BY DEF Inv, AppInv, RequestsProper
<1> SUFFICES ASSUME NEW i \in Nat \ {0}
             PROVE  /\ Held(i)' => ~Out(i)'
                    /\ Carried(i)' => ~Out(i)' /\ ~Leaving(i)'
  BY DEF NeverBack
<1>2. Held(i)' => Held(i) \/ Carried(i)
  BY DEF Carried
<1>3. Carried(i)' => Carried(i) \/ i \notin Pair
  <2> SUFFICES ASSUME NEW v \in Worker, Carries(request'[v], i)
               PROVE  Carried(i) \/ i \notin Pair
    BY DEF Carried, Carries, Calls
  <2>1. CASE v = w
    BY <1>1, <2>1 DEF Carried
  <2>2. CASE v # w
    BY <1>1, <2>2 DEF Carried
  <2> QED  BY <2>1, <2>2
<1>4. Leaving(i)' => Leaving(i) \/ Held(i)
  <2> SUFFICES ASSUME NEW v \in Worker, Left(request'[v], i)
               PROVE  Leaving(i) \/ Held(i)
    BY DEF Leaving, Left
  <2>1. CASE v = w
    BY <1>1, <2>1 DEF Leaving
  <2>2. CASE v # w
    BY <1>1, <2>2 DEF Leaving
  <2> QED  BY <2>1, <2>2
<1>5. Out(i)' => Out(i) \/ (Leaving(i) /\ ~Held(i)')
  <2>1. CASE i \in revoked'
    BY <2>1 DEF Out
  <2>2. ASSUME NEW v \in Worker, Revoking(request'[v], i)
        PROVE  Out(i) \/ (Leaving(i) /\ ~Held(i)')
    <3>1. CASE v = w
      BY <1>1, <2>2, <3>1 DEF Out, Leaving
    <3>2. CASE v # w
      BY <1>1, <2>2, <3>2 DEF Out
    <3> QED  BY <3>1, <3>2
  <2> QED  BY <2>1, <2>2 DEF Out, Revoking, Calls
<1> QED
  BY <1>2, <1>3, <1>4, <1>5, PlacesOfPairs DEF NeverBack

\* A session may go, and requests may end.
LEMMA NeverBackLess ==
  ASSUME NeverBack, UNCHANGED revoked,
         \A w \in Worker : request'[w] = request[w] \/ request'[w] = Idle,
         \A sid \in Sid : sessions'[sid] = sessions[sid] \/ sessions'[sid] = NoSession
                              \/ sessions'[sid].token = 0
  PROVE  NeverBack'
<1>1. \A i \in Nat \ {0} : Held(i)' => Held(i)
  BY DEF Held, HoldsPair
<1>2. \A w \in Worker, i \in Nat \ {0} :
        /\ Carries(request'[w], i) => Carries(request[w], i)
        /\ Left(request'[w], i) => Left(request[w], i)
        /\ Revoking(request'[w], i) => Revoking(request[w], i)
  BY DEF Carries, Left, Revoking, Calls, Idle
<1>3. \A i \in Nat \ {0} : Carried(i)' => Carried(i)
  BY <1>2 DEF Carried, Carries, Calls
<1>4. \A i \in Nat \ {0} : Leaving(i)' => Leaving(i)
  BY <1>2 DEF Leaving, Left
<1>5. \A i \in Nat \ {0} : Out(i)' => Out(i)
  BY <1>2 DEF Out, Revoking, Calls
<1> QED
  BY <1>1, <1>3, <1>4, <1>5 DEF NeverBack

\* A step of a request that saves nothing and ends no call of a logout.
LEMMA NeverBackAside ==
  ASSUME Inv, NeverBack, NEW w \in Worker, NEW r,
         request' = [request EXCEPT ![w] = r], UNCHANGED revoked,
         \A sid \in Sid : sessions'[sid] = sessions[sid] \/ sessions'[sid] = NoSession,
         r.at # "leaving" \/ Held(r.session.token), ~Calls(r, "revoke"),
         \A i \in Nat \ {0} : Carries(r, i) => Carries(request[w], i)
  PROVE  NeverBack'
<1>1. \A i \in Nat \ {0} : Held(i)' => Held(i)
  BY DEF Held, HoldsPair
<1>2. \A i \in Nat \ {0} : (Left(r, i) => Held(i)) /\ ~Revoking(r, i)
  BY DEF Left, Revoking
<1> QED
  BY <1>1, <1>2, NeverBackStep

LEMMA NeverBackClearCookie ==
  ASSUME Inv, NeverBack, NEW w \in Worker, ClearCookie(w)
  PROVE  NeverBack'
<1> PICK sid : sid = request[w].sid
  OBVIOUS
<1> PICK s : s = request[w].session
  OBVIOUS
<1> PICK token : token = s.token
  OBVIOUS
<1> PICK q : q = Call("revoke", sid, s, token)
  OBVIOUS
<1> PICK r : r = IF token # 0 THEN q ELSE Idle
  OBVIOUS
<1>1. /\ request[w].at = "leaving" /\ UNCHANGED <<logins, grants, revoked>>
      /\ request' = [request EXCEPT ![w] = r]
      /\ sessions' = [sessions EXCEPT ![sid] = NoSession]
  BY DEF ClearCookie, Set
<1>2. Sound(sid, s) /\ sid \in Sid
  BY <1>1, RequestIs DEF Proper, Idle
<1>3. /\ sessions'[sid] = NoSession
      /\ \A t \in Sid : t # sid => sessions'[t] = sessions[t]
  BY <1>1, <1>2 DEF Inv, AppInv, SessionsSound
<1>4. \A i \in Nat \ {0} : Held(i)' => Held(i)
  BY <1>3 DEF Held, HoldsPair
<1>5. token # 0 => ~Held(token)'
  <2> SUFFICES ASSUME token # 0, NEW t \in Sid, HoldsPair(t, token)'
               PROVE  FALSE
    BY DEF Held, HoldsPair
  <2>1. t # sid /\ HoldsPair(t, token)
    BY <1>3 DEF HoldsPair
  <2>2. Sound(t, sessions[t]) /\ sessions[t].token = token
    BY <2>1 DEF HoldsPair, Inv, AppInv, SessionsSound
  <2> QED  BY <1>2, <2>1, <2>2 DEF Sound
<1>6. q.at = "calling" /\ q.call = "revoke" /\ q.arg = token /\ Idle.at = "idle"
  BY DEF Call, Idle
<1>7. \A i \in Nat \ {0} :
         ~Carries(r, i) /\ ~Left(r, i) /\ (Revoking(r, i) => Left(request[w], i) /\ i = token)
  BY <1>1, <1>6 DEF Carries, Left, Revoking, Calls
<1>8. \A i \in Nat \ {0} : Revoking(r, i) => Left(request[w], i) /\ ~Held(i)'
  BY <1>5, <1>7
<1> QED
  BY <1>1, <1>4, <1>7, <1>8, NeverBackStep

LEMMA NeverBackProvider ==
  ASSUME Inv, NeverBack, NEW w \in Worker, Provider(w)
  PROVE  NeverBack'
<1>1. PICK good, pair : Answer(w, good, pair) /\
         (request[w].call \in {"exchange", "refresh"} => pair = NextPair)
  BY DEF Provider
<1> DEFINE q == request[w]
           r == [at |-> "answered", call |-> q.call, sid |-> q.sid, session |-> q.session,
                 arg |-> q.arg, deadline |-> q.deadline, good |-> good, pair |-> pair, time |-> now]
<1>2. request' = [request EXCEPT ![w] = r]
  BY <1>1 DEF Answer
<1>3. /\ q.at = "calling" /\ UNCHANGED sessions
      /\ revoked' = IF q.call = "revoke" THEN revoked \cup {q.arg} ELSE revoked
  BY DEF Provider
<1>4. r.at = "answered" /\ r.call = q.call /\ r.arg = q.arg /\ r.pair = pair
  OBVIOUS
<1>5. NextPair \notin Pair
  <2>1. grants \in Seq(Grant)
    BY DEF Inv, Known, IdpInv
  <2> QED  BY <2>1 DEF NextPair, Pair
<1> HIDE DEF r
<1>6. \A i \in Nat \ {0} : Carries(r, i) => Carries(q, i) \/ i \notin Pair
  BY <1>1, <1>3, <1>4, <1>5 DEF Carries, Calls
<1>7. \A i \in Nat \ {0} : ~Left(r, i) /\ (Revoking(r, i) => Revoking(q, i))
  BY <1>3, <1>4 DEF Left, Revoking, Calls
<1>8. \A i \in revoked' : i \in revoked \/ Revoking(q, i)
  BY <1>3 DEF Revoking, Calls
<1>9. \A i \in Nat \ {0} : Held(i)' => Held(i)
  BY <1>3 DEF Held, HoldsPair
<1> QED
  BY <1>2, <1>6, <1>7, <1>8, <1>9, NeverBackStep

\* The session is saved with the pair the request carried.
LEMMA HeldSaved ==
  ASSUME Inv, NEW w \in Worker, NEW s,
         sessions' = [sessions EXCEPT ![request[w].sid] = s], Carries(request[w], s.token)
  PROVE  \A i \in Nat \ {0} : Held(i)' => Held(i) \/ Carries(request[w], i)
<1> SUFFICES ASSUME NEW i \in Nat \ {0}, NEW t \in Sid, HoldsPair(t, i)'
             PROVE  Held(i) \/ Carries(request[w], i)
  BY DEF Held, HoldsPair
<1>1. sessions'[t] = sessions[t] \/ sessions'[t] = s
  BY DEF Inv, AppInv, SessionsSound
<1> QED  BY <1>1 DEF Held, HoldsPair

LEMMA NeverBackNext ==
  ASSUME Inv, NeverBack, [Next]_vars
  PROVE  NeverBack'
<1>1. ASSUME NEW sid \in Sid, Login(sid) \/ Authorize(sid) \/ Expire(sid)
      PROVE  NeverBack'
  <2>1. UNCHANGED <<request, revoked>>
    BY <1>1 DEF Login, Authorize, Expire, app, history
  <2>2. sessions' = sessions \/ sessions' = [sessions EXCEPT ![sid] = Fresh]
          \/ sessions' = [sessions EXCEPT ![sid] = NoSession]
    BY <1>1 DEF Login, Authorize, Expire, app
  <2>3. \A t \in Sid : sessions'[t] = sessions[t] \/ sessions'[t] = NoSession
                         \/ sessions'[t].token = 0
    BY <2>2 DEF Fresh, Inv, AppInv, SessionsSound
  <2> QED  BY <2>1, <2>3, NeverBackLess
<1>2. ASSUME NEW w \in Worker, NEW c \in DOMAIN logins, Callback(w, c)
      PROVE  NeverBack'
  <2> DEFINE r == Call("exchange", logins[c], Found(logins[c]), c)
  <2>1. request' = [request EXCEPT ![w] = r] /\ UNCHANGED <<sessions, revoked>>
    BY <1>2 DEF Callback, Set, history
  <2>2. r.at = "calling" /\ r.call = "exchange"
    BY DEF Call
  <2> HIDE DEF r
  <2> QED  BY <2>1, <2>2, NeverBackAside DEF Carries, Calls
<1>3. ASSUME NEW w \in Worker, NEW sid \in Sid, Api(w, sid)
      PROVE  NeverBack'
  <2>1. PICK r : /\ request' = [request EXCEPT ![w] = r]
                 /\ r = [at |-> "forward", sid |-> sid] \/ r = Call("refresh", sid, Found(sid), Found(sid).pair)
    BY <1>3 DEF Api, Set
  <2>2. r.at = "forward" \/ (r.at = "calling" /\ r.call = "refresh")
    BY <2>1 DEF Call
  <2>3. UNCHANGED <<sessions, revoked>>
    BY <1>3 DEF Api, history
  <2> QED  BY <2>1, <2>2, <2>3, NeverBackAside DEF Carries, Calls
<1>4. ASSUME NEW w \in Worker, NEW sid \in Sid, Logout(w, sid)
      PROVE  NeverBack'
  <2> DEFINE r == [at |-> "leaving", sid |-> sid, session |-> Found(sid)]
  <2>1. request' = [request EXCEPT ![w] = r] /\ UNCHANGED <<sessions, revoked>> /\ Found(sid) # NoSession
    BY <1>4 DEF Logout, Set, history
  <2>2. r.at = "leaving" /\ r.session = Found(sid) /\ Found(sid) = sessions[sid]
    BY <2>1 DEF Found
  <2>3. Held(r.session.token)
    BY <2>1, <2>2 DEF Held, HoldsPair
  <2> HIDE DEF r
  <2> QED  BY <2>1, <2>2, <2>3, NeverBackAside DEF Carries, Calls
<1>5. ASSUME NEW w \in Worker, Forward(w)
      PROVE  NeverBack'
  <2> DEFINE sid == request[w].sid
  <2>1. PICK r : /\ request' = [request EXCEPT ![w] = r]
                 /\ r = Idle \/ r = Call("verify", sid, Found(sid), Found(sid).token)
    BY <1>5 DEF Forward, Set
  <2>2. r.at = "idle" \/ (r.at = "calling" /\ r.call = "verify")
    BY <2>1 DEF Call, Idle
  <2>3. UNCHANGED revoked /\ sessions' = [sessions EXCEPT ![sid] = Found(sid)]
    BY <1>5 DEF Forward, history
  <2>4. \A t \in Sid : sessions'[t] = sessions[t] \/ sessions'[t] = NoSession
    BY <2>3 DEF Found, Inv, AppInv, SessionsSound
  <2> QED  BY <2>1, <2>2, <2>3, <2>4, NeverBackAside DEF Carries, Calls
<1>6. ASSUME NEW w \in Worker, Exchanged(w)
      PROVE  NeverBack'
  <2> DEFINE q == request[w]
             r == Call("introspect", q.sid, Renewed(q), q.pair)
  <2>1. /\ q.at = "answered" /\ q.call = "exchange" /\ q.good
        /\ request' = [request EXCEPT ![w] = r] /\ UNCHANGED <<sessions, revoked>>
    BY <1>6 DEF Exchanged, Set, history
  <2>2. r.at = "calling" /\ r.call = "introspect" /\ r.arg = q.pair
    BY DEF Call
  <2> HIDE DEF r
  <2> QED  BY <2>1, <2>2, NeverBackAside DEF Carries, Calls
<1>7. ASSUME NEW w \in Worker, Introspected(w)
      PROVE  NeverBack'
  <2> DEFINE q == request[w]
             s == [q.session EXCEPT !.expires = grants[q.arg].expires]
  <2>1. /\ Calls(q, "introspect") /\ sessions' = [sessions EXCEPT ![q.sid] = s]
        /\ request' = [request EXCEPT ![w] = Idle] /\ UNCHANGED revoked
    BY <1>7 DEF Introspected, Save, Set, Calls, history
  <2>2. q.session \in Session /\ q.session.token = q.arg
    BY <2>1, RequestIs DEF Proper, Sound
  <2>3. s.token = q.arg /\ Idle.at = "idle"
    BY <2>2 DEF Session, Idle
  <2>4. Carries(q, s.token)
    BY <2>1, <2>3 DEF Carries
  <2> HIDE DEF s
  <2>5. \A i \in Nat \ {0} : Held(i)' => Held(i) \/ Carries(request[w], i)
    BY <2>1, <2>4, HeldSaved
  <2>6. \A i \in Nat \ {0} : ~Carries(Idle, i) /\ ~Left(Idle, i) /\ ~Revoking(Idle, i)
    BY <2>3 DEF Carries, Left, Revoking, Calls
  <2> QED  BY <2>1, <2>5, <2>6, NeverBackStep
<1>8. ASSUME NEW w \in Worker, Refreshed(w)
      PROVE  NeverBack'
  <2> DEFINE q == request[w]
             s == Renewed(q)
             r == [at |-> "forward", sid |-> q.sid]
  <2>1. /\ q.at = "answered" /\ q.call = "refresh" /\ q.good
        /\ sessions' = [sessions EXCEPT ![q.sid] = s]
        /\ request' = [request EXCEPT ![w] = r] /\ UNCHANGED revoked
    BY <1>8 DEF Refreshed, Save, Set, history
  <2>2. q.session \in Session
    BY <2>1, RequestIs DEF Proper, Sound, Calls
  <2>3. s.token = q.pair /\ r.at = "forward"
    BY <2>2 DEF Session, Renewed
  <2>4. Carries(q, s.token)
    BY <2>1, <2>3 DEF Carries
  <2> HIDE DEF s, r
  <2>5. \A i \in Nat \ {0} : Held(i)' => Held(i) \/ Carries(request[w], i)
    BY <2>1, <2>4, HeldSaved
  <2>6. \A i \in Nat \ {0} : ~Carries(r, i) /\ ~Left(r, i) /\ ~Revoking(r, i)
    BY <2>3 DEF Carries, Left, Revoking, Calls
  <2> QED  BY <2>1, <2>5, <2>6, NeverBackStep
<1>9. ASSUME NEW w \in Worker, Refused(w) \/ Lost(w) \/ Finished(w)
      PROVE  NeverBack'
  <2>1. UNCHANGED revoked /\ request' = [request EXCEPT ![w] = Idle]
    BY <1>9 DEF Refused, Lost, Finished, GiveUp, Set, history
  <2>2. sessions' = sessions \/ sessions' = [sessions EXCEPT ![request[w].sid] = NoSession]
    BY <1>9 DEF Refused, Lost, Finished, GiveUp, Save
  <2>3. \A t \in Sid : sessions'[t] = sessions[t] \/ sessions'[t] = NoSession
    BY <2>2 DEF Inv, AppInv, SessionsSound
  <2>4. \A v \in Worker : request'[v] = request[v] \/ request'[v] = Idle
    BY <2>1 DEF Inv, AppInv, RequestsProper
  <2> QED  BY <2>1, <2>3, <2>4, NeverBackLess
<1>10. CASE AppRestarts
  <2>1. UNCHANGED revoked /\ (\A w \in Worker : request'[w] = Idle)
          /\ \A sid \in Sid : sessions'[sid] = NoSession
    BY <1>10 DEF AppRestarts, history
  <2> QED  BY <2>1, NeverBackLess
<1>11. CASE Tick \/ Janitor \/ ProviderRestarts \/ UNCHANGED vars
  <2>1. UNCHANGED <<request, sessions, revoked>>
    BY <1>11 DEF Tick, Janitor, ProviderRestarts, vars, app, history
  <2> QED  BY <2>1, NeverBackLess
<1> QED
  BY <1>1, <1>2, <1>3, <1>4, <1>5, <1>6, <1>7, <1>8, <1>9, <1>10, <1>11,
     NeverBackClearCookie, NeverBackProvider DEF Next

LEMMA NeverBackAlways == Spec => [](Inv /\ NeverBack)
<1>1. Init => NeverBack
  <2> SUFFICES ASSUME Init
               PROVE  NeverBack
    OBVIOUS
  <2>1. (\A sid \in Sid : sessions[sid] = NoSession) /\ \A w \in Worker : request[w] = Idle
    BY DEF Init
  <2>2. \A i \in Nat \ {0} : ~Held(i)
    BY <2>1 DEF Held, HoldsPair
  <2>3. \A i \in Nat \ {0} : ~Carried(i)
    BY <2>1 DEF Carried, Carries, Calls, Idle
  <2> QED  BY <2>2, <2>3 DEF NeverBack
<1> QED
  BY <1>1, InvInit, InvNext, NeverBackNext, PTL DEF Spec

\* The state of provider and app keeps its type: the provider's access tokens
\* last as long as they were issued for, and a session has a token exactly if its
\* sign-in is over.
THEOREM TypeCorrect == Spec => []TypeOK
<1>1. Inv => TypeOK
  <2> SUFFICES ASSUME Inv
               PROVE  TypeOK
    OBVIOUS
  <2>1. ASSUME NEW sid \in Sid, sessions[sid] # NoSession
        PROVE  /\ sid \in used /\ sessions[sid].token \in Pair \cup {0}
               /\ sessions[sid].pending <=> sessions[sid].token = 0
    BY <2>1 DEF Inv, AppInv, SessionsSound, Sound
  <2>2. ASSUME NEW w \in Worker
        PROVE  request[w].at \in {"idle", "forward", "leaving", "calling", "answered"}
    BY RequestIs DEF Request, Idle
  <2>3. /\ now \in 0..MaxTime /\ DOMAIN codes \subseteq DOMAIN logins
        /\ DOMAIN tokens \subseteq Pair /\ refresh \subseteq Pair
        /\ \A i \in DOMAIN tokens : tokens[i] = grants[i].expires
    BY DEF Inv, Known, IdpInv
  <2> QED  BY <2>1, <2>2, <2>3 DEF TypeOK
<1> QED
  BY <1>1, InvAlways, PTL

\* web.go:262-264: a proxied request never carries an expired token.  The service
\* asks the provider about it within two calls of the moment ensureFreshToken has
\* looked at it, and the skew is three.
THEOREM ForwardsOnlyFresh == Spec => []NeverForwardsExpired
<1>1. Inv => NeverForwardsExpired
  BY RequestIs DEF NeverForwardsExpired, Proper
<1> QED
  BY <1>1, InvAlways, PTL

\* The app and the provider agree: while the access token of a session lasts and
\* no call renews it, the provider knows it and will renew it, whatever calls and
\* logouts overlapped, failed or were lost before; except tokens from before a
\* restart of the provider (web.go ensureFreshToken, token/store.go).
THEOREM SessionsStayRenewable == Spec => []SessionRenewable
<1>1. Inv /\ NeverBack => SessionRenewable
  <2> SUFFICES ASSUME Inv, NeverBack, NEW sid \in Sid, NEW i, sessions[sid] # NoSession,
                      i = sessions[sid].token, i # 0, Renewing(sid) = {},
                      now <= grants[i].expires, i \notin forgotten
               PROVE  Active(i) /\ RefreshGood(sessions[sid].pair)
    BY DEF SessionRenewable
  <2>1. i \in Pair /\ Owner(i) = sid /\ sessions[sid].pair = i /\ HoldsPair(sid, i)
    BY DEF Inv, AppInv, SessionsSound, Sound, HoldsPair
  <2>2. i \notin revoked
    <3>1. i \in Nat \ {0} /\ Held(i)
      BY <2>1, Times DEF Held
    <3> QED  BY <3>1 DEF NeverBack, Out
  <2>3. i \in DOMAIN tokens /\ tokens[i] = grants[i].expires
    BY <2>1, <2>2, Times DEF Inv, Known
  <2>4. ASSUME NEW v \in Worker, Renews(request[v], i)
        PROVE  FALSE
    <3>1. request[v].sid = sid /\ Renewal(request[v])
      BY <2>1, <2>4, RequestIs DEF Proper, Renews, Calls, Renewal
    <3> QED  BY <3>1, RenewingIs
  <2>5. Newest(i)
    BY <2>1, <2>4 DEF Inv, AppInv, HeldNewest
  <2>6. i \in refresh
    BY <2>3, <2>5 DEF Inv, Known
  <2> QED  BY <2>1, <2>3, <2>6 DEF Active, RefreshGood
<1> QED
  BY <1>1, NeverBackAlways, PTL

\* session.go:111, web.go:191: a logout no other call of the session runs into is
\* final: the session never comes back and, once the provider has had the
\* revocation, the token is not accepted and nothing of that sign-in can be
\* renewed.  Nothing is said of a revocation that was lost, nor of access tokens
\* that were renewed before the logout.
THEOREM LogoutsAreFinal == Spec => []LogoutIsFinal
<1>1. Inv => LogoutIsFinal
  <2> SUFFICES ASSUME Inv, NEW sid \in loggedOut \ raced
               PROVE  /\ sessions[sid] = NoSession
                      /\ \A i \in revoked :
                           logins[grants[i].code] = sid =>
                             ~Active(i) /\ \A j \in refresh : grants[j].code # grants[i].code
    BY DEF LogoutIsFinal
  <2>1. sessions[sid] = NoSession
    BY DEF Inv, AppInv, GoneForGood
  <2>2. \A i \in revoked : ~Active(i)
    BY DEF Inv, Known, Active
  <2>3. ASSUME NEW i \in revoked, NEW j \in refresh, Owner(i) = sid, grants[j].code = grants[i].code
        PROVE  FALSE
    <3>1. i \in Pair \ DOMAIN tokens /\ j \in DOMAIN tokens /\ j \in Pair /\ Newest(j)
      BY DEF Inv, Known
    <3>2. Newest(i)
      BY <2>3 DEF Inv, AppInv, RevokedEnded, Ended
    <3>3. i <= j /\ j <= i
      BY <2>3, <3>1, <3>2 DEF Newest
    <3> QED  BY <3>1, <3>3, Times
  <2> QED  BY <2>1, <2>2, <2>3 DEF Owner
<1> QED
  BY <1>1, InvAlways, PTL
=============================================================================
