------------------------------ MODULE IdpTokens -------------------------------
(***************************************************************************)
(* The identity provider's store of authorization codes, access tokens and *)
(* refresh tokens, and what its endpoints do with it                       *)
(* (idp/internal/token/store.go, idp/internal/server/server.go).           *)
(*                                                                         *)
(* Each operation is one critical section.  The token endpoint consumes a  *)
(* code or a refresh token and issues the next pair in two of them; what   *)
(* it has consumed is its own, so nothing can come between.  The app is    *)
(* the only client, it authenticates and keeps its PKCE verifier with the  *)
(* code, so the checks of client, redirect and verifier succeed.  Ids are  *)
(* random and never meet: a pair of access and refresh token is a number.  *)
(***************************************************************************)
EXTENDS Naturals, Sequences, Functions, FiniteSets

CONSTANTS
  CodeTTL,    \* codeTTL
  TokenTTL,   \* tokenTTL
  MaxCodes,   \* bound: codes issued
  MaxGrants   \* bound: pairs of tokens issued

ASSUME LifetimeAssumption == CodeTTL \in Nat /\ TokenTTL \in Nat

VARIABLES
  now,       \* the time
  codes,     \* Store.codes: when each code expires
  tokens,    \* Store.tokens: when each access token expires
  refresh,   \* Store.refresh: the pairs whose refresh token is known
  logins,    \* history: who each code was issued for
  grants     \* history: the code and the expiry each pair goes back to

idp == <<codes, tokens, refresh>>

NoCodes == [c \in {} |-> 0]

IdpInit ==
  /\ now = 0
  /\ codes = NoCodes /\ tokens = NoCodes /\ refresh = {}
  /\ logins = <<>> /\ grants = <<>>

Without(f, S) == Restrict(f, DOMAIN f \ S)
With(f, x, v) == [y \in DOMAIN f \cup {x} |-> IF y = x THEN v ELSE f[y]]

\* POST /authorize with the right password: IssueCode.
IssueCode(sid) ==
  /\ Len(logins) < MaxCodes
  /\ logins' = Append(logins, sid)
  /\ codes' = With(codes, Len(logins) + 1, now + CodeTTL)
  /\ UNCHANGED <<tokens, refresh, grants>>

NextPair == Len(grants) + 1

\* IssueToken, for a login that began with code c.
Issued(c, left) ==
  /\ Len(grants) < MaxGrants
  /\ grants' = Append(grants, [code |-> c, expires |-> now + TokenTTL])
  /\ tokens' = With(tokens, NextPair, now + TokenTTL)
  /\ refresh' = left \cup {NextPair}

\* POST /token with a code.  ConsumeCode takes it out whether it is still
\* good or not.
CodeGood(c) == c \in DOMAIN codes /\ now <= codes[c]

Exchange(c) ==
  /\ codes' = Without(codes, {c})
  /\ IF CodeGood(c) THEN Issued(c, refresh) ELSE UNCHANGED <<tokens, refresh, grants>>
  /\ UNCHANGED logins

\* POST /token with a refresh token: ConsumeRefreshToken needs the access token
\* it belongs to, expired or not, and leaves that one alone.
RefreshGood(i) == i \in refresh /\ i \in DOMAIN tokens

RotateTwice(i) ==
  /\ IF RefreshGood(i)
     THEN Issued(grants[i].code, refresh)
     ELSE refresh' = refresh \ {i} /\ UNCHANGED <<tokens, grants>>
  /\ UNCHANGED <<codes, logins>>

Rotate(i) ==
  /\ IF RefreshGood(i)
     THEN Issued(grants[i].code, refresh \ {i})
     ELSE refresh' = refresh \ {i} /\ UNCHANGED <<tokens, grants>>
  /\ UNCHANGED <<codes, logins>>

\* POST /introspect: Token forgets an access token that has expired, and not
\* its refresh token.
Active(i) == i \in DOMAIN tokens /\ now <= tokens[i]

Introspect(i) ==
  /\ tokens' = IF Active(i) THEN tokens ELSE Without(tokens, {i})
  /\ UNCHANGED <<codes, refresh, logins, grants>>

\* POST /revoke: the access token and the refresh token that points at it.
RevokeAccessOnly(i) ==
  /\ tokens' = Without(tokens, {i})
  /\ UNCHANGED <<codes, refresh, logins, grants>>

Revoke(i) ==
  /\ tokens' = Without(tokens, {i})
  /\ refresh' = IF i \in DOMAIN tokens THEN refresh \ {i} ELSE refresh
  /\ UNCHANGED <<codes, logins, grants>>

\* The janitor: what has expired, and the refresh tokens that go with it.
Cleanup ==
  LET old == {i \in DOMAIN tokens : now > tokens[i]} IN
  /\ codes' = Without(codes, {c \in DOMAIN codes : now > codes[c]})
  /\ tokens' = Without(tokens, old)
  /\ refresh' = refresh \ old
  /\ UNCHANGED <<logins, grants>>

\* Everything is in memory.
Forget ==
  /\ codes' = NoCodes /\ tokens' = NoCodes /\ refresh' = {}
  /\ UNCHANGED <<logins, grants>>
==============================================================================
