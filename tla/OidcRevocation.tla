--------------------------- MODULE OidcRevocation ---------------------------
(***************************************************************************)
(* Access tokens of the OpenID provider: signed, valid until the second    *)
(* they name, and refused before that when their jti is on a blocklist in  *)
(* Redis (build_oidc_access_token, decode_oidc_access_token and            *)
(* revoke_token in backend/app/services/oidc_service.py).                  *)
(*                                                                         *)
(* The clock runs in half seconds: a token's expiry is a whole second,     *)
(* Redis counts its seconds from the moment of the SETEX.                  *)
(***************************************************************************)
EXTENDS Integers, FiniteSets

CONSTANTS
  AccessToken,  \* access and id tokens, by jti
  Caller,       \* request slots
  NoToken,      \* no token
  Ttl,          \* seconds a token lives (OIDC_ACCESS_TOKEN_TTL, 3600)
  MaxNow        \* bound on the clock, in half seconds

ASSUME NoTokenAssumption == NoToken \notin AccessToken
ASSUME TtlAssumption == Ttl \in Nat \ {0} /\ MaxNow \in Nat

VARIABLES
  now,      \* the time, in half seconds
  exp,      \* the second a token names as its expiry, 0 before it is issued
  listed,   \* last half second of a token's blocklist key, -1 without a key
  revoked,  \* tokens whose revocation has been acknowledged
  calls     \* the requests in flight

tokens == <<now, exp, listed, revoked, calls>>

Second == now \div 2
Minted == {t \in AccessToken : exp[t] # 0}

\* python-jose accepts a token through the whole second it names.
Unexpired(t) == Second <= exp[t]
OnBlocklist(t) == now <= listed[t]

\* left: the seconds a revocation has computed and not yet sent to Redis.
Call == [op : {"none", "userinfo", "revoke"}, at : {"idle", "decode", "exists", "user", "list"},
         tok : AccessToken \cup {NoToken}, left : Nat, late : BOOLEAN]

NoCall == [op |-> "none", at |-> "idle", tok |-> NoToken, left |-> 0, late |-> FALSE]

Proceed(r, at) == calls' = [calls EXCEPT ![r].at = at]
Return(r) == calls' = [calls EXCEPT ![r] = NoCall]

-----------------------------------------------------------------------------

Issue(t) ==
  /\ t \notin Minted
  /\ exp' = [exp EXCEPT ![t] = Second + Ttl]
  /\ UNCHANGED <<now, listed, revoked, calls>>

Ask(r, op, t) ==
  /\ calls[r] = NoCall /\ t \in Minted
  /\ calls' = [calls EXCEPT ![r] = [op |-> op, at |-> "decode", tok |-> t, left |-> 0,
                                    late |-> t \in revoked]]
  /\ UNCHANGED <<now, exp, listed, revoked>>

\* userinfo verifies the token and then asks Redis for its jti.
Decode(r) ==
  /\ calls[r].op = "userinfo" /\ calls[r].at = "decode"
  /\ IF Unexpired(calls[r].tok) THEN Proceed(r, "exists") ELSE Return(r)
  /\ UNCHANGED <<now, exp, listed, revoked>>

CheckBlocklist(r) ==
  /\ calls[r].at = "exists"
  /\ IF OnBlocklist(calls[r].tok) THEN Return(r) ELSE Proceed(r, "user")
  /\ UNCHANGED <<now, exp, listed, revoked>>

\* The user is loaded and the claims are returned, or the user is gone.
ReturnClaims(r) ==
  /\ calls[r].at = "user"
  /\ Return(r)
  /\ UNCHANGED <<now, exp, listed, revoked>>

Most(a, b) == IF a > b THEN a ELSE b

\* Faulty variant: the last second is not counted.
DecodeToRevokeShort(r) ==
  LET t == calls[r].tok IN
  /\ calls[r].op = "revoke" /\ calls[r].at = "decode"
  /\ Unexpired(t)
  /\ calls' = [calls EXCEPT ![r].at = "list", ![r].left = Most(exp[t] - Second - 1, 1)]
  /\ UNCHANGED <<now, exp, listed, revoked>>

\* Faulty variant: an expired token is taken too, and the time left not clamped.
DecodeToRevokeUnclamped(r) ==
  LET t == calls[r].tok IN
  /\ calls[r].op = "revoke" /\ calls[r].at = "decode"
  /\ calls' = [calls EXCEPT ![r].at = "list", ![r].left = exp[t] - Second]
  /\ UNCHANGED <<now, exp, listed, revoked>>

\* A token that no longer verifies is acknowledged and not listed.
DecodeToRevoke(r) ==
  LET t == calls[r].tok IN
  /\ calls[r].op = "revoke" /\ calls[r].at = "decode"
  /\ \/ /\ Unexpired(t)
        /\ calls' = [calls EXCEPT ![r].at = "list", ![r].left = Most(exp[t] - Second, 1)]
        /\ UNCHANGED revoked
     \/ /\ ~Unexpired(t)
        /\ Return(r)
        /\ revoked' = revoked \cup {t}
  /\ UNCHANGED <<now, exp, listed>>

\* SETEX, with the seconds computed before the await.
List(r) ==
  LET q == calls[r] IN
  /\ q.at = "list"
  /\ listed' = [listed EXCEPT ![q.tok] = now + 2 * q.left]
  /\ revoked' = revoked \cup {q.tok}
  /\ Return(r)
  /\ UNCHANGED <<now, exp>>

Drop(r) ==
  /\ calls[r].at # "idle"
  /\ Return(r)
  /\ UNCHANGED <<now, exp, listed, revoked>>

Tick ==
  /\ now < MaxNow
  /\ now' = now + 1
  /\ UNCHANGED <<exp, listed, revoked, calls>>

TokensInit ==
  /\ now = 0
  /\ exp = [t \in AccessToken |-> 0]
  /\ listed = [t \in AccessToken |-> -1]
  /\ revoked = {}
  /\ calls = [r \in Caller |-> NoCall]

TokensStep(r) ==
  \/ Decode(r) \/ CheckBlocklist(r) \/ ReturnClaims(r)
  \/ DecodeToRevoke(r) \/ List(r) \/ Drop(r)

TokensNext ==
  \/ \E t \in AccessToken : Issue(t)
  \/ \E r \in Caller, t \in AccessToken : Ask(r, "userinfo", t) \/ Ask(r, "revoke", t)
  \/ \E r \in Caller : TokensStep(r)
  \/ Tick

TokensSpec == TokensInit /\ [][TokensNext]_tokens

-----------------------------------------------------------------------------

TokensTypeOK ==
  /\ now \in 0 .. MaxNow
  /\ exp \in [AccessToken -> Nat]
  /\ listed \in [AccessToken -> Nat \cup {-1}]
  /\ revoked \subseteq AccessToken
  /\ calls \in [Caller -> Call]

\* "JTI revocation blocklist in Redis prevents replay of revoked tokens"
\* (api/v1/oidc.py:24): userinfo serves no request that arrives after the
\* token's revocation was acknowledged, at least until the second the token
\* names as its expiry, however long the revocation was under way and however
\* many overlap (remaining in revoke_token against decode_oidc_access_token).
\* Within that last second the key may be gone while the signature verifies.
RevokedUntilExpiry ==
  [][\A r \in Caller : calls[r].late /\ calls[r].at = "exists" /\ calls'[r].at = "user" =>
       Second >= exp[calls[r].tok]]_tokens
=============================================================================
