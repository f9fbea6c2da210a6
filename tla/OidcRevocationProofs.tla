------------------------ MODULE OidcRevocationProofs ------------------------
(***************************************************************************)
(* Proof that a revoked access token is refused until the second it names  *)
(* as its expiry, for any number of tokens and requests, any time to live, *)
(* and however long a revocation waits between computing the remaining     *)
(* seconds and handing them to Redis.                                      *)
(***************************************************************************)
EXTENDS OidcRevocation, TLAPS

\* The key reaches the expiry, or the expiry has come.
Covered(t) == exp[t] # 0 /\ (listed[t] >= 2 * exp[t] \/ now >= 2 * exp[t])

\* A computed remainder still reaches the expiry, because time only helps.
Reaches(q) ==
  /\ q.op # "none" => q.tok \in AccessToken /\ exp[q.tok] # 0
  /\ q.at = "list" => q.op # "none" /\ now + 2 * q.left >= 2 * exp[q.tok]
  /\ q.late => q.tok \in revoked
  /\ q.at \in {"decode", "exists"} => q.op # "none"

Inv ==
  /\ TokensTypeOK
  /\ \A t \in revoked : Covered(t)
  /\ \A r \in Caller : Reaches(calls[r])

-----------------------------------------------------------------------------

LEMMA SecondBounds == ASSUME now \in Nat PROVE Second \in Nat /\ 2 * Second <= now /\ now <= 2 * Second + 1
BY DEF Second

LEMMA InitInv == TokensInit => Inv
BY NoTokenAssumption, TtlAssumption DEF TokensInit, Inv, TokensTypeOK, Call, NoCall, Reaches, Covered

\* A step that replaces one request's record and touches nothing else.
LEMMA ReplaceRequest ==
  ASSUME Inv, NEW r \in Caller, NEW q \in Call, Reaches(q),
         calls' = [calls EXCEPT ![r] = q], UNCHANGED <<now, exp, listed, revoked>>
  PROVE  Inv'
<1>1. \A p \in Caller : calls'[p] = IF p = r THEN q ELSE calls[p]
  BY DEF Inv, TokensTypeOK
<1>2. \A p \in Caller : Reaches(calls[p])'
  BY <1>1 DEF Inv, Reaches
<1>3. QED
  BY <1>2 DEF Inv, TokensTypeOK, Covered

LEMMA IdleReaches == NoCall \in Call /\ Reaches(NoCall)
BY DEF NoCall, Call, Reaches

\* A request that goes on without a remainder to carry.
LEMMA GotoInv ==
  ASSUME Inv, NEW r \in Caller, NEW at \in {"exists", "user"}, Proceed(r, at), calls[r].op # "none",
         UNCHANGED <<now, exp, listed, revoked>>
  PROVE  Inv'
<1> DEFINE q == [calls[r] EXCEPT !.at = at]
<1>1. calls[r] \in Call /\ Reaches(calls[r])
  BY DEF Inv, TokensTypeOK
<1>2. q \in Call /\ Reaches(q)
  BY <1>1 DEF Call, Reaches
<1>3. calls' = [calls EXCEPT ![r] = q]
  BY DEF Proceed, Inv, TokensTypeOK
<1> HIDE DEF q
<1>4. QED
  BY <1>2, <1>3, ReplaceRequest

LEMMA AnswerInv ==
  ASSUME Inv, NEW r \in Caller, Return(r), UNCHANGED <<now, exp, listed, revoked>>
  PROVE  Inv'
BY IdleReaches, ReplaceRequest DEF Return

-----------------------------------------------------------------------------

LEMMA AskInv ==
  ASSUME Inv, NEW r \in Caller, NEW t \in AccessToken, NEW op \in {"userinfo", "revoke"}, Ask(r, op, t)
  PROVE  Inv'
<1> DEFINE q == [op |-> op, at |-> "decode", tok |-> t, left |-> 0, late |-> t \in revoked]
<1>1. q \in Call
  BY DEF Call
<1>2. Reaches(q)
  BY DEF Ask, Reaches, Minted
<1>3. calls' = [calls EXCEPT ![r] = q] /\ UNCHANGED <<now, exp, listed, revoked>>
  BY DEF Ask
<1> HIDE DEF q
<1>4. QED
  BY <1>1, <1>2, <1>3, ReplaceRequest

LEMMA IssueInv == ASSUME Inv, NEW t \in AccessToken, Issue(t) PROVE Inv'
<1> USE DEF Inv, TokensTypeOK
<1>1. Second \in Nat /\ Second + Ttl \in Nat \ {0}
  BY SecondBounds, TtlAssumption
<1>2. exp[t] = 0 /\ exp' = [exp EXCEPT ![t] = Second + Ttl]
  BY DEF Issue, Minted
<1>3. TokensTypeOK'
  BY <1>1, <1>2 DEF Issue
<1>4. \A u \in revoked : Covered(u)'
  BY <1>2 DEF Issue, Covered
<1>5. \A r \in Caller : Reaches(calls[r])'
  BY <1>2 DEF Issue, Reaches
<1>6. QED
  BY <1>3, <1>4, <1>5 DEF Issue

LEMMA DecodeToRevokeInv == ASSUME Inv, NEW r \in Caller, DecodeToRevoke(r) PROVE Inv'
<1> DEFINE t == calls[r].tok
           left == Most(exp[t] - Second, 1)
           q == [calls[r] EXCEPT !.at = "list", !.left = left]
<1>1. calls[r] \in Call /\ Reaches(calls[r]) /\ calls[r].op = "revoke" /\ t \in AccessToken
  BY DEF Inv, TokensTypeOK, DecodeToRevoke, Reaches
<1>2. /\ now \in Nat /\ exp[t] \in Nat /\ exp[t] # 0
      /\ Second \in Nat /\ 2 * Second <= now /\ now <= 2 * Second + 1
  BY <1>1, SecondBounds DEF Inv, TokensTypeOK, Reaches
<1>3. CASE Unexpired(t) /\ calls' = [calls EXCEPT ![r].at = "list", ![r].left = left]
  <2>1. left \in Nat /\ now + 2 * left >= 2 * exp[t]
    BY <1>2 DEF Most
  <2>2. q \in Call /\ Reaches(q)
    <3> HIDE DEF left
    <3>1. QED
      BY <1>1, <2>1 DEF Call, Reaches
  <2>3. calls' = [calls EXCEPT ![r] = q]
    BY <1>3 DEF Inv, TokensTypeOK
  <2>4. UNCHANGED <<now, exp, listed, revoked>>
    BY <1>3, <1>2 DEF DecodeToRevoke, Unexpired
  <2> HIDE DEF q
  <2>5. QED
    BY <2>2, <2>3, <2>4, ReplaceRequest
<1>4. CASE ~Unexpired(t) /\ Return(r) /\ revoked' = revoked \cup {t}
  <2>1. now >= 2 * exp[t]
    BY <1>2, <1>4 DEF Unexpired
  <2>2. UNCHANGED <<now, exp, listed>>
    BY DEF DecodeToRevoke
  <2>3. \A p \in Caller : calls'[p] = IF p = r THEN NoCall ELSE calls[p]
    BY <1>4 DEF Return, Inv, TokensTypeOK
  <2>4. \A p \in Caller : Reaches(calls[p])'
    BY <1>4, <2>2, <2>3 DEF Inv, Reaches, NoCall
  <2>5. \A u \in revoked' : Covered(u)'
    BY <1>2, <1>4, <2>1, <2>2 DEF Inv, Covered
  <2>6. TokensTypeOK'
    BY <1>1, <1>4, <2>2, IdleReaches DEF Inv, TokensTypeOK, Return
  <2>7. QED
    BY <2>4, <2>5, <2>6 DEF Inv
<1>5. QED
  BY <1>3, <1>4 DEF DecodeToRevoke

LEMMA ListInv == ASSUME Inv, NEW r \in Caller, List(r) PROVE Inv'
<1> DEFINE t == calls[r].tok
           until == now + 2 * calls[r].left
<1>1. calls[r] \in Call /\ t \in AccessToken /\ exp[t] # 0 /\ until >= 2 * exp[t]
  BY DEF Inv, TokensTypeOK, List, Reaches
<1>2. until \in Nat
  BY <1>1 DEF Inv, TokensTypeOK, Call
<1>3. /\ listed' = [listed EXCEPT ![t] = until] /\ revoked' = revoked \cup {t}
      /\ UNCHANGED <<now, exp>>
  BY DEF List
<1>4. \A p \in Caller : calls'[p] = IF p = r THEN NoCall ELSE calls[p]
  BY DEF List, Return, Inv, TokensTypeOK
<1> HIDE DEF until
<1>5. TokensTypeOK'
  BY <1>1, <1>2, <1>3, IdleReaches DEF Inv, TokensTypeOK, List, Return
<1>6. \A u \in revoked' : Covered(u)'
  BY <1>1, <1>3 DEF Inv, TokensTypeOK, Covered
<1>7. \A p \in Caller : Reaches(calls[p])'
  BY <1>3, <1>4 DEF Inv, Reaches, NoCall
<1>8. QED
  BY <1>5, <1>6, <1>7 DEF Inv

LEMMA TickInv == ASSUME Inv, Tick PROVE Inv'
<1>1. TokensTypeOK'
  BY TtlAssumption DEF Tick, Inv, TokensTypeOK
<1>2. \A t \in revoked : Covered(t)'
  BY DEF Tick, Inv, TokensTypeOK, Covered
<1>3. ASSUME NEW r \in Caller PROVE Reaches(calls[r])'
  <2>1. calls[r].left \in Nat /\ Reaches(calls[r])
    BY DEF Inv, TokensTypeOK, Call
  <2>2. calls[r].op # "none" => exp[calls[r].tok] \in Nat
    BY <2>1 DEF Inv, TokensTypeOK, Reaches
  <2>3. QED
    BY <2>1, <2>2 DEF Tick, Reaches, Inv, TokensTypeOK
<1>4. QED
  BY <1>1, <1>2, <1>3 DEF Inv, Tick

-----------------------------------------------------------------------------

LEMMA NextInv == Inv /\ [TokensNext]_tokens => Inv'
<1> SUFFICES ASSUME Inv, [TokensNext]_tokens PROVE Inv'
  OBVIOUS
<1>1. ASSUME NEW r \in Caller, TokensStep(r) PROVE Inv'
  <2>1. CASE Decode(r)
    BY <2>1, GotoInv, AnswerInv DEF Decode
  <2>2. CASE CheckBlocklist(r)
    <3>1. calls[r].op # "none"
      BY <2>2 DEF CheckBlocklist, Inv, Reaches
    <3>2. QED
      BY <2>2, <3>1, GotoInv, AnswerInv DEF CheckBlocklist
  <2>3. CASE ReturnClaims(r) \/ Drop(r)
    BY <2>3, AnswerInv DEF ReturnClaims, Drop
  <2>4. QED
    BY <1>1, <2>1, <2>2, <2>3, DecodeToRevokeInv, ListInv DEF TokensStep
<1>2. CASE UNCHANGED tokens
  BY <1>2 DEF tokens, Inv, TokensTypeOK, Covered, Reaches
<1>3. QED
  BY <1>1, <1>2, IssueInv, AskInv, TickInv DEF TokensNext

\* The variables keep their types for every time to live and clock bound.
THEOREM TypeCorrect == TokensSpec => []TokensTypeOK
<1>1. Inv => TokensTypeOK
  BY DEF Inv
<1>2. QED
  BY <1>1, InitInv, NextInv, PTL DEF TokensSpec

\* A revoked token passes the blocklist only in the second it expires.
THEOREM RevocationTheorem == TokensSpec => RevokedUntilExpiry
<1>1. ASSUME Inv, NEW r \in Caller, calls[r].late, calls[r].at = "exists", calls'[r].at = "user",
             [TokensNext]_tokens
      PROVE  Second >= exp[calls[r].tok]
  <2> DEFINE t == calls[r].tok
  <2>1. /\ t \in AccessToken /\ Covered(t) /\ exp[t] \in Nat /\ listed[t] \in Int /\ now \in Nat
    BY <1>1 DEF Inv, TokensTypeOK, Reaches
  <2>2. Second \in Nat /\ 2 * Second <= now /\ now <= 2 * Second + 1
    BY <2>1, SecondBounds
  <2>3. now > listed[t]
    <3> USE DEF Return, Proceed, NoCall, Inv, TokensTypeOK
    <3>1. CASE CheckBlocklist(r)
      BY <1>1, <2>1, <3>1 DEF CheckBlocklist, OnBlocklist
    <3>2. ASSUME NEW p \in Caller, TokensStep(p), ~CheckBlocklist(r) PROVE calls'[r].at # "user"
      <4>1. calls[p] \in Call /\ calls[r] \in Call
        BY <1>1
      <4>2. CASE p # r
        BY <1>1, <3>2, <4>2
        DEF TokensStep, Decode, CheckBlocklist, ReturnClaims, DecodeToRevoke, List, Drop
      <4>3. CASE p = r
        BY <1>1, <3>2, <4>1, <4>3 DEF TokensStep, Decode, ReturnClaims, DecodeToRevoke, List, Drop
      <4>4. QED
        BY <4>2, <4>3
    <3>3. ASSUME NEW p \in Caller, NEW u \in AccessToken, NEW op, Ask(p, op, u)
          PROVE  calls'[r].at # "user"
      BY <1>1, <3>3 DEF Ask
    <3>4. CASE UNCHANGED calls
      BY <1>1, <3>4
    <3>5. QED
      BY <1>1, <3>1, <3>2, <3>3, <3>4 DEF TokensNext, Issue, Tick, tokens
  <2>4. QED
    BY <2>1, <2>2, <2>3 DEF Covered
<1>2. Inv /\ [TokensNext]_tokens =>
        [\A r \in Caller : calls[r].late /\ calls[r].at = "exists" /\ calls'[r].at = "user" =>
           Second >= exp[calls[r].tok]]_tokens
  BY <1>1
<1>3. QED
  BY <1>2, InitInv, NextInv, PTL DEF TokensSpec, RevokedUntilExpiry
=============================================================================
