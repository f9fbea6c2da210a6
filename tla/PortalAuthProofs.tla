-------------------------- MODULE PortalAuthProofs --------------------------
(***************************************************************************)
(* Proofs about PortalAuth, for every number of users, tokens, challenges  *)
(* and requests.  The argument is one inductive invariant, Inv: what a     *)
(* request's place says of its record (Shape), that a used credential has  *)
(* left the store it is looked up in (SpentIsGone), and that the three     *)
(* history flags keep a request away from the places where sessions are    *)
(* opened (FlagsHold).                                                     *)
(***************************************************************************)
EXTENDS PortalAuth, TLAPS

\* What the place a request has reached says about its record.
ShapeOf(q) ==
  /\ q.op # "none" => q.user \in User
  /\ q.op = "none" => q = Idle
  /\ q.op = "verify" <=> q.sid # None
  /\ q.op \in {"refresh", "logout"} <=> q.tok # None
  /\ q.write # "nothing" => q.op \in AccountOps
  /\ q.new # None => q.at = "commit" /\ q.op \in {"login", "verify", "refresh"}
  /\ q.op = "refresh" /\ q.at = "commit" => q.new # None

Shape == \A r \in Req : ShapeOf(req[r])

\* A credential whose use was acknowledged is not found where it is looked up.
SpentIsGone ==
  /\ spent \cap rows = {}
  /\ spent \cap sidLive = {}
  /\ \A s \in Sid : sidUser[s] = None => s \notin spent
  /\ \A t \in Token : owner[t] = None => t \notin spent

\* A request carries credentials that were issued to its user, and has taken the challenge
\* out of Redis before it opens a session.
HeldOf(q, live) ==
  /\ q.tok # None => owner[q.tok] # None /\ owner[q.tok] = q.user
  /\ q.sid # None => sidUser[q.sid] # None
  /\ q.op = "verify" /\ q.at \in {"insert", "commit"} => q.sid \notin live

HeldIsKnown == \A r \in Req : HeldOf(req[r], sidLive)

\* What was true on arrival still is, and holds the request back.
FlagsOf(q) ==
  /\ q.late => /\ q.at = "read"
               /\ \/ q.op = "verify" /\ q.sid \in spent
                  \/ q.op = "refresh" /\ q.tok \in spent
  /\ q.barred => /\ q.user \in blocked
                 /\ q.op = "login" => q.at \in {"read", "challenge"}
                 /\ q.op = "refresh" => q.at \in {"read", "user"}
  /\ q.guarded => /\ q.user \in mfaOn
                  /\ q.op = "login" => q.at \in {"read", "challenge"}

FlagsHold == \A r \in Req : FlagsOf(req[r])

\* Two sessions never carry the same token.
NewIsFresh ==
  /\ \A r \in Req : req[r].new # None => owner[req[r].new] = None
  /\ \A r, q \in Req : r # q /\ req[r].new # None => req[r].new # req[q].new

RowsAreIssued == \A t \in rows : owner[t] # None

Inv == /\ TypeOK /\ Shape /\ SpentIsGone /\ HeldIsKnown
       /\ FlagsHold /\ NewIsFresh /\ RowsAreIssued

-----------------------------------------------------------------------------

LEMMA InitInv == Init => Inv
BY NoneAssumption
DEF Init, Inv, TypeOK, Request, Idle, Ops, Places, Writes, Shape, ShapeOf, SpentIsGone,
    HeldIsKnown, HeldOf, FlagsHold, FlagsOf, NewIsFresh, RowsAreIssued

\* A step that replaces the record of one request and, in the other variables,
\* at most drops a challenge.
LEMMA ReplaceRequest ==
  ASSUME Inv, NEW r \in Req, NEW q \in Request,
         ShapeOf(q), FlagsOf(q), HeldOf(q, sidLive'), q.new \in {None, req[r].new} \cup Fresh,
         req' = [req EXCEPT ![r] = q],
         UNCHANGED <<account, sessions, expired, sidUser, spent>>, sidLive' \subseteq sidLive
  PROVE  Inv'
<1> USE DEF Inv, account, sessions
<1>1. TypeOK'
  BY DEF TypeOK
<1>2. \A p \in Req : req'[p] = IF p = r THEN q ELSE req[p]
  BY DEF TypeOK
<1>3. Shape'
  BY <1>2 DEF Shape, ShapeOf
<1>4. SpentIsGone' /\ RowsAreIssued'
  BY DEF SpentIsGone, RowsAreIssued
<1>5. FlagsHold'
  BY <1>2 DEF FlagsHold, FlagsOf
<1>6. NewIsFresh'
  <2>1. q.new # None => owner[q.new] = None
    BY DEF NewIsFresh, Fresh
  <2>2. \A p \in Req \ {r} : q.new # None => req[p].new # q.new
    BY DEF NewIsFresh, Fresh
  <2>3. QED
    BY <1>2, <2>1, <2>2 DEF NewIsFresh
<1>7. HeldIsKnown'
  BY <1>2 DEF HeldIsKnown, HeldOf
<1>8. QED
  BY <1>1, <1>3, <1>4, <1>5, <1>6, <1>7

LEMMA IdleIsHarmless ==
  Idle \in Request /\ ShapeOf(Idle) /\ FlagsOf(Idle) /\ \A live : HeldOf(Idle, live)
BY NoneAssumption DEF Idle, Request, ShapeOf, FlagsOf, HeldOf, Ops, Places, Writes

-----------------------------------------------------------------------------
(* The steps that leave everything but the request's own record alone.       *)

LEMMA ArriveInv ==
  ASSUME Inv, NEW r \in Req, NEW op \in Ops \ {"none"}, NEW u \in User,
         NEW s \in Sid \cup {None}, NEW t \in Token \cup {None}, NEW late \in BOOLEAN,
         op = "verify" <=> s # None, s # None => sidUser[s] # None,
         op \in {"refresh", "logout"} <=> t # None,
         t # None => owner[t] # None /\ owner[t] = u,
         late => \/ op = "verify" /\ s \in spent
                 \/ op = "refresh" /\ t \in spent,
         Arrive(r, op, u, s, t, late)
  PROVE  Inv'
<1> DEFINE q == [op |-> op, at |-> "read", user |-> u, sid |-> s, tok |-> t, new |-> None,
                 write |-> "nothing", late |-> late,
                 barred |-> u \in blocked, guarded |-> u \in mfaOn]
<1>1. q.new = None
  OBVIOUS
<1>2. q \in Request
  BY DEF Request, Places, Writes
<1>3. ShapeOf(q) /\ FlagsOf(q) /\ HeldOf(q, sidLive')
  BY DEF ShapeOf, FlagsOf, HeldOf
<1>4. req' = [req EXCEPT ![r] = q]
  BY DEF Arrive
<1> HIDE DEF q
<1>5. UNCHANGED <<account, sessions, expired, challenges, spent>>
  BY DEF Arrive
<1>6. QED
  BY <1>1, <1>2, <1>3, <1>4, <1>5, ReplaceRequest DEF challenges

LEMMA ArrivalInv == ASSUME Inv, NEW r \in Req, Arrival(r) PROVE Inv'
<1> USE NoneAssumption
<1>1. ASSUME NEW u \in User, LoginArrive(r, u) PROVE Inv'
  BY <1>1, ArriveInv DEF LoginArrive, Ops
<1>2. ASSUME NEW s \in Sid, VerifyArrive(r, s) PROVE Inv'
  <2>1. sidUser[s] \in User
    BY <1>2 DEF VerifyArrive, Inv, TypeOK
  <2>2. PICK late \in BOOLEAN : late <=> s \in spent
    OBVIOUS
  <2>3. Arrive(r, "verify", sidUser[s], s, None, late)
    BY <1>2, <2>2 DEF VerifyArrive
  <2>4. QED
    BY <2>1, <2>2, <2>3, ArriveInv DEF Ops
<1>3. ASSUME NEW t \in Token, RefreshArrive(r, t) \/ LogoutArrive(r, t) PROVE Inv'
  <2>1. owner[t] \in User
    BY <1>3 DEF RefreshArrive, LogoutArrive, Issued, Inv, TypeOK
  <2>2. CASE RefreshArrive(r, t)
    <3>1. PICK late \in BOOLEAN : late <=> t \in spent
      OBVIOUS
    <3>2. Arrive(r, "refresh", owner[t], None, t, late)
      BY <2>2, <3>1 DEF RefreshArrive
    <3>3. QED
      BY <2>1, <3>1, <3>2, ArriveInv DEF Ops
  <2>3. CASE LogoutArrive(r, t)
    BY <2>1, <2>3, ArriveInv DEF LogoutArrive, Ops
  <2>4. QED
    BY <1>3, <2>2, <2>3
<1>4. ASSUME NEW u \in User, NEW op \in AccountOps, AccountArrive(r, op, u) PROVE Inv'
  BY <1>4, ArriveInv, OpsAssumption DEF AccountArrive, Ops
<1>5. QED
  BY <1>1, <1>2, <1>3, <1>4 DEF Arrival

\* A request that is answered, or rolled back.
LEMMA AnswerInv ==
  ASSUME Inv, NEW r \in Req, Answer(r),
         UNCHANGED <<account, sessions, expired, challenges, spent>>
  PROVE  Inv'
BY IdleIsHarmless, ReplaceRequest DEF Answer, Idle, challenges

\* A request that moves on without opening a session.
LEMMA GotoInv ==
  ASSUME Inv, NEW r \in Req, NEW at \in Places, Goto(r, at),
         req[r].op # "none", req[r].at # "commit",
         req[r].late => at = "read",
         req[r].barred /\ req[r].op = "login" => at = "challenge",
         req[r].barred /\ req[r].op = "refresh" => at \in {"read", "user"},
         req[r].guarded /\ req[r].op = "login" => at = "challenge",
         req[r].op = "verify" /\ at \in {"insert", "commit"} => req[r].sid \notin sidLive',
         req[r].op = "refresh" => at # "commit",
         UNCHANGED <<account, sessions, expired, sidUser, spent>>, sidLive' \subseteq sidLive
  PROVE  Inv'
<1> DEFINE q == [req[r] EXCEPT !.at = at]
<1>1. req[r] \in Request /\ ShapeOf(req[r]) /\ FlagsOf(req[r]) /\ HeldOf(req[r], sidLive)
  BY DEF Inv, TypeOK, Shape, FlagsHold, HeldIsKnown
<1>2. q \in Request /\ q.new = req[r].new
  BY <1>1 DEF Request
<1>3. ShapeOf(q)
  BY <1>1 DEF ShapeOf, Request
<1>4. FlagsOf(q) /\ HeldOf(q, sidLive')
  BY <1>1 DEF FlagsOf, HeldOf, Request
<1>5. req' = [req EXCEPT ![r] = q]
  BY DEF Goto, Inv, TypeOK
<1> HIDE DEF q
<1>6. QED
  BY <1>2, <1>3, <1>4, <1>5, ReplaceRequest

\* A request that inserts its session row.
LEMMA InsertInv ==
  ASSUME Inv, NEW r \in Req, NEW n \in Fresh,
         req' = [req EXCEPT ![r].new = n, ![r].at = "commit"],
         \/ req[r].op \in {"login", "verify"} /\ req[r].at = "insert"
         \/ req[r].op = "refresh" /\ req[r].at = "rotate",
         UNCHANGED <<account, sessions, expired, challenges, spent>>
  PROVE  Inv'
<1> DEFINE q == [req[r] EXCEPT !.new = n, !.at = "commit"]
<1>1. req[r] \in Request /\ ShapeOf(req[r]) /\ FlagsOf(req[r]) /\ HeldOf(req[r], sidLive)
  BY DEF Inv, TypeOK, Shape, FlagsHold, HeldIsKnown
<1>2. q \in Request /\ q.new = n
  BY <1>1 DEF Request, Fresh, Places
<1>3. n # None /\ ShapeOf(q)
  BY <1>1, NoneAssumption DEF ShapeOf, Request, Fresh
<1>4. FlagsOf(q) /\ HeldOf(q, sidLive')
  BY <1>1 DEF FlagsOf, HeldOf, Request, challenges
<1>5. req' = [req EXCEPT ![r] = q]
  BY DEF Inv, TypeOK
<1> HIDE DEF q
<1>6. QED
  BY <1>2, <1>3, <1>4, <1>5, ReplaceRequest DEF challenges

-----------------------------------------------------------------------------
(* One lemma per step that is not of those shapes, then all the steps.       *)

LEMMA LoginChallengeInv == ASSUME Inv, NEW r \in Req, LoginChallenge(r) PROVE Inv'
<1> USE DEF Inv
<1>1. PICK s \in Sid : /\ sidUser[s] = None
                       /\ sidUser' = [sidUser EXCEPT ![s] = req[r].user]
                       /\ sidLive' = sidLive \cup {s}
  BY DEF LoginChallenge
<1>2. req' = [req EXCEPT ![r] = Idle] /\ UNCHANGED <<account, sessions, expired, spent>>
  BY DEF LoginChallenge, Answer
<1>3. req[r].user \in User
  BY DEF LoginChallenge, At, Shape, ShapeOf
<1>4. \A p \in Req : req'[p] = IF p = r THEN Idle ELSE req[p]
  BY <1>2 DEF TypeOK
<1>5. TypeOK'
  BY <1>1, <1>2, <1>3, IdleIsHarmless DEF TypeOK, account, sessions
<1>6. SpentIsGone'
  BY <1>1, <1>2, <1>3, NoneAssumption DEF SpentIsGone, TypeOK, sessions
<1>7. Shape' /\ FlagsHold'
  BY <1>2, <1>4, IdleIsHarmless DEF Shape, ShapeOf, FlagsHold, FlagsOf, account
<1>8. NewIsFresh' /\ RowsAreIssued'
  BY <1>2, <1>4 DEF NewIsFresh, RowsAreIssued, Idle, sessions
<1>9. HeldIsKnown'
  BY <1>1, <1>2, <1>3, <1>4, IdleIsHarmless, NoneAssumption
  DEF HeldIsKnown, HeldOf, sessions, TypeOK, Request
<1>10. QED
  BY <1>5, <1>6, <1>7, <1>8, <1>9

LEMMA ExpiryInv ==
  ASSUME Inv, sidLive' \subseteq sidLive, expired' \subseteq Token,
         UNCHANGED <<account, sessions, sidUser, spent, req>>
  PROVE  Inv'
BY DEF Inv, TypeOK, Shape, SpentIsGone, HeldIsKnown, HeldOf, FlagsHold, FlagsOf,
       ShapeOf, NewIsFresh, RowsAreIssued, account, sessions

\* The steps of the event loop before the end of the transaction.
LEMMA ReadingInv ==
  ASSUME Inv, NEW r \in Req,
         \/ LoginRead(r) \/ VerifyRead(r) \/ VerifyCode(r) \/ VerifyDiscard(r)
         \/ RefreshRead(r) \/ RefreshUser(r) \/ LogoutRead(r)
  PROVE  Inv'
<1> USE DEF Places, At, challenges
<1>1. FlagsOf(req[r])
  BY DEF Inv, FlagsHold
<1>2. CASE LoginRead(r)
  BY <1>1, <1>2, GotoInv, AnswerInv DEF LoginRead, FlagsOf
<1>3. CASE VerifyRead(r)
  BY <1>1, <1>3, GotoInv, AnswerInv DEF VerifyRead, FlagsOf, Inv, SpentIsGone
<1>4. CASE VerifyCode(r)
  BY <1>1, <1>4, GotoInv, AnswerInv DEF VerifyCode, FlagsOf
<1>5. CASE VerifyDiscard(r)
  BY <1>1, <1>5, GotoInv DEF VerifyDiscard, FlagsOf
<1>6. CASE RefreshRead(r)
  BY <1>1, <1>6, GotoInv, AnswerInv DEF RefreshRead, FlagsOf, Inv, SpentIsGone
<1>7. CASE RefreshUser(r)
  BY <1>1, <1>7, GotoInv, AnswerInv DEF RefreshUser, FlagsOf
<1>8. CASE LogoutRead(r)
  BY <1>1, <1>8, GotoInv DEF LogoutRead, FlagsOf
<1>9. QED
  BY <1>2, <1>3, <1>4, <1>5, <1>6, <1>7, <1>8

LEMMA AccountReadInv == ASSUME Inv, NEW r \in Req, AccountRead(r) PROVE Inv'
<1> DEFINE q(w) == [req[r] EXCEPT !.at = "commit", !.write = w]
<1>1. UNCHANGED <<account, sessions, expired, challenges, spent>>
  BY DEF AccountRead
<1>2. req[r].op \in AccountOps /\ req[r].at = "read"
  BY DEF AccountRead
<1>3. req[r] \in Request /\ ShapeOf(req[r]) /\ FlagsOf(req[r]) /\ HeldOf(req[r], sidLive)
  BY DEF Inv, TypeOK, Shape, FlagsHold, HeldIsKnown
<1>4. Answer(r) \/ \E w \in {"nothing", req[r].op} : req' = [req EXCEPT ![r] = q(w)]
  BY DEF AccountRead, Inv, TypeOK
<1>5. ASSUME NEW w \in {"nothing", req[r].op}, req' = [req EXCEPT ![r] = q(w)]
      PROVE Inv'
  <2>1. q(w) \in Request /\ q(w).new = req[r].new
    BY <1>2, <1>3 DEF Request, Places, Writes
  <2>2. ShapeOf(q(w)) /\ FlagsOf(q(w)) /\ HeldOf(q(w), sidLive')
    BY <1>1, <1>2, <1>3, OpsAssumption DEF ShapeOf, FlagsOf, HeldOf, Request, challenges
  <2> HIDE DEF q
  <2>3. QED
    BY <1>1, <1>5, <2>1, <2>2, ReplaceRequest DEF challenges
<1>6. QED
  BY <1>1, <1>4, <1>5, AnswerInv

-----------------------------------------------------------------------------
(* The end of a transaction.                                                 *)

LEMMA CommitInv == ASSUME Inv, NEW r \in Req, Commit(r) PROVE Inv'
<1> USE DEF Inv
<1> DEFINE q == req[r]
<1>1. q \in Request /\ ShapeOf(q) /\ q.at = "commit" /\ q.op # "none" /\ q.user \in User
  BY DEF Commit, TypeOK, Shape, ShapeOf, Idle
<1>2. /\ req'[r] = Idle
      /\ \A p \in Req \ {r} :
           \/ req'[p] = req[p] /\ req[p].user # q.user
           \/ /\ req[p].user = q.user
              /\ req'[p] = [req[p] EXCEPT
                              !.barred = req[p].barred /\ q.write # "unblock",
                              !.guarded = req[p].guarded /\ q.write # "disableMfa"]
  BY DEF Commit, Release
<1>3. ASSUME NEW p \in Req \ {r}
      PROVE  /\ req'[p] \in Request
             /\ req'[p].op = req[p].op /\ req'[p].at = req[p].at /\ req'[p].user = req[p].user
             /\ req'[p].sid = req[p].sid /\ req'[p].tok = req[p].tok /\ req'[p].new = req[p].new
             /\ req'[p].write = req[p].write /\ req'[p].late = req[p].late
             /\ req'[p].barred => req[p].barred /\ (req[p].user = q.user => q.write # "unblock")
             /\ req'[p].guarded => req[p].guarded /\ (req[p].user = q.user => q.write # "disableMfa")
  <2>1. req[p] \in Request /\ req[p].barred \in BOOLEAN /\ req[p].guarded \in BOOLEAN
    BY DEF TypeOK, Request
  <2>2. CASE req'[p] = req[p] /\ req[p].user # q.user
    BY <2>1, <2>2
  <2>3. CASE /\ req[p].user = q.user
             /\ req'[p] = [req[p] EXCEPT
                              !.barred = req[p].barred /\ q.write # "unblock",
                              !.guarded = req[p].guarded /\ q.write # "disableMfa"]
    <3>1. PICK b \in BOOLEAN : b = (req[p].barred /\ q.write # "unblock")
      OBVIOUS
    <3>2. PICK g \in BOOLEAN : g = (req[p].guarded /\ q.write # "disableMfa")
      OBVIOUS
    <3>3. req'[p] = [req[p] EXCEPT !.barred = b, !.guarded = g]
      BY <2>3, <3>1, <3>2
    <3>4. /\ req'[p] \in Request /\ req'[p].barred = b /\ req'[p].guarded = g
          /\ req'[p].op = req[p].op /\ req'[p].at = req[p].at /\ req'[p].user = req[p].user
          /\ req'[p].sid = req[p].sid /\ req'[p].tok = req[p].tok /\ req'[p].new = req[p].new
          /\ req'[p].write = req[p].write /\ req'[p].late = req[p].late
      BY <2>1, <3>3 DEF Request
    <3>5. QED
      BY <2>3, <3>1, <3>2, <3>4
  <2>4. QED
    BY <1>2, <2>2, <2>3
<1>5. req'[r] = Idle
  BY <1>2
<1>6. TypeOK'
  <2>1. req' \in [Req -> Request]
    BY <1>3, <1>5, IdleIsHarmless DEF Commit, Release
  <2>2. rows' \subseteq Token /\ spent' \subseteq Token \cup Sid
    BY <1>1 DEF Commit, RowsAfter, TypeOK, Request
  <2>3. owner' \in [Token -> User \cup {None}]
    BY <1>1 DEF Commit, TypeOK
  <2>4. root' \in [Token -> Token \cup {None}]
    <3>1. q.op = "refresh" => q.tok \in Token
      BY <1>1 DEF ShapeOf, Request
    <3>2. \A t \in Token : t = q.new => q.new \in Token
      OBVIOUS
    <3>3. QED
      BY <3>1, <3>2 DEF Commit, TypeOK
  <2>5. blocked' \subseteq User /\ mfaOn' \subseteq User
    BY <1>1 DEF Commit, TypeOK
  <2>6. QED
    BY <2>1, <2>2, <2>3, <2>4, <2>5 DEF Commit, TypeOK, challenges
<1>7. Shape'
  <2>1. ASSUME NEW p \in Req \ {r} PROVE ShapeOf(req'[p])
    <3>1. ShapeOf(req[p])
      BY DEF Shape
    <3>2. ASSUME req[p].op = "none" PROVE req'[p] = Idle
      <4>1. req[p] = Idle
        BY <3>1, <3>2 DEF ShapeOf
      <4>2. req[p].user = None
        BY <4>1 DEF Idle
      <4>3. req[p].user # q.user
        BY <1>1, <4>2, NoneAssumption
      <4>4. QED
        BY <1>2, <4>1, <4>3
    <3>3. QED
      BY <1>3, <3>1, <3>2 DEF ShapeOf
  <2>2. QED
    BY <1>5, <2>1, IdleIsHarmless DEF Shape
<1>8. HeldIsKnown'
  <2>1. ASSUME NEW p \in Req \ {r} PROVE HeldOf(req[p], sidLive)'
    <3>1. HeldOf(req[p], sidLive) /\ sidLive' = sidLive /\ sidUser' = sidUser
      BY DEF HeldIsKnown, Commit, challenges
    <3>2. \A t \in Token : owner[t] # None => owner'[t] = owner[t]
      BY <1>1, NoneAssumption DEF NewIsFresh, Commit, TypeOK
    <3>3. req[p].tok \in Token \cup {None}
      BY DEF TypeOK, Request
    <3>4. req'[p].tok # None => owner'[req'[p].tok] # None /\ owner'[req'[p].tok] = req'[p].user
      BY <1>3, <3>1, <3>2, <3>3 DEF HeldOf
    <3>5. QED
      BY <1>3, <3>1, <3>4 DEF HeldOf
  <2>2. QED
    BY <1>5, <2>1, IdleIsHarmless DEF HeldIsKnown, HeldOf, Idle
<1>9. SpentIsGone' /\ RowsAreIssued'
  <2>1. q.new # None => owner[q.new] = None /\ q.new \in Token
    BY <1>1 DEF NewIsFresh, Request
  <2>2. q.tok # None => owner[q.tok] # None /\ q.tok \in Token
    BY <1>1 DEF HeldIsKnown, HeldOf, Request
  <2>3. q.sid # None => sidUser[q.sid] # None /\ q.sid \in Sid /\ q.sid \notin sidLive
    BY <1>1 DEF HeldIsKnown, HeldOf, Request, ShapeOf
  <2>4. QED
    BY <1>1, <2>1, <2>2, <2>3, NoneAssumption, DisjointAssumption
    DEF SpentIsGone, RowsAreIssued, Commit, RowsAfter, TypeOK, challenges
<1>10. FlagsHold'
  <2>1. ASSUME NEW p \in Req \ {r} PROVE FlagsOf(req[p])'
    <3>1. FlagsOf(req[p])
      BY DEF FlagsHold
    <3>2. QED
      BY <1>1, <1>3, <3>1 DEF FlagsOf, Commit
  <2>2. QED
    BY <1>5, <2>1, IdleIsHarmless DEF FlagsHold, FlagsOf, Idle
<1>11. NewIsFresh'
  <2>1. \A p \in Req : req'[p].new = IF p = r THEN None ELSE req[p].new
    BY <1>3, <1>5 DEF Idle
  <2>2. QED
    BY <1>1, <2>1 DEF NewIsFresh, Commit, TypeOK, Request
<1>12. QED
  BY <1>6, <1>7, <1>8, <1>9, <1>10, <1>11

-----------------------------------------------------------------------------

LEMMA StepInv == ASSUME Inv, NEW r \in Req, Step(r) PROVE Inv'
<1>1. CASE LoginChallenge(r)
  BY <1>1, LoginChallengeInv
<1>2. CASE OpenSession(r) \/ RefreshRotate(r)
  BY <1>2, InsertInv DEF OpenSession, RefreshRotate, At
<1>3. CASE AccountRead(r)
  BY <1>3, AccountReadInv
<1>4. CASE Commit(r)
  BY <1>4, CommitInv
<1>5. QED
  BY <1>1, <1>2, <1>3, <1>4, ReadingInv DEF Step

LEMMA NextInv == Inv /\ [Next]_vars => Inv'
<1> SUFFICES ASSUME Inv, [Next]_vars PROVE Inv'
  OBVIOUS
<1>1. ASSUME NEW r \in Req, Arrival(r) \/ Step(r) PROVE Inv'
  BY <1>1, ArrivalInv, StepInv
<1>2. ASSUME NEW r \in Req, Fail(r) PROVE Inv'
  BY <1>2, AnswerInv DEF Fail
<1>3. ASSUME NEW t \in Token, TokenExpires(t) PROVE Inv'
  BY <1>3, ExpiryInv DEF TokenExpires, challenges, Inv, TypeOK
<1>4. ASSUME NEW s \in Sid, ChallengeExpires(s) PROVE Inv'
  BY <1>4, ExpiryInv DEF ChallengeExpires, Inv, TypeOK
<1>5. CASE UNCHANGED vars
  BY <1>5, ExpiryInv DEF vars, account, sessions, Inv, TypeOK
<1>6. QED
  BY <1>1, <1>2, <1>3, <1>4, <1>5 DEF Next

\* The inductive invariant holds in every reachable state.
THEOREM Invariance == Spec => []Inv
BY InitInv, NextInv, PTL DEF Spec

\* The variables keep their types, whatever the number of users and tokens.
THEOREM TypeCorrect == Spec => []TypeOK
<1>1. Inv => TypeOK
  BY DEF Inv
<1>2. QED
  BY <1>1, Invariance, PTL

\* A refresh token or challenge whose use was acknowledged opens no session
\* for a request that arrives later.
THEOREM SpentTheorem == Spec => []SpentCredentialRefused
<1>1. Inv => SpentCredentialRefused
  BY DEF Inv, Shape, ShapeOf, FlagsHold, FlagsOf, SpentCredentialRefused
<1>2. QED
  BY <1>1, Invariance, PTL

\* After a committed block no password login and no refresh that arrives
\* obtains a session, until an unblock is committed.
THEOREM BlockedTheorem == Spec => []BlockedCannotRenew
<1>1. Inv => BlockedCannotRenew
  BY DEF Inv, Shape, ShapeOf, FlagsHold, FlagsOf, BlockedCannotRenew
<1>2. QED
  BY <1>1, Invariance, PTL

\* While the second factor is on, a password alone opens no session.
THEOREM SecondFactorTheorem == Spec => []SecondFactorRequired
<1>1. Inv => SecondFactorRequired
  BY DEF Inv, Shape, ShapeOf, FlagsHold, FlagsOf, SecondFactorRequired
<1>2. QED
  BY <1>1, Invariance, PTL

-----------------------------------------------------------------------------
(* Careful logins: one login, one live session row.                          *)

\* Every token descends from a login whose own token was handed out too.
RootsAreIssued == \A t \in Token : owner[t] # None => root[t] # None /\ owner[root[t]] # None

\* Two refreshes in flight never hold tokens of one careful login.
OneHolder ==
  \A p, q \in Req :
    /\ p # q /\ req[p].op = "refresh" /\ req[q].op = "refresh"
    /\ root[req[p].tok] \in Careful
    => root[req[p].tok] # root[req[q].tok]

\* When a refresh of a careful login commits, the login has no row but the one
\* the refresh found; a logout may have taken that one meanwhile.
RefreshHoldsRow ==
  \A r \in Req :
    req[r].op = "refresh" /\ req[r].at # "read" /\ root[req[r].tok] \in Careful =>
      \A t \in rows : root[t] = root[req[r].tok] => t = req[r].tok

CarefulInv == RootsAreIssued /\ OneHolder /\ RefreshHoldsRow /\ OneLivePerLogin

LEMMA CarefulInit == Init => CarefulInv
BY DEF Init, CarefulInv, RootsAreIssued, OneHolder, RefreshHoldsRow, OneLivePerLogin, Idle

\* Arrivals are the only steps that add a holder.
LEMMA CarefulArrival ==
  ASSUME Inv, CarefulInv, NEW r \in Req, Arrival(r)
  PROVE  CarefulInv'
<1> USE DEF Inv, CarefulInv
<1>1. ASSUME NEW op, NEW u, NEW s, NEW t \in Token \cup {None}, NEW late,
             Arrive(r, op, u, s, t, late),
             op = "refresh" /\ root[t] \in Careful => RefreshAlone(t)
      PROVE  CarefulInv'
  <2>1. /\ req'[r].op = op /\ req'[r].tok = t /\ req'[r].at = "read"
        /\ \A p \in Req \ {r} : req'[p] = req[p]
        /\ UNCHANGED <<rows, owner, root>>
    BY <1>1 DEF Arrive, TypeOK, sessions
  <2>2. op = "refresh" /\ root[t] \in Careful =>
          \A p \in Req \ {r} : req[p].op = "refresh" => root[req[p].tok] # root[t]
    BY <1>1 DEF RefreshAlone
  <2>3. RootsAreIssued' /\ OneLivePerLogin'
    BY <2>1 DEF RootsAreIssued, OneLivePerLogin
  <2>4. OneHolder'
    BY <2>1, <2>2 DEF OneHolder
  <2>5. RefreshHoldsRow'
    BY <2>1 DEF RefreshHoldsRow
  <2>6. QED
    BY <2>3, <2>4, <2>5
<1>2. ASSUME NEW u \in User, LoginArrive(r, u) PROVE CarefulInv'
  BY <1>1, <1>2 DEF LoginArrive
<1>3. ASSUME NEW s \in Sid, VerifyArrive(r, s) PROVE CarefulInv'
  BY <1>1, <1>3 DEF VerifyArrive
<1>4. ASSUME NEW t \in Token, RefreshArrive(r, t) PROVE CarefulInv'
  BY <1>1, <1>4 DEF RefreshArrive
<1>5. ASSUME NEW t \in Token, LogoutArrive(r, t) PROVE CarefulInv'
  BY <1>1, <1>5 DEF LogoutArrive
<1>6. ASSUME NEW u \in User, NEW op \in AccountOps, AccountArrive(r, op, u) PROVE CarefulInv'
  BY <1>1, <1>6, OpsAssumption DEF AccountArrive
<1>7. QED
  BY <1>2, <1>3, <1>4, <1>5, <1>6 DEF Arrival

\* A step that commits nothing: holders stay, or let go, and a refresh that
\* goes past its first read has found its row.
LEMMA CarefulMove ==
  ASSUME Inv, CarefulInv, NEW r \in Req,
         \A p \in Req \ {r} : req'[p] = req[p],
         \/ req'[r] = Idle
         \/ /\ req'[r].op = req[r].op /\ req'[r].tok = req[r].tok
            /\ req[r].op = "refresh" /\ req[r].at = "read" => req[r].tok \in rows,
         UNCHANGED <<rows, owner, root>>
  PROVE  CarefulInv'
<1>1. req'[r].op = "none" \/ (req'[r].op = req[r].op /\ req'[r].tok = req[r].tok)
  BY DEF Idle
<1>2. OneHolder'
  BY <1>1 DEF CarefulInv, OneHolder
<1>3. RefreshHoldsRow'
  <2>1. ASSUME req'[r].op = "refresh", root[req[r].tok] \in Careful
        PROVE  \A t \in rows : root[t] = root[req[r].tok] => t = req[r].tok \/ req'[r].at = "read"
    BY <2>1 DEF CarefulInv, RefreshHoldsRow, OneLivePerLogin, Idle
  <2>2. QED
    BY <1>1, <2>1 DEF CarefulInv, RefreshHoldsRow
<1>4. QED
  BY <1>2, <1>3 DEF CarefulInv, RootsAreIssued, OneLivePerLogin

LEMMA CommitKeepsOthers ==
  ASSUME TypeOK, NEW r \in Req, Commit(r)
  PROVE  /\ req'[r].tok = None /\ req'[r].op = "none"
         /\ \A p \in Req \ {r} : /\ req'[p].op = req[p].op /\ req'[p].at = req[p].at
                                 /\ req'[p].tok = req[p].tok
<1>1. req'[r] = Idle
  BY DEF Commit, Release
<1>2. ASSUME NEW p \in Req \ {r}
      PROVE  req'[p].op = req[p].op /\ req'[p].at = req[p].at /\ req'[p].tok = req[p].tok
  <2>1. req[p] \in Request
    BY DEF TypeOK
  <2>2. QED
    BY <2>1 DEF Commit, Release, Request
<1>3. QED
  BY <1>1, <1>2 DEF Idle

LEMMA CarefulCommit ==
  ASSUME Inv, CarefulInv, NEW r \in Req, Commit(r)
  PROVE  CarefulInv'
<1> USE DEF Inv, CarefulInv
<1> DEFINE q == req[r]
<1>1. q \in Request /\ ShapeOf(q) /\ q.at = "commit" /\ HeldOf(q, sidLive)
  BY DEF Commit, TypeOK, Shape, HeldIsKnown
<1>2. /\ req'[r].tok = None /\ req'[r].op = "none"
      /\ \A p \in Req \ {r} : /\ req'[p].op = req[p].op /\ req'[p].at = req[p].at
                              /\ req'[p].tok = req[p].tok
  BY CommitKeepsOthers
<1>3. q.new # None => q.new \in Token /\ owner[q.new] = None
  BY <1>1 DEF NewIsFresh, Request
<1>4. \A t \in Token : owner[t] # None => root'[t] = root[t] /\ owner'[t] # None
  BY <1>3, NoneAssumption DEF Commit, TypeOK
<1>5. \A p \in Req : req[p].op = "refresh" => req[p].tok \in Token /\ owner[req[p].tok] # None
  BY DEF HeldIsKnown, HeldOf, TypeOK, Request, Shape, ShapeOf
<1>6. OneHolder'
  BY <1>2, <1>4, <1>5 DEF OneHolder
<1>7. RefreshHoldsRow'
  <2>1. ASSUME NEW p \in Req \ {r}, req[p].op = "refresh", req[p].at # "read",
               root'[req[p].tok] \in Careful, NEW t \in rows', root'[t] = root'[req[p].tok]
        PROVE  t = req[p].tok
    <3> DEFINE c == root[req[p].tok]
    <3>1. c = root'[req[p].tok] /\ owner[c] # None
      BY <1>4, <1>5, <2>1 DEF RootsAreIssued
    <3>2. CASE t \in rows
      <4>1. root'[t] = root[t]
        BY <1>4, <3>2 DEF RowsAreIssued, TypeOK
      <4>2. QED
        BY <2>1, <3>1, <3>2, <4>1 DEF RefreshHoldsRow
    <3>3. CASE t \notin rows
      <4>1. t = q.new /\ q.new # None
        BY <3>3 DEF Commit, RowsAfter
      <4>2. root'[t] = IF q.op = "refresh" THEN root[q.tok] ELSE q.new
        BY <1>3, <4>1 DEF Commit, TypeOK
      <4>3. q.op = "refresh" => root[q.tok] # c
        BY <2>1, <3>1 DEF OneHolder
      <4>4. QED
        BY <1>3, <2>1, <3>1, <4>1, <4>2, <4>3
    <3>4. QED
      BY <3>2, <3>3
  <2>2. QED
    BY <1>2, <2>1 DEF RefreshHoldsRow
<1>8. CASE q.new = None
  <2>1. rows' = rows \ {q.tok} /\ owner' = owner /\ root' = root
    BY <1>8, NoneAssumption DEF Commit, RowsAfter, TypeOK
  <2>2. QED
    BY <1>6, <1>7, <2>1 DEF RootsAreIssued, OneLivePerLogin
<1>9. CASE q.new # None
  <2>1. /\ rows' = (rows \ {q.tok}) \cup {q.new}
        /\ owner'[q.new] # None
        /\ root'[q.new] = IF q.op = "refresh" THEN root[q.tok] ELSE q.new
    BY <1>1, <1>3, <1>9, NoneAssumption DEF Commit, RowsAfter, TypeOK, ShapeOf
  <2>2. q.op = "refresh" =>
          /\ q.tok \in Token /\ owner[q.tok] # None
          /\ root[q.tok] \in Careful => \A t \in rows : root[t] = root[q.tok] => t = q.tok
    BY <1>1, <1>5 DEF RefreshHoldsRow
  <2>3. RootsAreIssued'
    BY <1>3, <1>4, <2>1, <2>2, <1>9 DEF RootsAreIssued, TypeOK, Commit
  <2>4. \A t \in rows \ {q.tok} :
          root'[t] = root[t] /\ (root[t] \in Careful => root[t] # root'[q.new])
    <3>1. ASSUME NEW t \in rows \ {q.tok}
          PROVE  root'[t] = root[t] /\ (root[t] \in Careful => root[t] # root'[q.new])
      <4>1. t \in Token /\ owner[t] # None /\ owner[root[t]] # None
        BY DEF RowsAreIssued, RootsAreIssued, TypeOK
      <4>2. root[t] # q.new
        BY <4>1, <1>3, <1>9
      <4>3. q.op = "refresh" /\ root[t] \in Careful => root[t] # root[q.tok]
        BY <2>2, <3>1
      <4>4. QED
        BY <1>4, <2>1, <4>1, <4>2, <4>3
    <3>2. QED
      BY <3>1
  <2>5. OneLivePerLogin'
    BY <2>1, <2>4 DEF OneLivePerLogin
  <2>6. QED
    BY <1>6, <1>7, <2>3, <2>5
<1>10. QED
  BY <1>8, <1>9

LEMMA CarefulNext == Inv /\ CarefulInv /\ [Next]_vars => CarefulInv'
<1> SUFFICES ASSUME Inv, CarefulInv, [Next]_vars PROVE CarefulInv'
  OBVIOUS
<1>1. ASSUME NEW r \in Req, Step(r) \/ Fail(r) PROVE CarefulInv'
  <2>1. req[r] \in Request /\ req \in [Req -> Request]
    BY DEF Inv, TypeOK
  <2>2. ASSUME NEW at, Goto(r, at)
        PROVE  /\ \A p \in Req \ {r} : req'[p] = req[p]
               /\ req'[r].op = req[r].op /\ req'[r].tok = req[r].tok
    BY <2>1, <2>2 DEF Goto, Request
  <2>3. ASSUME Answer(r)
        PROVE  req'[r] = Idle /\ \A p \in Req \ {r} : req'[p] = req[p]
    BY <2>1, <2>3 DEF Answer
  <2>4. CASE LoginRead(r) \/ VerifyRead(r) \/ VerifyCode(r) \/ VerifyDiscard(r) \/ LogoutRead(r)
    BY <2>2, <2>3, <2>4, CarefulMove
    DEF LoginRead, VerifyRead, VerifyCode, VerifyDiscard, LogoutRead, At, sessions
  <2>5. CASE RefreshRead(r) \/ RefreshUser(r)
    BY <2>2, <2>3, <2>5, CarefulMove DEF RefreshRead, RefreshUser, At, sessions
  <2>6. CASE LoginChallenge(r) \/ Fail(r)
    BY <2>3, <2>6, CarefulMove DEF LoginChallenge, Fail, sessions
  <2>7. CASE OpenSession(r) \/ RefreshRotate(r)
    <3>1. PICK n \in Fresh : req' = [req EXCEPT ![r].new = n, ![r].at = "commit"]
      BY <2>7 DEF OpenSession, RefreshRotate
    <3>2. /\ \A p \in Req \ {r} : req'[p] = req[p]
          /\ req'[r].op = req[r].op /\ req'[r].tok = req[r].tok
      BY <2>1, <3>1 DEF Request
    <3>3. QED
      BY <2>7, <3>2, CarefulMove DEF OpenSession, RefreshRotate, At, sessions
  <2>8. CASE AccountRead(r)
    <3>1. CASE Answer(r)
      BY <2>3, <2>8, <3>1, CarefulMove DEF AccountRead, sessions
    <3>2. CASE ~Answer(r)
      <4>1. PICK w : req' = [req EXCEPT ![r].at = "commit", ![r].write = w]
        BY <2>8, <3>2 DEF AccountRead
      <4>2. /\ \A p \in Req \ {r} : req'[p] = req[p]
            /\ req'[r].op = req[r].op /\ req'[r].tok = req[r].tok
        BY <2>1, <4>1 DEF Request
      <4>3. QED
        BY <2>8, <4>2, CarefulMove, OpsAssumption DEF AccountRead, sessions
    <3>3. QED
      BY <3>1, <3>2
  <2>9. CASE Commit(r)
    BY <2>9, CarefulCommit
  <2>10. QED
    BY <1>1, <2>4, <2>5, <2>6, <2>7, <2>8, <2>9 DEF Step
<1>2. ASSUME UNCHANGED <<rows, owner, root, req>> PROVE CarefulInv'
  BY <1>2 DEF CarefulInv, RootsAreIssued, OneHolder, RefreshHoldsRow, OneLivePerLogin
<1>3. CASE \E t \in Token : TokenExpires(t)
  BY <1>2, <1>3 DEF TokenExpires, sessions
<1>4. CASE \E s \in Sid : ChallengeExpires(s)
  BY <1>2, <1>4 DEF ChallengeExpires, sessions
<1>5. CASE UNCHANGED vars
  BY <1>2, <1>5 DEF vars
<1>6. QED
  BY <1>1, <1>3, <1>4, <1>5, CarefulArrival DEF Next

\* A careful login never has two live session rows, whatever the others do.
THEOREM OneLiveTheorem == Spec => []OneLivePerLogin
<1>1. Inv /\ CarefulInv /\ [Next]_vars => CarefulInv'
  BY CarefulNext
<1>2. CarefulInv => OneLivePerLogin
  BY DEF CarefulInv
<1>3. QED
  BY <1>1, <1>2, CarefulInit, Invariance, PTL DEF Spec

-----------------------------------------------------------------------------
(* The sessions of the careful logins implement the abstract chains.         *)

\* The live token of a chain is the one row that descends from its login.
LiveTokens(R, rt, live) ==
  \A c \in Careful :
    /\ \A t \in R : rt[t] = c => live[c] = t
    /\ (\A t \in R : rt[t] # c) => live[c] = None

Live == [c \in Token |-> IF c \in Careful THEN LiveToken(c) ELSE None]

\* The tokens the abstract chains have handed out.
Used == {t \in Issued : root[t] \in Careful}

LEMMA LiveTokenIs == TypeOK /\ OneLivePerLogin => LiveTokens(rows, root, Live)
<1> SUFFICES ASSUME TypeOK, OneLivePerLogin, NEW c \in Careful
             PROVE  /\ \A t \in rows : root[t] = c => LiveToken(c) = t
                    /\ (\A t \in rows : root[t] # c) => LiveToken(c) = None
  BY CarefulAssumption DEF LiveTokens, Live
<1>1. ASSUME NEW t \in rows, root[t] = c PROVE LiveToken(c) = t
  <2> DEFINE u == CHOOSE t1 \in rows : root[t1] = c
  <2>1. u \in rows /\ root[u] = c
    BY <1>1
  <2>2. u = t
    BY <1>1, <2>1 DEF OneLivePerLogin
  <2>3. LiveToken(c) = u
    BY <1>1 DEF LiveToken
  <2>4. QED
    BY <2>2, <2>3
<1>2. (\A t \in rows : root[t] # c) => LiveToken(c) = None
  BY DEF LiveToken
<1>3. QED
  BY <1>1, <1>2

LEMMA ChainInit == Init => Chain!Init
BY DEF Init, Chain!Init, LiveToken, Issued, Renewing, Idle

LEMMA ChainStutter ==
  ASSUME UNCHANGED <<rows, owner, root>>, Renewing' = Renewing PROVE UNCHANGED Chain!vars
BY DEF Chain!vars, LiveToken, Issued

\* A refresh that finds its row begins a renewal, one that is refused or fails
\* later gives it up, and the other steps before the commit are no one's.
LEMMA ChainMove ==
  ASSUME Inv, CarefulInv, NEW r \in Req, LiveTokens(rows, root, Live),
         \A p \in Req \ {r} : req'[p] = req[p],
         \/ req'[r] = Idle
         \/ /\ req'[r].op = req[r].op /\ req'[r].tok = req[r].tok
            /\ req[r].op = "refresh" /\ req'[r].at # "read" /\ req[r].at = "read" => req[r].tok \in rows
            /\ req[r].op = "refresh" /\ req[r].at # "read" => req'[r].at # "read",
         UNCHANGED <<rows, owner, root>>
  PROVE  [Chain!Next]_(Chain!vars)
<1> USE DEF Inv, CarefulInv
<1> DEFINE c == root[req[r].tok]
           Before == req[r].op = "refresh" /\ req[r].at # "read"
           After == req'[r].op = "refresh" /\ req'[r].at # "read"
<1>1. Renewing = {d \in Careful : \/ Before /\ c = d
                                  \/ \E p \in Req \ {r} : req[p].op = "refresh" /\ req[p].at # "read"
                                                           /\ root[req[p].tok] = d}
  BY DEF Renewing
<1>2. After => req'[r].op = req[r].op /\ req'[r].tok = req[r].tok
  BY DEF Idle
<1>3. Renewing' = {d \in Careful : \/ After /\ c = d
                                   \/ \E p \in Req \ {r} : req[p].op = "refresh" /\ req[p].at # "read"
                                                            /\ root[req[p].tok] = d}
  BY <1>2 DEF Renewing
<1>4. Live' = Live /\ Used' = Used
  BY DEF Live, LiveToken, Used, Issued
<1>5. CASE c \in Careful /\ ~Before /\ After
  <2>1. req[r].op = "refresh" /\ req[r].at = "read" /\ req[r].tok \in rows
    BY <1>5 DEF Idle
  <2>2. c \notin Renewing
    BY <1>1, <1>5, <2>1 DEF OneHolder
  <2>3. Renewing' = Renewing \cup {c}
    BY <1>1, <1>3, <1>5
  <2>4. Live[c] = req[r].tok
    BY <1>5, <2>1 DEF LiveTokens
  <2>5. Live[c] # None /\ c \in Token
    BY <1>5, <2>1, <2>4, NoneAssumption, CarefulAssumption DEF TypeOK
  <2> HIDE DEF c, Before, After
  <2>6. QED
    BY <1>4, <2>2, <2>3, <2>5 DEF Chain!Next, Chain!Begin, Live, Used
<1>6. CASE c \in Careful /\ Before /\ ~After
  <2>1. c \in Renewing /\ c \in Token
    BY <1>1, <1>6, CarefulAssumption
  <2>2. \A p \in Req \ {r} : req[p].op = "refresh" => root[req[p].tok] # c
    BY <1>6 DEF OneHolder
  <2>3. Renewing' = Renewing \ {c}
    BY <1>1, <1>3, <1>6, <2>2
  <2> HIDE DEF c, Before, After
  <2>4. QED
    BY <1>4, <2>1, <2>3 DEF Chain!Next, Chain!GiveUp, Live, Used
<1>7. CASE c \notin Careful \/ (Before <=> After)
  <2>1. Renewing' = Renewing
    BY <1>1, <1>3, <1>7
  <2>2. QED
    BY <2>1, ChainStutter
<1>8. QED
  BY <1>5, <1>6, <1>7

\* A committed login or verification opens a chain, a refresh renews one that
\* may have been closed since it began, and a logout closes one or finds nothing.
LEMMA ChainCommit ==
  ASSUME Inv, CarefulInv, NEW r \in Req, Commit(r),
         LiveTokens(rows, root, Live), LiveTokens(rows', root', Live')
  PROVE  [Chain!Next]_(Chain!vars)
<1> USE DEF Inv, CarefulInv
<1> DEFINE q == req[r]
<1>1. q \in Request /\ ShapeOf(q) /\ q.at = "commit" /\ HeldOf(q, sidLive)
  BY DEF Commit, TypeOK, Shape, HeldIsKnown
<1>2. rows \subseteq Token /\ \A t \in rows : root[t] \in Token /\ owner[t] # None
  BY DEF TypeOK, RowsAreIssued, RootsAreIssued
<1>3. /\ DOMAIN Live = Token /\ DOMAIN Live' = Token
      /\ Live = [c \in Token |-> Live[c]] /\ Live' = [c \in Token |-> Live'[c]]
  BY DEF Live
<1>a. /\ q.op # "refresh" => Renewing' = Renewing
      /\ q.op = "refresh" => /\ Renewing' = Renewing \ {root[q.tok]}
                             /\ root[q.tok] \in Careful => root[q.tok] \in Renewing
  <2>1. /\ req'[r].op = "none"
        /\ \A p \in Req \ {r} : /\ req'[p].op = req[p].op /\ req'[p].at = req[p].at
                                /\ req'[p].tok = req[p].tok
    BY CommitKeepsOthers
  <2>2. \A p \in Req : req[p].op = "refresh" => req[p].tok \in Token /\ owner[req[p].tok] # None
    BY DEF HeldIsKnown, HeldOf, TypeOK, Request, Shape, ShapeOf
  <2>3. \A t \in Token : owner[t] # None => root'[t] = root[t]
    <3>1. q.new # None => owner[q.new] = None
      BY DEF NewIsFresh
    <3>2. QED
      BY <3>1, NoneAssumption DEF Commit, TypeOK
  <2>4. Renewing' = {d \in Careful : \E p \in Req \ {r} :
                       req[p].op = "refresh" /\ req[p].at # "read" /\ root[req[p].tok] = d}
    BY <2>1, <2>2, <2>3 DEF Renewing
  <2>5. q.op # "refresh" => Renewing' = Renewing
    BY <2>4 DEF Renewing
  <2>6. ASSUME q.op = "refresh"
        PROVE  /\ Renewing' = Renewing \ {root[q.tok]}
               /\ root[q.tok] \in Careful => root[q.tok] \in Renewing
    <3>1. \A p \in Req \ {r} : req[p].op = "refresh" /\ root[req[p].tok] \in Careful =>
            root[req[p].tok] # root[q.tok]
      BY <2>6 DEF OneHolder
    <3>2. QED
      BY <1>1, <2>4, <2>6, <3>1 DEF Renewing
  <2>7. QED
    BY <2>5, <2>6
<1>b. q.new = None => q.op # "refresh"
  BY <1>1 DEF ShapeOf
<1>4. CASE q.new = None /\ q.tok \notin rows
  <2>1. UNCHANGED <<rows, owner, root>>
    BY <1>4, NoneAssumption DEF Commit, RowsAfter, TypeOK
  <2>2. QED
    BY <1>4, <1>a, <1>b, <2>1, ChainStutter
<1>5. CASE q.new = None /\ q.tok \in rows
  <2> DEFINE c == root[q.tok]
  <2>1. rows' = rows \ {q.tok} /\ owner' = owner /\ root' = root
    BY <1>5, <1>2, NoneAssumption DEF Commit, RowsAfter, TypeOK
  <2>2. c \in Token /\ q.tok # None
    BY <1>2, <1>5, NoneAssumption DEF TypeOK
  <2>3. \A d \in Careful \ {c} : Live'[d] = Live[d]
    BY <2>1, <1>5 DEF LiveTokens
  <2>4. \A d \in Token \ {c} : Live'[d] = Live[d]
    BY <2>3 DEF Live
  <2>5. Used' = Used
    BY <2>1 DEF Used, Issued
  <2>6. CASE c \notin Careful
    <3>1. Live'[c] = Live[c]
      BY <2>2, <2>6 DEF Live
    <3>2. Live' = Live
      BY <1>3, <2>4, <3>1
    <3>3. QED
      BY <1>5, <1>a, <1>b, <2>5, <3>2 DEF Chain!vars, Live, Used
  <2>7. CASE c \in Careful
    <3>1. Live[c] = q.tok
      BY <1>5, <2>7 DEF LiveTokens
    <3>2. Live'[c] = None
      BY <2>1, <2>2, <2>7, <1>5 DEF LiveTokens, OneLivePerLogin
    <3>3. Live' = [Live EXCEPT ![c] = None]
      BY <1>3, <2>2, <2>4, <3>2
    <3>4. Live[c] # None
      BY <2>2, <3>1
    <3> HIDE DEF c
    <3>5. QED
      BY <1>5, <1>a, <1>b, <2>2, <2>5, <3>3, <3>4 DEF Chain!Next, Chain!Close, Live, Used
  <2>8. QED
    BY <2>6, <2>7
<1>6. CASE q.new # None
  <2> DEFINE c == root'[q.new]
             n == q.new
  <2>1. n \in Token /\ n \notin Issued /\ Issued' = Issued \cup {n}
    <3>1. n \in Token /\ owner[n] = None
      BY <1>1, <1>6 DEF NewIsFresh, Request
    <3>2. q.user \in User
      BY <1>1 DEF ShapeOf, Idle
    <3>3. owner' = [owner EXCEPT ![n] = q.user]
      BY <3>1 DEF Commit, TypeOK
    <3>4. QED
      BY <3>1, <3>2, <3>3, NoneAssumption DEF Issued, TypeOK
  <2>2. /\ rows' = (rows \ {q.tok}) \cup {n}
        /\ \A t \in Issued : root'[t] = root[t]
        /\ q.op = "refresh" => q.tok \in Issued /\ c = root[q.tok]
        /\ q.op # "refresh" => q.tok = None /\ c = n
    BY <1>1, <1>6, <2>1, NoneAssumption
    DEF Commit, RowsAfter, TypeOK, ShapeOf, HeldOf, Issued, Request
  <2>3. c \in Token
    BY <2>1, <2>2 DEF RootsAreIssued, Issued, TypeOK
  <2>4. \A t \in rows : t \in Issued
    BY <1>2 DEF Issued
  <2>5. \A d \in Careful \ {c} : Live'[d] = Live[d]
    <3>1. \A t \in rows' : t = n \/ (t \in rows /\ root'[t] = root[t])
      BY <2>2, <2>4
    <3>2. \A t \in rows : t \in rows' \/ root[t] = c
      BY <2>2, <2>4, NoneAssumption DEF Issued
    <3>3. QED
      BY <2>2, <2>4, <3>1, <3>2 DEF LiveTokens
  <2>6. \A d \in Token \ {c} : Live'[d] = Live[d]
    BY <2>5 DEF Live
  <2>7. Used' = Used \cup (IF c \in Careful THEN {n} ELSE {})
    BY <2>1, <2>2 DEF Used
  <2>8. CASE c \notin Careful
    <3>1. Live'[c] = Live[c]
      BY <2>3, <2>8 DEF Live
    <3>2. Live' = Live
      BY <1>3, <2>6, <3>1
    <3>3. Renewing' = Renewing
      BY <1>a, <2>2, <2>8 DEF Renewing
    <3>4. QED
      BY <2>7, <2>8, <3>2, <3>3 DEF Chain!vars, Live, Used
  <2>9. CASE c \in Careful
    <3>1. n \notin Used /\ Used' = Used \cup {n}
      BY <2>1, <2>7, <2>9 DEF Used
    <3>2. Live'[c] = n
      BY <2>2, <2>9 DEF LiveTokens
    <3>3. Live' = [Live EXCEPT ![c] = n]
      BY <1>3, <2>3, <2>6, <3>2
    <3>4. CASE q.op = "refresh"
      <4>1. c \in Renewing /\ Renewing' = Renewing \ {c}
        BY <1>a, <2>2, <2>9, <3>4
      <4> HIDE DEF c, n
      <4>2. QED
        BY <2>1, <2>3, <3>1, <3>3, <4>1 DEF Chain!Next, Chain!Renew, Chain!HandOut, Live, Used
    <3>5. CASE q.op # "refresh"
      <4>1. c = n
        BY <2>2, <3>5
      <4>2. Renewing' = Renewing
        BY <1>a, <3>5
      <4> HIDE DEF c, n
      <4>3. QED
        BY <2>1, <2>3, <3>1, <3>3, <4>1, <4>2 DEF Chain!Next, Chain!Open, Chain!HandOut, Live, Used
    <3>6. QED
      BY <3>4, <3>5
  <2>10. QED
    BY <2>8, <2>9
<1>7. QED
  BY <1>4, <1>5, <1>6

\* The steps before the commit, for the chains.
LEMMA ChainStep ==
  ASSUME Inv, CarefulInv, NEW r \in Req, LiveTokens(rows, root, Live),
         Arrival(r) \/ (Step(r) /\ ~Commit(r)) \/ Fail(r)
  PROVE  [Chain!Next]_(Chain!vars)
<1>1. req[r] \in Request /\ req \in [Req -> Request]
  BY DEF Inv, TypeOK
<1>2. ASSUME NEW at, Goto(r, at)
      PROVE  /\ \A p \in Req \ {r} : req'[p] = req[p]
             /\ req'[r].op = req[r].op /\ req'[r].tok = req[r].tok /\ req'[r].at = at
  BY <1>1, <1>2 DEF Goto, Request
<1>3. ASSUME Answer(r)
      PROVE  req'[r] = Idle /\ \A p \in Req \ {r} : req'[p] = req[p]
  BY <1>1, <1>3 DEF Answer
<1>4. CASE Arrival(r)
  <2>1. /\ UNCHANGED <<rows, owner, root>> /\ req[r] = Idle /\ req'[r].at = "read"
        /\ \A p \in Req \ {r} : req'[p] = req[p]
    BY <1>1, <1>4 DEF Arrival, LoginArrive, VerifyArrive, RefreshArrive, LogoutArrive,
                      AccountArrive, Arrive, sessions
  <2>2. Renewing' = Renewing
    BY <2>1 DEF Renewing, Idle
  <2>3. QED
    BY <2>1, <2>2, ChainStutter
<1>5. CASE LoginRead(r) \/ VerifyRead(r) \/ VerifyCode(r) \/ VerifyDiscard(r) \/ LogoutRead(r)
  BY <1>2, <1>3, <1>5, ChainMove
  DEF LoginRead, VerifyRead, VerifyCode, VerifyDiscard, LogoutRead, At, sessions
<1>6. CASE RefreshRead(r) \/ RefreshUser(r)
  BY <1>2, <1>3, <1>6, ChainMove DEF RefreshRead, RefreshUser, At, sessions
<1>7. CASE LoginChallenge(r) \/ Fail(r)
  BY <1>3, <1>7, ChainMove DEF LoginChallenge, Fail, sessions
<1>8. CASE OpenSession(r) \/ RefreshRotate(r)
  <2>1. PICK n \in Fresh : req' = [req EXCEPT ![r].new = n, ![r].at = "commit"]
    BY <1>8 DEF OpenSession, RefreshRotate
  <2>2. /\ \A p \in Req \ {r} : req'[p] = req[p]
        /\ req'[r].op = req[r].op /\ req'[r].tok = req[r].tok /\ req'[r].at = "commit"
    BY <1>1, <2>1 DEF Request
  <2>3. QED
    BY <1>8, <2>2, ChainMove DEF OpenSession, RefreshRotate, At, sessions
<1>9. CASE AccountRead(r)
  <2>1. CASE Answer(r)
    BY <1>3, <1>9, <2>1, ChainMove DEF AccountRead, sessions
  <2>2. CASE ~Answer(r)
    <3>1. PICK w : req' = [req EXCEPT ![r].at = "commit", ![r].write = w]
      BY <1>9, <2>2 DEF AccountRead
    <3>2. /\ \A p \in Req \ {r} : req'[p] = req[p]
          /\ req'[r].op = req[r].op /\ req'[r].tok = req[r].tok
      BY <1>1, <3>1 DEF Request
    <3>3. QED
      BY <1>9, <3>2, ChainMove, OpsAssumption DEF AccountRead, sessions
  <2>3. QED
    BY <2>1, <2>2
<1>10. QED
  BY <1>4, <1>5, <1>6, <1>7, <1>8, <1>9 DEF Step

\* Careful logins are chains of tokens: opened once, renewed one refresh at a time, and
\* closed by a logout for good unless a refresh was past its read, whatever the other
\* logins and the account switches do meanwhile.
THEOREM ChainTheorem == Spec => ChainRefinement
<1>1. Inv /\ CarefulInv /\ [Next]_vars => CarefulInv'
  BY CarefulNext
<1>2. TypeOK /\ OneLivePerLogin => LiveTokens(rows, root, Live)
  BY LiveTokenIs
<1>3. /\ Inv /\ CarefulInv /\ [Next]_vars
      /\ LiveTokens(rows, root, Live) /\ LiveTokens(rows, root, Live)'
      => [Chain!Next]_(Chain!vars)
  <2> SUFFICES ASSUME Inv, CarefulInv, [Next]_vars,
                      LiveTokens(rows, root, Live), LiveTokens(rows, root, Live)'
               PROVE  [Chain!Next]_(Chain!vars)
    OBVIOUS
  <2>1. ASSUME NEW r \in Req, Commit(r) PROVE [Chain!Next]_(Chain!vars)
    BY <2>1, ChainCommit
  <2>2. ASSUME NEW r \in Req, Arrival(r) \/ (Step(r) /\ ~Commit(r)) \/ Fail(r)
        PROVE  [Chain!Next]_(Chain!vars)
    BY <2>2, ChainStep
  <2>3. ASSUME UNCHANGED <<rows, owner, root, req>> PROVE UNCHANGED Chain!vars
    BY <2>3, ChainStutter DEF Renewing
  <2>4. CASE \E t \in Token : TokenExpires(t)
    BY <2>3, <2>4 DEF TokenExpires, sessions
  <2>5. CASE \E s \in Sid : ChallengeExpires(s)
    BY <2>3, <2>5 DEF ChallengeExpires, sessions
  <2>6. CASE UNCHANGED vars
    BY <2>3, <2>6 DEF vars
  <2>7. QED
    BY <2>1, <2>2, <2>4, <2>5, <2>6 DEF Next
<1>4. Inv => TypeOK
  BY DEF Inv
<1>5. CarefulInv => OneLivePerLogin
  BY DEF CarefulInv
<1>6. QED
  BY <1>1, <1>2, <1>3, <1>4, <1>5, CarefulInit, ChainInit, Invariance, PTL
  DEF Spec, ChainRefinement, Chain!Spec

\* A careful login that was logged out while no refresh of it was past its read never has
\* a row again, whatever is sent later (logout_user, the read of refresh_tokens).
THEOREM LogoutFinalTheorem == Spec => Chain!StaysClosed
<1> DEFINE Kept(c) == c \in Used \ Renewing /\ Live[c] = None => Live'[c] = None /\ c \notin Renewing'
<1>1. ASSUME [Chain!Next]_(Chain!vars), NEW c \in Token PROVE Kept(c)
  <2> DEFINE live == Live
             liveN == Live'
             used == Used
             usedN == Used'
             renewing == Renewing
             renewingN == Renewing'
  <2>1. DOMAIN live = Token
    BY DEF Live
  <2>2. \/ live = liveN /\ renewing = renewingN
        \/ \E d \in Token :
             \/ d \notin used /\ liveN = [live EXCEPT ![d] = d] /\ renewing = renewingN
             \/ live[d] # None /\ live = liveN /\ renewingN = renewing \cup {d}
             \/ d \in renewing /\ renewingN = renewing \ {d}
                /\ \E n \in Token : liveN = [live EXCEPT ![d] = n]
             \/ live = liveN /\ renewingN = renewing \ {d}
             \/ liveN = [live EXCEPT ![d] = None] /\ renewing = renewingN
    BY <1>1 DEF Chain!Next, Chain!vars, Chain!Open, Chain!Begin, Chain!Renew, Chain!GiveUp,
                Chain!Close, Chain!HandOut, Live, Used
  <2> HIDE DEF live, liveN, used, usedN, renewing, renewingN
  <2>3. c \in used \ renewing /\ live[c] = None => liveN[c] = None /\ c \notin renewingN
    BY <2>1, <2>2
  <2>4. QED
    BY <2>3 DEF live, liveN, used, renewing, renewingN
<1>2. [Chain!Next]_(Chain!vars) => [\A c \in Used \ Renewing : Live[c] = None =>
                                      Live'[c] = None /\ c \notin Renewing']_(Chain!vars)
  BY <1>1 DEF Used, Issued
<1>3. QED
  BY <1>2, ChainTheorem, PTL DEF ChainRefinement, Chain!Spec, Chain!StaysClosed, Live, Used

-----------------------------------------------------------------------------
(* Every login, careful or not, in the abstract table.                       *)

LEMMA TableInit == Init => Table!Init
BY DEF Init, Table!Init

LEMMA TableCommit ==
  ASSUME Inv, NEW r \in Req, Commit(r) PROVE [Table!Next]_(Table!vars)
<1> USE DEF Inv
<1> DEFINE q == req[r]
<1>1. q \in Request /\ ShapeOf(q) /\ HeldOf(q, sidLive) /\ q.op # "none"
  BY DEF Commit, TypeOK, Shape, HeldIsKnown, ShapeOf, Idle
<1>2. CASE q.new = None /\ q.tok \notin rows
  <2>1. rows' = rows /\ owner' = owner
    BY <1>2, NoneAssumption DEF Commit, RowsAfter, TypeOK
  <2>2. QED
    BY <2>1 DEF Table!vars
<1>3. CASE q.new = None /\ q.tok \in rows
  <2>1. rows' = rows \ {q.tok} /\ owner' = owner /\ q.tok \in Token
    BY <1>3, NoneAssumption DEF Commit, RowsAfter, TypeOK
  <2>2. Table!Close(q.tok)
    BY <1>3, <2>1 DEF Table!Close
  <2>3. QED
    BY <2>1, <2>2 DEF Table!Next
<1>4. CASE q.new # None
  <2>1. PICK n \in Token : n = q.new /\ owner[n] = None
    BY <1>1, <1>4 DEF NewIsFresh, Request
  <2>2. PICK u \in User : u = q.user
    BY <1>1 DEF ShapeOf
  <2>3. owner' = [owner EXCEPT ![n] = u] /\ rows' = (rows \ {q.tok}) \cup {n}
    BY <1>4, <2>1, <2>2 DEF Commit, RowsAfter, TypeOK
  <2>4. CASE q.tok = None
    <3>1. rows' = (rows \ {}) \cup {n}
      BY <2>3, <2>4, NoneAssumption DEF TypeOK
    <3>2. Table!HandOut(u, {})
      BY <2>1, <2>3, <3>1 DEF Table!HandOut
    <3>3. QED
      BY <3>2 DEF Table!Next, Table!Open
  <2>5. CASE q.tok # None
    <3>1. PICK t \in Token : t = q.tok
      BY <1>1, <2>5 DEF Request
    <3>2. owner[t] # None /\ owner[t] = u
      BY <1>1, <2>2, <2>5, <3>1 DEF HeldOf
    <3>3. Table!HandOut(owner[t], {t})
      BY <2>1, <2>3, <3>1, <3>2 DEF Table!HandOut
    <3>4. QED
      BY <3>2, <3>3 DEF Table!Next, Table!Renew
  <2>6. QED
    BY <2>4, <2>5
<1>5. QED
  BY <1>2, <1>3, <1>4

\* The sessions table keeps a token with the user who logged in, through every
\* renewal, and never takes a replaced or logged out token back, whatever
\* requests overlap (refresh_tokens, logout_user, get_db's commit).
THEOREM TableTheorem == Spec => TableRefinement
<1>1. ASSUME Inv, [Next]_vars PROVE [Table!Next]_(Table!vars)
  <2>1. ASSUME NEW r \in Req, Commit(r) PROVE [Table!Next]_(Table!vars)
    BY <1>1, <2>1, TableCommit
  <2>2. CASE UNCHANGED <<rows, owner>>
    BY <2>2 DEF Table!vars
  <2>3. ASSUME NEW r \in Req, Arrival(r) PROVE UNCHANGED <<rows, owner>>
    BY <2>3 DEF Arrival, LoginArrive, VerifyArrive, RefreshArrive, LogoutArrive,
                AccountArrive, Arrive, sessions
  <2>4. ASSUME NEW r \in Req, Step(r) \/ Fail(r), ~Commit(r) PROVE UNCHANGED <<rows, owner>>
    BY <2>4 DEF Step, LoginRead, LoginChallenge, OpenSession, VerifyRead, VerifyCode,
                VerifyDiscard, RefreshRead, RefreshUser, RefreshRotate, LogoutRead,
                AccountRead, Fail, sessions
  <2>5. ASSUME NEW t \in Token, TokenExpires(t) PROVE UNCHANGED <<rows, owner>>
    BY <2>5 DEF TokenExpires, sessions
  <2>6. ASSUME NEW s \in Sid, ChallengeExpires(s) PROVE UNCHANGED <<rows, owner>>
    BY <2>6 DEF ChallengeExpires, sessions
  <2>7. ASSUME UNCHANGED vars PROVE UNCHANGED <<rows, owner>>
    BY <2>7 DEF vars
  <2>8. QED
    BY <1>1, <2>1, <2>2, <2>3, <2>4, <2>5, <2>6, <2>7 DEF Next
<1>2. QED
  BY <1>1, TableInit, Invariance, PTL DEF Spec, TableRefinement, Table!Spec

\* What the table means for the holder of a token: it keeps its user, and once
\* replaced or logged out it never has a row again (every /refresh looks for one).
THEOREM NoReturnTheorem == Spec => Table!NoReturn
<1> DEFINE Kept(t) == owner[t] # None => owner'[t] = owner[t] /\ (t \in rows' => t \in rows)
<1>1. ASSUME TypeOK, Table!Next, NEW t \in Token PROVE Kept(t)
  <2>1. ASSUME NEW u \in User \cup {None}, NEW old \in SUBSET Token, Table!HandOut(u, old) PROVE Kept(t)
    BY <1>1, <2>1 DEF Table!HandOut, TypeOK
  <2>2. CASE \E u \in User : Table!Open(u)
    BY <2>1, <2>2 DEF Table!Open
  <2>3. ASSUME NEW k \in Token, Table!Renew(k) PROVE Kept(t)
    BY <1>1, <2>1, <2>3 DEF Table!Renew, TypeOK
  <2>4. ASSUME NEW k \in Token, Table!Close(k) PROVE Kept(t)
    BY <2>4 DEF Table!Close
  <2>5. QED
    BY <1>1, <2>2, <2>3, <2>4 DEF Table!Next
<1>2. TypeOK /\ [Table!Next]_(Table!vars) => [\A t \in Token : Kept(t)]_(Table!vars)
  BY <1>1
<1>3. QED
  BY <1>2, TableTheorem, TypeCorrect, PTL DEF TableRefinement, Table!Spec, Table!NoReturn
=============================================================================
