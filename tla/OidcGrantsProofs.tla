-------------------------- MODULE OidcGrantsProofs --------------------------
(***************************************************************************)
(* Proofs about OidcGrants, for every number of users, clients, grants and *)
(* requests: the safety properties that hold whatever the clients do, and  *)
(* the refinement of GrantBook by the grants of those clients that present *)
(* a grant in one request at a time.                                       *)
(***************************************************************************)
EXTENDS OidcGrants, TLAPS

\* A request past the payload checks: its grant has left Redis.
Checked(q) == q.at \in {"user", "store"} \/ (q.op = "refresh" /\ q.at = "client")

\* What the place of a request says about its record, when "here" is in Redis.
ReqOK(q, here) ==
  /\ q.op = "none" => q = Idle
  /\ q.op # "none" => q.user \in User
  /\ q.at \in {"client", "user", "store"} => q.op \in {"authorize", "exchange", "refresh"}
  /\ q.at \in {"get", "delete"} => q.op \in {"exchange", "refresh", "revoke"}
  /\ q.op \in {"authorize", "exchange", "refresh"} => q.client \in Client
  /\ q.op \in {"exchange", "refresh", "revoke"} <=> q.grant # None
  /\ q.grant # None => q.grant \in Issued /\ q.user = book[q.grant].user
  /\ q.op = "revoke" => book[q.grant].kind = "refresh"
  /\ q.grant # None /\ Checked(q) =>
       q.client = book[q.grant].client /\ q.grant \notin here
  /\ q.late => q.grant \in spent /\ ~Checked(q) /\ q.at # "delete"
  /\ q.barred => q.user \in blocked /\ q.at # "store"

Inv ==
  /\ TypeOK
  /\ GrantsStayBound
  /\ spent \cap live = {} /\ spent \subseteq Issued /\ live \subseteq Issued
  /\ \A r \in Req : ReqOK(req[r], live)

-----------------------------------------------------------------------------

LEMMA InitInv == Init => Inv
BY NoneAssumption
DEF Init, Inv, TypeOK, Request, Idle, ReqOK, Checked, GrantsStayBound, Issued

\* A step that replaces one request's record and may remove grants from Redis.
LEMMA ReplaceRequest ==
  ASSUME Inv, NEW r \in Req, NEW q \in Request, ReqOK(q, live'),
         req' = [req EXCEPT ![r] = q],
         UNCHANGED <<blocked, book, spent>>, live' \subseteq live
  PROVE  Inv'
<1>1. \A p \in Req : req'[p] = IF p = r THEN q ELSE req[p]
  BY DEF Inv, TypeOK
<1>2. \A p \in Req : ReqOK(req[p], live)'
  BY <1>1 DEF Inv, ReqOK, Checked, Issued
<1>3. TypeOK'
  BY DEF Inv, TypeOK
<1>4. QED
  BY <1>2, <1>3 DEF Inv, GrantsStayBound, Issued

LEMMA IdleOK == Idle \in Request /\ \A here : ReqOK(Idle, here)
BY NoneAssumption DEF Idle, Request, ReqOK, Checked

LEMMA IdleOKNext == (\A here : ReqOK(Idle, here))'
BY NoneAssumption DEF Idle, ReqOK, Checked

\* A request is answered and its grant is spent; the others are not affected.
LEMMA SpendOK ==
  ASSUME Inv, NEW r \in Req, Answer(r), UNCHANGED <<blocked, book>>,
         live' \subseteq live, spent \subseteq spent'
  PROVE  \A p \in Req : ReqOK(req[p], live)'
<1>1. \A p \in Req : req'[p] = IF p = r THEN Idle ELSE req[p]
  BY DEF Answer, Inv, TypeOK
<1>2. ASSUME NEW p \in Req \ {r} PROVE ReqOK(req[p], live)'
  <2>1. req'[p] = req[p] /\ ReqOK(req[p], live)
    BY <1>1 DEF Inv
  <2>2. QED
    BY <2>1 DEF ReqOK, Checked, Issued
<1>3. ReqOK(req[r], live)'
  BY <1>1, IdleOKNext
<1>4. QED
  BY <1>2, <1>3

LEMMA AnswerInv ==
  ASSUME Inv, NEW r \in Req, Answer(r), UNCHANGED <<blocked, book, spent>>, live' \subseteq live
  PROVE  Inv'
BY IdleOK, ReplaceRequest DEF Answer

LEMMA GotoInv ==
  ASSUME Inv, NEW r \in Req, NEW at \in {"client", "get", "delete", "user", "store"},
         Goto(r, at), ReqOK([req[r] EXCEPT !.at = at], live'),
         UNCHANGED <<blocked, book, spent>>, live' \subseteq live
  PROVE  Inv'
<1> DEFINE q == [req[r] EXCEPT !.at = at]
<1>1. q \in Request
  BY DEF Inv, TypeOK, Request
<1>2. req' = [req EXCEPT ![r] = q]
  BY DEF Goto, Inv, TypeOK
<1> HIDE DEF q
<1>3. QED
  BY <1>1, <1>2, ReplaceRequest DEF q

-----------------------------------------------------------------------------

LEMMA ArriveInv ==
  ASSUME Inv, NEW r \in Req, NEW op \in {"authorize", "exchange", "refresh", "revoke"},
         NEW at \in {"client", "get"}, NEW u \in User, NEW c \in Client \cup {None},
         NEW g \in Grant \cup {None}, NEW proof \in BOOLEAN,
         at = "client" <=> op \in {"authorize", "exchange"},
         op # "revoke" => c \in Client,
         op # "authorize" <=> g # None,
         g # None => g \in Issued /\ u = book[g].user,
         op = "revoke" => book[g].kind = "refresh",
         Arrive(r, op, at, u, c, g, proof)
  PROVE  Inv'
<1> DEFINE q == [op |-> op, at |-> at, user |-> u, client |-> c, grant |-> g,
                 proof |-> proof, late |-> g \in spent, barred |-> u \in blocked]
<1>1. q \in Request
  BY DEF Request
<1>2. ReqOK(q, live')
  BY DEF ReqOK, Checked
<1>3. req' = [req EXCEPT ![r] = q] /\ UNCHANGED <<blocked, book, live, spent>>
  BY DEF Arrive
<1> HIDE DEF q
<1>4. QED
  BY <1>1, <1>2, <1>3, ReplaceRequest

LEMMA ArrivalInv == ASSUME Inv, NEW r \in Req, Arrival(r) PROVE Inv'
<1>1. ASSUME NEW g \in Issued PROVE g \in Grant /\ g # None /\ book[g] \in Payload /\ book[g].user \in User
  BY <1>1, NoneAssumption DEF Issued, Inv, TypeOK, Payload
<1>2. ASSUME NEW u \in User, NEW c \in Client, Authorize(r, u, c) PROVE Inv'
  BY <1>2, ArriveInv DEF Authorize
<1>3. ASSUME NEW g \in Grant, NEW c \in Client, NEW proof \in BOOLEAN, Exchange(r, g, c, proof)
      PROVE  Inv'
  BY <1>1, <1>3, ArriveInv DEF Exchange, Present
<1>4. ASSUME NEW g \in Grant, NEW c \in Client, Refresh(r, g, c) PROVE Inv'
  BY <1>1, <1>4, ArriveInv DEF Refresh, Present
<1>5. ASSUME NEW g \in Grant, Revoke(r, g) PROVE Inv'
  BY <1>1, <1>5, ArriveInv DEF Revoke, Present
<1>6. QED
  BY <1>2, <1>3, <1>4, <1>5 DEF Arrival

LEMMA CheckClientInv == ASSUME Inv, NEW r \in Req, CheckClient(r) PROVE Inv'
<1>1. req[r] \in Request /\ ReqOK(req[r], live)
  BY DEF Inv, TypeOK
<1>2. ASSUME NEW at \in {"get", "user"}, Goto(r, at), at = "get" <=> req[r].op = "exchange"
      PROVE  Inv'
  <2>1. ReqOK([req[r] EXCEPT !.at = at], live)
    BY <1>1, <1>2, NoneAssumption DEF CheckClient, ReqOK, Checked, Request, Inv, Issued
  <2>2. QED
    BY <1>2, <2>1, GotoInv DEF CheckClient
<1>3. QED
  BY <1>2, AnswerInv DEF CheckClient

LEMMA GetInv == ASSUME Inv, NEW r \in Req, Get(r) PROVE Inv'
<1>1. req[r] \in Request /\ ReqOK(req[r], live)
  BY DEF Inv, TypeOK
<1>2. CASE Found(req[r]) /\ Goto(r, "delete") /\ UNCHANGED spent
  <2>1. ReqOK([req[r] EXCEPT !.at = "delete"], live)
    BY <1>1, <1>2 DEF Get, Found, Inv, ReqOK, Checked, Request
  <2>2. QED
    BY <1>2, <2>1, GotoInv DEF Get
<1>3. CASE /\ ~Found(req[r]) /\ Answer(r)
           /\ spent' = IF req[r].op = "revoke" THEN spent \cup {req[r].grant} ELSE spent
  <2>1. CASE req[r].op # "revoke"
    BY <1>3, <2>1, AnswerInv DEF Get
  <2>2. CASE req[r].op = "revoke"
    <3>1. req[r].grant \in Issued /\ req[r].grant \notin live
      BY <1>1, <1>3, <2>2 DEF Found, ReqOK
    <3>3. spent' = spent \cup {req[r].grant} /\ UNCHANGED <<blocked, book, live>>
      BY <1>3, <2>2 DEF Get
    <3>4. TypeOK'
      BY <1>3, <3>1, <3>3, IdleOK DEF Inv, TypeOK, Answer, Issued
    <3>5. \A p \in Req : ReqOK(req[p], live)'
      BY <1>3, <3>3, SpendOK
    <3>6. QED
      BY <3>1, <3>3, <3>4, <3>5 DEF Inv, GrantsStayBound, Issued
  <2>3. QED
    BY <2>1, <2>2
<1>4. QED
  BY <1>2, <1>3 DEF Get

LEMMA DeleteInv == ASSUME Inv, NEW r \in Req, Delete(r) PROVE Inv'
<1> DEFINE q == req[r]
<1>1. q \in Request /\ ReqOK(q, live) /\ q.at = "delete"
  BY DEF Delete, Inv, TypeOK
<1>2. live' = live \ {q.grant} /\ UNCHANGED <<blocked, book>>
  BY DEF Delete
<1>3. CASE q.op = "revoke" /\ Answer(r) /\ spent' = spent \cup {q.grant}
  <2>1. q.grant \in Issued
    BY <1>1, <1>3 DEF ReqOK
  <2>3. TypeOK'
    BY <1>2, <1>3, <2>1, IdleOK DEF Inv, TypeOK, Answer, Issued
  <2>4. \A p \in Req : ReqOK(req[p], live)'
    BY <1>2, <1>3, SpendOK
  <2>5. QED
    BY <1>2, <1>3, <2>1, <2>3, <2>4 DEF Inv, GrantsStayBound, Issued
<1>4. ASSUME NEW at \in {"client", "user"}, Goto(r, at), q.op # "revoke", UNCHANGED spent,
             q.client = book[q.grant].client, at = "client" <=> q.op = "refresh"
      PROVE  Inv'
  <2>1. ReqOK([q EXCEPT !.at = at], live')
    BY <1>1, <1>2, <1>4 DEF ReqOK, Checked, Request
  <2>2. QED
    BY <1>2, <1>4, <2>1, GotoInv
<1>5. CASE Answer(r) /\ UNCHANGED spent
  BY <1>2, <1>5, AnswerInv
<1>6. QED
  BY <1>3, <1>4, <1>5 DEF Delete

LEMMA CheckUserInv == ASSUME Inv, NEW r \in Req, CheckUser(r) PROVE Inv'
<1>1. req[r] \in Request /\ ReqOK(req[r], live)
  BY DEF Inv, TypeOK
<1>2. CASE req[r].user \notin blocked /\ Goto(r, "store")
  <2>1. ReqOK([req[r] EXCEPT !.at = "store"], live)
    BY <1>1, <1>2 DEF CheckUser, ReqOK, Checked, Request
  <2>2. QED
    BY <1>2, <2>1, GotoInv DEF CheckUser
<1>3. QED
  BY <1>2, AnswerInv DEF CheckUser

LEMMA StoreInv == ASSUME Inv, NEW r \in Req, Store(r) PROVE Inv'
<1> USE NoneAssumption
<1> DEFINE q == req[r]
<1>1. q \in Request /\ ReqOK(q, live) /\ q.at = "store"
  BY DEF Store, Inv, TypeOK
<1>2. PICK n \in Grant \ Issued :
        /\ book' = [book EXCEPT ![n] =
                     [kind |-> IF q.op = "authorize" THEN "code" ELSE "refresh",
                      user |-> q.user, client |-> q.client, parent |-> q.grant]]
        /\ live' = live \cup {n}
  BY DEF Store
<1>3. spent' = spent \cup ({q.grant} \ {None}) /\ blocked' = blocked
  BY DEF Store
<1>4. /\ book'[n] \in Payload /\ book'[n] # None
      /\ book'[n].user = q.user /\ book'[n].client = q.client /\ book'[n].parent = q.grant
  BY <1>1, <1>2 DEF Inv, TypeOK, ReqOK, Request, Payload
<1>5. \A g \in Grant \ {n} : book'[g] = book[g]
  BY <1>2 DEF Inv, TypeOK
<1>6. Issued' = Issued \cup {n} /\ \A g \in Issued : book'[g] = book[g] /\ g # n
  BY <1>4, <1>5 DEF Issued
<1>7. \A p \in Req : req'[p] = IF p = r THEN Idle ELSE req[p]
  BY DEF Store, Answer, Inv, TypeOK
<1>8. TypeOK'
  BY <1>1, <1>2, <1>3, <1>4, IdleOK DEF Inv, TypeOK, Store, Answer, Request
<1>9. ASSUME NEW p \in Req PROVE ReqOK(req[p], live)'
  <2>1. CASE p = r
    BY <1>7, <2>1, IdleOKNext
  <2>2. CASE p # r
    <3>1. req'[p] = req[p] /\ ReqOK(req[p], live)
      BY <1>7, <2>2 DEF Inv
    <3>2. QED
      BY <1>2, <1>3, <1>6, <3>1 DEF ReqOK, Checked
  <2>3. QED
    BY <2>1, <2>2
<1>10. GrantsStayBound'
  <2>1. q.grant # None => q.grant \in Issued /\ q.user = book[q.grant].user /\ q.client = book[q.grant].client
    BY <1>1 DEF ReqOK, Checked
  <2>2. QED
    BY <1>4, <1>6, <2>1 DEF GrantsStayBound, Inv
<1>11. spent' \cap live' = {} /\ spent' \subseteq Issued' /\ live' \subseteq Issued'
  BY <1>1, <1>2, <1>3, <1>6 DEF Inv, ReqOK, Checked
<1>12. QED
  BY <1>8, <1>9, <1>10, <1>11 DEF Inv

LEMMA UnblockInv == ASSUME Inv, NEW u \in User, Unblock(u) PROVE Inv'
<1>1. ASSUME NEW p \in Req PROVE req'[p] \in Request /\ ReqOK(req[p], live)'
  <2>1. req[p] \in Request /\ ReqOK(req[p], live)
    BY DEF Inv, TypeOK
  <2>2. UNCHANGED <<book, live, spent>> /\ blocked' = blocked \ {u}
    BY DEF Unblock
  <2>3. CASE req[p].user # u
    BY <2>1, <2>2, <2>3 DEF Unblock, ReqOK, Checked, Issued
  <2>4. CASE req[p].user = u
    <3>1. req'[p] = [req[p] EXCEPT !.barred = FALSE]
      BY <2>4 DEF Unblock
    <3>2. req[p].op # "none"
      BY <2>1, <2>4, NoneAssumption DEF ReqOK, Idle
    <3>3. req'[p] \in Request
      BY <2>1, <3>1 DEF Request
    <3>4. ReqOK(req[p], live)'
      BY <2>1, <2>2, <3>1, <3>2 DEF ReqOK, Checked, Issued, Request
    <3>5. QED
      BY <3>3, <3>4
  <2>5. QED
    BY <2>3, <2>4
<1>2. TypeOK'
  BY <1>1 DEF Unblock, Inv, TypeOK
<1>3. QED
  BY <1>1, <1>2 DEF Unblock, Inv, GrantsStayBound, Issued

LEMMA NextInv == Inv /\ [Next]_vars => Inv'
<1> SUFFICES ASSUME Inv, [Next]_vars PROVE Inv'
  OBVIOUS
<1>1. ASSUME NEW r \in Req, Step(r) PROVE Inv'
  BY <1>1, CheckClientInv, GetInv, DeleteInv, CheckUserInv, StoreInv DEF Step
<1>2. ASSUME NEW r \in Req, Fail(r) PROVE Inv'
  BY <1>2, AnswerInv DEF Fail
<1>3. ASSUME NEW g \in Grant, Expire(g) PROVE Inv'
  BY <1>3 DEF Expire, Inv, TypeOK, GrantsStayBound, Issued, ReqOK, Checked
<1>4. ASSUME NEW u \in User, Block(u) PROVE Inv'
  BY <1>4 DEF Block, Inv, TypeOK, GrantsStayBound, Issued, ReqOK, Checked
<1>5. CASE UNCHANGED vars
  BY <1>5 DEF vars, Inv, TypeOK, GrantsStayBound, Issued, ReqOK, Checked
<1>6. QED
  BY <1>1, <1>2, <1>3, <1>4, <1>5, ArrivalInv, UnblockInv DEF Next

\* The inductive invariant holds in every reachable state.
THEOREM Invariance == Spec => []Inv
BY InitInv, NextInv, PTL DEF Spec

\* The variables keep their types; every payload is well formed.
THEOREM TypeCorrect == Spec => []TypeOK
<1>1. Inv => TypeOK
  BY DEF Inv
<1>2. QED
  BY <1>1, Invariance, PTL

\* A spent grant yields nothing to a request that arrives later.
THEOREM SpentTheorem == Spec => []SpentGrantRefused
<1>1. Inv => SpentGrantRefused
  BY DEF Inv, ReqOK, Checked, SpentGrantRefused
<1>2. QED
  BY <1>1, Invariance, PTL

\* What a grant yields is for its own user and client.
THEOREM BoundTheorem == Spec => []GrantsStayBound
<1>1. Inv => GrantsStayBound
  BY DEF Inv
<1>2. QED
  BY <1>1, Invariance, PTL

\* A blocked user's grants yield nothing to requests that arrive after the block.
THEOREM BlockedTheorem == Spec => []BlockedGetsNothing
<1>1. Inv => BlockedGetsNothing
  BY DEF Inv, ReqOK, BlockedGetsNothing
<1>2. QED
  BY <1>1, Invariance, PTL

-----------------------------------------------------------------------------
(* The grants of careful clients: each is in one request at a time.          *)

\* A request has such a grant to itself.
OneRequest ==
  \A p, q \in Req : p # q /\ req[p].grant \in CarefulGrants => req[p].grant # req[q].grant

\* Such a grant has not been used before the request that will use it up.
HeldUnspent ==
  \A r \in Req : Holds(req[r]) /\ req[r].grant \in CarefulGrants => req[r].grant \notin spent

ParentsSpent == \A g \in Issued : book[g].parent # None => book[g].parent \in spent

CarefulInv == OneRequest /\ HeldUnspent /\ ParentsSpent /\ CarefulSingleUse

LEMMA CarefulInit == Init => CarefulInv
BY NoneAssumption
DEF Init, CarefulInv, OneRequest, HeldUnspent, ParentsSpent, CarefulSingleUse, CarefulGrants,
    Idle, Holds, Issued

\* What the abstract book sees: the grants that may be redeemed, and their payloads.
Open == (live \cup Held) \cap CarefulGrants
Shown == [g \in Grant |-> IF g \in CarefulGrants THEN book[g] ELSE None]

\* While the book is unchanged so are the careful grants and what is shown of them.
LEMMA SameBook ==
  ASSUME book' = book
  PROVE  CarefulGrants' = CarefulGrants /\ Issued' = Issued /\ Shown' = Shown
BY DEF CarefulGrants, Issued, Shown

\* A step that mints nothing: no request takes a careful grant another one has,
\* none starts to hold a spent one, and what is spent is not held elsewhere.
LEMMA CarefulMove ==
  ASSUME CarefulInv, NEW r \in Req, book' = book,
         \A p \in Req \ {r} : req'[p] = req[p],
         \A p \in Req \ {r} : req'[r].grant \in CarefulGrants => req[p].grant # req'[r].grant,
         Holds(req'[r]) /\ req'[r].grant \in CarefulGrants => req'[r].grant \notin spent',
         spent' = spent \/ spent' = spent \cup {req[r].grant}
  PROVE  CarefulInv'
<1> USE DEF CarefulInv
<1>1. CarefulGrants' = CarefulGrants /\ Issued' = Issued
  BY SameBook
<1>2. OneRequest'
  BY <1>1 DEF OneRequest
<1>3. HeldUnspent'
  <2>1. ASSUME NEW p \in Req \ {r}, Holds(req[p]), req[p].grant \in CarefulGrants
        PROVE  req[p].grant \notin spent'
    BY <2>1 DEF HeldUnspent, OneRequest
  <2>2. QED
    BY <1>1, <2>1 DEF HeldUnspent, Holds
<1>4. ParentsSpent' /\ CarefulSingleUse'
  BY <1>1 DEF ParentsSpent, CarefulSingleUse
<1>5. QED
  BY <1>2, <1>3, <1>4

LEMMA CarefulArrival ==
  ASSUME Inv, CarefulInv, NEW r \in Req, Arrival(r)
  PROVE  CarefulInv'
<1>1. ASSUME NEW op, NEW at, NEW u, NEW c, NEW g, NEW proof, Arrive(r, op, at, u, c, g, proof),
             g \in CarefulGrants => Alone(g), ~Holds([op |-> op, at |-> at])
      PROVE  CarefulInv'
  <2>1. /\ req'[r].grant = g /\ req'[r].op = op /\ req'[r].at = at
        /\ \A p \in Req \ {r} : req'[p] = req[p]
        /\ UNCHANGED <<book, spent>>
    BY <1>1 DEF Arrive, Inv, TypeOK
  <2>2. ~Holds(req'[r])
    BY <1>1, <2>1 DEF Holds
  <2>3. QED
    BY <1>1, <2>1, <2>2, CarefulMove DEF Alone
<1>2. ASSUME NEW u \in User, NEW c \in Client, Authorize(r, u, c) PROVE CarefulInv'
  BY <1>1, <1>2, NoneAssumption DEF Authorize, Holds, CarefulGrants, Issued
<1>3. ASSUME NEW g \in Grant, NEW c \in Client, NEW proof \in BOOLEAN, Exchange(r, g, c, proof)
      PROVE  CarefulInv'
  BY <1>1, <1>3 DEF Exchange, Present, Holds, CarefulGrants
<1>4. ASSUME NEW g \in Grant, NEW c \in Client, Refresh(r, g, c) PROVE CarefulInv'
  BY <1>1, <1>4 DEF Refresh, Present, Holds, CarefulGrants
<1>5. ASSUME NEW g \in Grant, Revoke(r, g) PROVE CarefulInv'
  BY <1>1, <1>5 DEF Revoke, Present, Holds, CarefulGrants
<1>6. QED
  BY <1>2, <1>3, <1>4, <1>5 DEF Arrival

-----------------------------------------------------------------------------
(* What a request's move does to the grants that may still be redeemed.      *)

LEMMA HeldIs == \A g : g \in Held <=> \E r \in Req : Holds(req[r]) /\ req[r].grant = g
BY DEF Held

LEMMA HeldIsNext ==
  \A g : g \in Held' <=> \E r \in Req : Holds(req'[r]) /\ req'[r].grant = g
BY DEF Held, Holds

\* Losing at most one grant, with the book unchanged, drops it or does nothing.
LEMMA DropOrStutter ==
  ASSUME NEW g, book' = book, Open \ {g} \subseteq Open', Open' \subseteq Open
  PROVE  [Book!Next]_(Book!vars)
<1>1. CASE Open' = Open
  BY <1>1, SameBook DEF Book!vars, Open, Shown
<1>2. CASE Open' # Open
  <2>1. g \in Open /\ Open' = Open \ {g}
    BY <1>2
  <2>2. g \in Grant
    BY <2>1 DEF Open, CarefulGrants, Issued
  <2>3. QED
    BY <2>1, <2>2, SameBook DEF Book!Next, Book!Drop, Open, Shown
<1>3. QED
  BY <1>1, <1>2

\* What a step that mints nothing may do to one request and to its grant.
LEMMA BookMove ==
  ASSUME NEW r \in Req, book' = book,
         \A p \in Req \ {r} : req'[p] = req[p],
         live \ {req[r].grant} \subseteq live', live' \subseteq live,
         Holds(req'[r]) => req'[r].grant \in live \cup Held
  PROVE  [Book!Next]_(Book!vars)
<1>1. Open' \subseteq Open
  BY HeldIs, HeldIsNext, SameBook DEF Open
<1>2. Open \ {req[r].grant} \subseteq Open'
  BY HeldIs, HeldIsNext, SameBook DEF Open
<1>3. QED
  BY <1>1, <1>2, DropOrStutter

LEMMA AnswerCareful ==
  ASSUME Inv, CarefulInv, NEW r \in Req, Answer(r), book' = book,
         spent' = spent \/ spent' = spent \cup {req[r].grant},
         live \ {req[r].grant} \subseteq live', live' \subseteq live
  PROVE  CarefulInv' /\ [Book!Next]_(Book!vars)
<1>1. req'[r] = Idle /\ \A p \in Req \ {r} : req'[p] = req[p]
  BY DEF Answer, Inv, TypeOK
<1>2. ~Holds(req'[r]) /\ req'[r].grant \notin CarefulGrants
  BY <1>1, NoneAssumption DEF Holds, Idle, CarefulGrants, Issued
<1>3. QED
  BY <1>1, <1>2, CarefulMove, BookMove

LEMMA GotoCareful ==
  ASSUME Inv, CarefulInv, NEW r \in Req, NEW at, Goto(r, at), UNCHANGED <<book, spent>>,
         live \ {req[r].grant} \subseteq live', live' \subseteq live,
         Holds([req[r] EXCEPT !.at = at]) => Holds(req[r]) \/ req[r].grant \in live
  PROVE  CarefulInv' /\ [Book!Next]_(Book!vars)
<1>1. /\ req'[r] = [req[r] EXCEPT !.at = at] /\ req'[r].grant = req[r].grant
      /\ \A p \in Req \ {r} : req'[p] = req[p]
  BY DEF Goto, Inv, TypeOK, Request
<1>2. Holds(req'[r]) => Holds(req[r]) \/ req[r].grant \in live
  BY <1>1
<1>3. Holds(req'[r]) => req'[r].grant \in live \cup Held
  BY <1>1, <1>2, HeldIs
<1>4. Holds(req'[r]) /\ req'[r].grant \in CarefulGrants => req'[r].grant \notin spent
  BY <1>1, <1>2 DEF CarefulInv, HeldUnspent, Inv
<1>5. \A p \in Req \ {r} : req'[r].grant \in CarefulGrants => req[p].grant # req'[r].grant
  BY <1>1 DEF CarefulInv, OneRequest
<1>6. QED
  BY <1>1, <1>3, <1>4, <1>5, CarefulMove, BookMove

-----------------------------------------------------------------------------
(* Minting: the only step that writes the book.                              *)

LEMMA StoreCareful ==
  ASSUME Inv, CarefulInv, NEW r \in Req, Store(r)
  PROVE  CarefulInv' /\ [Book!Next]_(Book!vars)
<1> USE NoneAssumption
<1> DEFINE q == req[r]
<1> DEFINE info == [kind |-> IF q.op = "authorize" THEN "code" ELSE "refresh",
                    user |-> q.user, client |-> q.client, parent |-> q.grant]
<1>1. q \in Request /\ ReqOK(q, live) /\ q.at = "store"
  BY DEF Store, Inv, TypeOK
<1>2. PICK n \in Grant \ Issued : book' = [book EXCEPT ![n] = info] /\ live' = live \cup {n}
  BY DEF Store
<1>3. spent' = spent \cup ({q.grant} \ {None}) /\ blocked' = blocked
  BY DEF Store
<1>4. req'[r] = Idle /\ \A p \in Req \ {r} : req'[p] = req[p]
  BY DEF Store, Answer, Inv, TypeOK
<1>5. info \in Payload /\ q.client \in Client /\ q.user \in User
  BY <1>1 DEF Payload, ReqOK, Request
<1>6. q.grant # None =>
        Holds(q) /\ q.grant \in Issued /\ q.client = book[q.grant].client
        /\ q.user = book[q.grant].user /\ q.grant \notin live
  BY <1>1 DEF ReqOK, Holds, Checked
<1>7. book'[n] = info /\ \A g \in Grant \ {n} : book'[g] = book[g]
  BY <1>2 DEF Inv, TypeOK
<1> HIDE DEF info
<1>8. Issued' = Issued \cup {n}
  BY <1>5, <1>7 DEF Issued
<1>9. info.parent = q.grant /\ info.client = q.client
  BY DEF info
<1>10. CarefulGrants' = CarefulGrants \cup (IF q.client \in Careful THEN {n} ELSE {})
  BY <1>2, <1>7, <1>8, <1>9 DEF CarefulGrants, Issued
<1>11. \A g \in CarefulGrants : g # n /\ g \in Issued
  BY <1>2 DEF CarefulGrants
<1>12. \A p \in Req : req[p].grant # n
  BY <1>2 DEF Inv, ReqOK, Issued
<1>13. \A p \in Req \ {r} : req[p].grant \in CarefulGrants => req[p].grant # q.grant
  BY DEF CarefulInv, OneRequest
<1>14. q.grant \in CarefulGrants => q.grant \notin spent
  BY <1>6, <1>11 DEF CarefulInv, HeldUnspent, Issued
<1>15. CarefulInv'
  <2>1. OneRequest'
    <3>1. None \notin CarefulGrants'
      BY <1>2, <1>10 DEF CarefulGrants, Issued
    <3>2. \A p, s \in Req \ {r} : p # s /\ req[p].grant \in CarefulGrants' => req[p].grant # req[s].grant
      BY <1>10, <1>12 DEF CarefulInv, OneRequest
    <3>3. \A p \in Req \ {r} : req[p].grant \in CarefulGrants' => req[p].grant # None
      BY <3>1
    <3>4. QED
      BY <1>4, <3>1, <3>2, <3>3 DEF OneRequest, Idle
  <2>2. HeldUnspent'
    BY <1>3, <1>4, <1>10, <1>12, <1>13 DEF CarefulInv, HeldUnspent, Holds, Idle
  <2>3. ParentsSpent'
    BY <1>2, <1>3, <1>7, <1>8, <1>9 DEF CarefulInv, ParentsSpent, Issued
  <2>4. CarefulSingleUse'
    <3>1. CASE q.client \notin Careful
      BY <1>7, <1>10, <1>11, <3>1 DEF CarefulInv, CarefulSingleUse, Issued
    <3>2. CASE q.client \in Careful
      <4>1. q.grant # None => q.grant \in CarefulGrants
        BY <1>6, <3>2 DEF CarefulGrants
      <4>2. \A g \in CarefulGrants : book[g].parent # None => book[g].parent # q.grant
        BY <1>11, <1>14, <4>1 DEF CarefulInv, ParentsSpent
      <4>3. \A g \in CarefulGrants : book'[g] = book[g]
        BY <1>7, <1>11 DEF Issued
      <4>4. QED
        BY <1>7, <1>9, <1>10, <4>2, <4>3 DEF CarefulInv, CarefulSingleUse
    <3>3. QED
      BY <3>1, <3>2
  <2>5. QED
    BY <2>1, <2>2, <2>3, <2>4 DEF CarefulInv
<1>16. \A g \in CarefulGrants : g \in Held' <=> g \in Held /\ g # q.grant
  <2>1. ~Holds(req'[r])
    BY <1>4 DEF Holds, Idle
  <2>2. QED
    BY <1>4, <1>13, <2>1, HeldIs, HeldIsNext
<1>17. CASE q.client \notin Careful
  <2>1. CarefulGrants' = CarefulGrants /\ q.grant \notin CarefulGrants
    BY <1>6, <1>10, <1>17 DEF CarefulGrants, Issued
  <2>2. Shown' = Shown
    BY <1>7, <1>11, <2>1 DEF Shown
  <2>3. Open' = Open
    BY <1>2, <1>11, <1>16, <2>1 DEF Open
  <2>4. QED
    BY <1>15, <2>2, <2>3 DEF Book!vars, Shown, Open
<1>18. CASE q.client \in Careful
  <2>1. n \notin CarefulGrants /\ CarefulGrants' = CarefulGrants \cup {n} /\ Shown[n] = None
    BY <1>10, <1>11, <1>18 DEF Shown
  <2>2. Shown' = [Shown EXCEPT ![n] = info]
    BY <1>7, <2>1 DEF Shown
  <2>3. Open' = (Open \ {q.grant}) \cup {n}
    <3>1. q.grant \notin live
      BY <1>6 DEF Inv, TypeOK
    <3>2. QED
      BY <1>2, <1>16, <2>1, <3>1 DEF Open
  <2>4. CASE q.op = "authorize"
    <3>1. q.grant = None
      BY <1>1, <2>4 DEF ReqOK
    <3>2. info = [kind |-> "code", user |-> q.user, client |-> q.client, parent |-> None]
      BY <2>4, <3>1 DEF info
    <3>3. Open' = Open \cup {n}
      BY <2>3, <3>1 DEF Open, CarefulGrants, Issued
    <3> HIDE DEF q
    <3>4. Book!Issue(n, q.user, q.client)
      BY <2>1, <2>2, <3>2, <3>3 DEF Book!Issue, Book!Enter, Open, Shown
    <3>5. QED
      BY <1>5, <1>15, <3>4 DEF Book!Next
  <2>5. CASE q.op # "authorize"
    <3> DEFINE g == q.grant
    <3>1. g # None
      BY <1>1, <2>5 DEF ReqOK
    <3>2. g \in CarefulGrants /\ g \in Open
      BY <1>6, <1>18, <3>1, HeldIs DEF CarefulGrants, Open
    <3>3. g \in Grant /\ Shown[g] = book[g]
      BY <3>2 DEF CarefulGrants, Issued, Shown
    <3>4. info = [kind |-> "refresh", user |-> Shown[g].user, client |-> Shown[g].client,
                  parent |-> g]
      BY <1>6, <2>5, <3>1, <3>3 DEF info
    <3> HIDE DEF g
    <3>5. Open' = (Open \ {g}) \cup {n}
      BY <2>3 DEF g
    <3>6. Book!Redeem(g, n)
      BY <2>1, <2>2, <3>2, <3>4, <3>5 DEF Book!Redeem, Book!Enter, Open, Shown
    <3>7. QED
      BY <1>15, <3>3, <3>6 DEF Book!Next
  <2>6. QED
    BY <2>4, <2>5
<1>19. QED
  BY <1>17, <1>18

-----------------------------------------------------------------------------

LEMMA StepCareful ==
  ASSUME Inv, CarefulInv, NEW r \in Req, Step(r) \/ Fail(r)
  PROVE  CarefulInv' /\ [Book!Next]_(Book!vars)
<1>1. req[r] \in Request /\ ReqOK(req[r], live)
  BY DEF Inv, TypeOK
<1>2. CASE CheckClient(r)
  <2>1. Holds([req[r] EXCEPT !.at = IF req[r].op = "exchange" THEN "get" ELSE "user"]) => Holds(req[r])
    BY <1>1, <1>2 DEF CheckClient, ReqOK, Holds, Request
  <2>2. QED
    BY <1>2, <2>1, AnswerCareful, GotoCareful DEF CheckClient
<1>3. CASE Get(r)
  <2>1. CASE Found(req[r])
    BY <1>3, <2>1, GotoCareful DEF Get, Found
  <2>2. CASE ~Found(req[r])
    BY <1>3, <2>2, AnswerCareful DEF Get
  <2>3. QED
    BY <2>1, <2>2
<1>4. CASE Delete(r)
  <2>1. req[r].op # "revoke" => Holds(req[r])
    BY <1>1, <1>4 DEF Delete, ReqOK, Holds
  <2>2. QED
    BY <1>4, <2>1, AnswerCareful, GotoCareful DEF Delete
<1>5. CASE CheckUser(r)
  <2>1. Holds([req[r] EXCEPT !.at = "store"]) => Holds(req[r])
    BY <1>1, <1>5 DEF CheckUser, Holds, Request
  <2>2. QED
    BY <1>5, <2>1, AnswerCareful, GotoCareful DEF CheckUser
<1>6. CASE Fail(r)
  BY <1>6, AnswerCareful DEF Fail
<1>7. QED
  BY <1>2, <1>3, <1>4, <1>5, <1>6, StoreCareful DEF Step

LEMMA ArrivalBook == ASSUME Inv, NEW r \in Req, Arrival(r) PROVE [Book!Next]_(Book!vars)
<1>1. /\ \A p \in Req \ {r} : req'[p] = req[p]
      /\ ~Holds(req'[r]) /\ UNCHANGED <<book, live>>
  BY DEF Arrival, Authorize, Exchange, Refresh, Revoke, Arrive, Holds, Inv, TypeOK
<1>2. QED
  BY <1>1, BookMove

\* Time to live and the account's switches: a grant may be lost, no more.
LEMMA SurroundingsCareful ==
  ASSUME Inv, CarefulInv, NEW g, UNCHANGED <<book, spent>>,
         live \ {g} \subseteq live', live' \subseteq live,
         \A p \in Req : /\ req'[p].op = req[p].op /\ req'[p].at = req[p].at
                       /\ req'[p].grant = req[p].grant
  PROVE  CarefulInv' /\ [Book!Next]_(Book!vars)
<1>1. CarefulInv'
  BY SameBook DEF CarefulInv, OneRequest, HeldUnspent, ParentsSpent, CarefulSingleUse, Holds
<1>2. \A h : h \in Held' <=> h \in Held
  BY HeldIs, HeldIsNext DEF Holds
<1>3. Open \ {g} \subseteq Open' /\ Open' \subseteq Open
  BY <1>2, SameBook DEF Open
<1>4. QED
  BY <1>1, <1>3, DropOrStutter

LEMMA CarefulNext ==
  Inv /\ CarefulInv /\ [Next]_vars => CarefulInv' /\ [Book!Next]_(Book!vars)
<1> SUFFICES ASSUME Inv, CarefulInv, [Next]_vars
             PROVE  CarefulInv' /\ [Book!Next]_(Book!vars)
  OBVIOUS
<1>1. ASSUME NEW r \in Req, Arrival(r) PROVE CarefulInv' /\ [Book!Next]_(Book!vars)
  BY <1>1, CarefulArrival, ArrivalBook
<1>2. ASSUME NEW g \in Grant, Expire(g) PROVE CarefulInv' /\ [Book!Next]_(Book!vars)
  BY <1>2, SurroundingsCareful DEF Expire
<1>3. ASSUME NEW u \in User, Block(u) PROVE CarefulInv' /\ [Book!Next]_(Book!vars)
  BY <1>3, SurroundingsCareful DEF Block
<1>4. ASSUME NEW u \in User, Unblock(u) PROVE CarefulInv' /\ [Book!Next]_(Book!vars)
  <2>1. \A p \in Req : /\ req'[p].op = req[p].op /\ req'[p].at = req[p].at
                       /\ req'[p].grant = req[p].grant
    BY <1>4 DEF Unblock, Inv, TypeOK, Request
  <2>2. QED
    BY <1>4, <2>1, SurroundingsCareful DEF Unblock
<1>5. CASE UNCHANGED vars
  BY <1>5, SurroundingsCareful DEF vars
<1>6. QED
  BY <1>1, <1>2, <1>3, <1>4, <1>5, StepCareful DEF Next

\* A grant for a client that presents it in one request at a time never yields
\* two, whatever the other clients do.
THEOREM SingleUseTheorem == Spec => []CarefulSingleUse
<1>1. Inv /\ CarefulInv /\ [Next]_vars => CarefulInv'
  BY CarefulNext
<1>2. CarefulInv => CarefulSingleUse
  BY DEF CarefulInv
<1>3. QED
  BY <1>1, <1>2, CarefulInit, Invariance, PTL DEF Spec

\* The careful clients' grants, in Redis and in flight, implement the book of
\* single-use grants.
THEOREM BookTheorem == Spec => BookRefinement
<1>1. Init => Book!Init
  BY DEF Init, Book!Init, Held, Holds, Idle, CarefulGrants, Issued
<1>2. Inv /\ CarefulInv /\ [Next]_vars => CarefulInv' /\ [Book!Next]_(Book!vars)
  BY CarefulNext
<1>3. QED
  BY <1>1, <1>2, CarefulInit, Invariance, PTL DEF Spec, BookRefinement, Book!Spec
=============================================================================
