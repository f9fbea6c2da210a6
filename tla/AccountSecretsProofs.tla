------------------------- MODULE AccountSecretsProofs -------------------------
(***************************************************************************)
(* Proof that a reset link keeps its word, that every password set by one  *)
(* is announced, and that the two columns of the second factor agree, for  *)
(* any users, links, secrets and requests, with failures at any place.     *)
(***************************************************************************)
EXTENDS AccountSecrets, TLAPS

Using == {"del", "flush", "mail", "commit"}

\* What a request holds at the place it has reached.
Shaped(q) ==
  /\ q.op = "reset" => /\ q.key \in Link \cap DOMAIN told
                       /\ q.at = "get" \/ q.at \in Using
                       /\ q.at \in Using \ {"del"} => links[q.key] = None
                       /\ q.at = "commit" => <<"changed", q.key>> \in outbox
  /\ q.op = "confirm" => /\ q.key \in Secret
                         /\ q.had /\ ~on[q.who] => q.key \in crossed
  /\ q.op \notin {"none", "reset"} => q.who \in User
  /\ q.at = "store" => q.op = "forgot"
  /\ q.at = "post" => q.op = "forgot" /\ q.key \in Link
  /\ q.at \in {"get", "del", "mail"} => q.op = "reset"
  /\ q.at \in {"pending", "unpend"} => q.op = "confirm"
  /\ q.late => q.at = "get" /\ q.key \in changed

\* A request past its read is the reason why a link is gone.
Uses(q, l) == q.op = "reset" /\ q.key = l /\ q.at \in Using
Accounted(l) ==
  l \in DOMAIN told /\ links[l] = None =>
    l \in changed \cup broken \/ \E r \in Req : Uses(req[r], l)

Inv ==
  /\ TypeOK
  /\ \A r \in Req : Shaped(req[r])
  /\ \A l \in Link : Accounted(l)
  /\ \A l \in changed : l \in DOMAIN told /\ links[l] = None
  /\ ChangeAnnounced
  /\ FactorWhole

-----------------------------------------------------------------------------

LEMMA IdleShaped == Idle \in Request /\ Shaped(Idle)
BY DEF Idle, Request, Shaped

LEMMA InitInv == Init => Inv
<1> SUFFICES ASSUME Init PROVE Inv
  OBVIOUS
<1>1. TypeOK
  BY SecretsAssumption, IdleShaped DEF Init, TypeOK, Ways
<1>2. \A r \in Req : Shaped(req[r])
  BY IdleShaped DEF Init
<1>3. \A l \in Link : Accounted(l)
  BY DEF Init, Accounted
<1>4. QED
  BY <1>1, <1>2, <1>3 DEF Init, Inv, ChangeAnnounced, FactorWhole

\* What a request holds lasts: through every step but one that changes the
\* row of its user under it.
LEMMA ShapedLasts ==
  ASSUME Inv, NEW p \in Req, req'[p] = req[p], UNCHANGED on,
         DOMAIN told \subseteq DOMAIN told', outbox \subseteq outbox',
         changed \subseteq changed', crossed \subseteq crossed',
         \A l \in Link \cap DOMAIN told : links[l] = None => links'[l] = None
  PROVE  Shaped(req[p])'
<1>1. Shaped(req[p])
  BY DEF Inv
<1>2. QED
  BY <1>1 DEF Shaped, Using

\* A step of one request that leaves the row and the links alone.
LEMMA ReplaceRequest ==
  ASSUME Inv, NEW r \in Req, NEW q \in Request, Shaped(q)',
         req' = [req EXCEPT ![r] = q],
         UNCHANGED <<users, links, told, changed, crossed, forced>>,
         broken \subseteq broken', broken' \subseteq Link,
         pending' \in [User -> Secret \cup {None}], edits' \in 0 .. MaxEdits,
         outbox \subseteq outbox', outbox' \subseteq {"asked", "changed"} \X Link,
         \A l \in Link : Uses(req[r], l) =>
           links[l] # None \/ l \in changed \cup broken' \/ Uses(q, l)
  PROVE  Inv'
<1>1. \A p \in Req : req'[p] = IF p = r THEN q ELSE req[p]
  BY DEF Inv, TypeOK
<1>2. TypeOK'
  BY DEF Inv, TypeOK, users
<1>3. \A p \in Req : Shaped(req[p])'
  BY <1>1, ShapedLasts DEF users
<1>4. \A l \in Link : Accounted(l)'
  BY <1>1 DEF Inv, Accounted
<1>5. QED
  BY <1>2, <1>3, <1>4 DEF Inv, ChangeAnnounced, FactorWhole, users

\* A request that comes in.
LEMMA ComeInv ==
  ASSUME Inv, NEW r \in Req, NEW q \in Request, Shaped(q), Come(r, q),
         UNCHANGED <<users, redis, outbox, past>>, edits' \in 0 .. MaxEdits
  PROVE  Inv'
<1>1. \A l \in Link : ~Uses(req[r], l)
  BY DEF Come, Uses, Idle
<1>2. Shaped(q)'
  BY DEF Shaped, users, redis, past
<1>3. QED
  BY <1>1, <1>2, ReplaceRequest DEF Come, Inv, TypeOK, redis, past

-----------------------------------------------------------------------------

LEMMA ArrivalsInv ==
  ASSUME Inv, NEW r \in Req, NEW u \in User
  PROVE  /\ Forgot(r, u) \/ GiveTemporary(r, u) \/ DisableFactor(r, u) => Inv'
         /\ \A old \in Ways : ChangePassword(r, u, old) => Inv'
         /\ \A op \in {"switch on", "switch off"} : SwitchFactor(r, u, op) => Inv'
<1> DEFINE q(op, at) == [Idle EXCEPT !.op = op, !.at = at, !.who = u]
<1>1. /\ q("forgot", "store") \in Request /\ Shaped(q("forgot", "store"))
      /\ \A op \in {"own", "temp", "disable", "switch on", "switch off"} :
           q(op, "flush") \in Request /\ Shaped(q(op, "flush"))
  BY DEF Idle, Request, Shaped, Using
<1>2. edits < MaxEdits /\ edits' = edits + 1 => edits' \in 0 .. MaxEdits
  BY SecretsAssumption DEF Inv, TypeOK
<1>3. edits' = edits => edits' \in 0 .. MaxEdits
  BY DEF Inv, TypeOK
<1>4. Forgot(r, u) => Inv'
  BY <1>1, <1>3, ComeInv DEF Forgot
<1>5. GiveTemporary(r, u) => Inv'
  BY <1>1, <1>2, ComeInv DEF GiveTemporary
<1>6. DisableFactor(r, u) => Inv'
  BY <1>1, <1>3, ComeInv DEF DisableFactor
<1>7. ASSUME NEW old \in Ways, ChangePassword(r, u, old) PROVE Inv'
  BY <1>1, <1>2, <1>7, ComeInv DEF ChangePassword
<1>8. ASSUME NEW op \in {"switch on", "switch off"}, SwitchFactor(r, u, op) PROVE Inv'
  BY <1>1, <1>2, <1>8, ComeInv DEF SwitchFactor
<1>9. QED
  BY <1>4, <1>5, <1>6, <1>7, <1>8

LEMMA UseLinkInv == ASSUME Inv, NEW r \in Req, NEW l \in Link, UseLink(r, l) PROVE Inv'
<1> DEFINE q(late) == [Idle EXCEPT !.op = "reset", !.at = "get", !.key = l, !.late = late]
<1> DEFINE isLate == l \in changed
<1>1. PICK late \in BOOLEAN : late = isLate
  <2>1. CASE isLate
    <3>1. TRUE = isLate
      BY <2>1
    <3>2. QED
      BY <3>1
  <2>2. CASE ~isLate
    <3>1. FALSE = isLate
      BY <2>2
    <3>2. QED
      BY <3>1
  <2>3. QED
    BY <2>1, <2>2
<1>2. q(late) \in Request /\ Shaped(q(late))
  BY <1>1 DEF Idle, Request, Shaped, Using, UseLink
<1>3. Come(r, q(late))
  BY <1>1, Zenon DEF UseLink
<1>4. edits' \in 0 .. MaxEdits /\ UNCHANGED <<users, redis, outbox, past>>
  BY DEF Inv, TypeOK, UseLink
<1> HIDE DEF q
<1>5. QED
  BY <1>2, <1>3, <1>4, ComeInv

LEMMA ConfirmSetupInv ==
  ASSUME Inv, NEW r \in Req, NEW u \in User, NEW s \in Secret, ConfirmSetup(r, u, s) PROVE Inv'
<1> DEFINE q == [Idle EXCEPT !.op = "confirm", !.at = "pending", !.who = u, !.key = s, !.had = on[u]]
<1>1. q \in Request /\ Shaped(q)
  BY DEF Idle, Request, Shaped, Using, Inv, TypeOK
<1> HIDE DEF q
<1>2. edits' \in 0 .. MaxEdits
  BY DEF Inv, TypeOK, ConfirmSetup
<1>3. Come(r, q) /\ UNCHANGED <<users, redis, outbox, past>>
  BY DEF ConfirmSetup, q
<1>4. QED
  BY <1>1, <1>2, <1>3, ComeInv

-----------------------------------------------------------------------------

\* A request that is answered, or fails, without having changed the row.  One
\* that was using a link leaves the link broken.
LEMMA AnswerInv ==
  ASSUME Inv, NEW r \in Req, Answer(r), UNCHANGED <<users, redis, edits, told, changed, crossed, forced>>,
         broken \subseteq broken', broken' \subseteq Link,
         outbox \subseteq outbox', outbox' \subseteq {"asked", "changed"} \X Link,
         \A l \in Link : Uses(req[r], l) => l \in broken'
  PROVE  Inv'
<1>1. Idle \in Request /\ Shaped(Idle)'
  BY DEF Idle, Request, Shaped
<1>2. pending' \in [User -> Secret \cup {None}] /\ edits' \in 0 .. MaxEdits
  BY DEF Inv, TypeOK, redis
<1>3. QED
  BY <1>1, <1>2, ReplaceRequest DEF Answer, redis

\* A request that goes on to another place with what it has.
LEMMA GotoInv ==
  ASSUME Inv, NEW r \in Req, NEW at \in {"unpend", "flush", "mail", "commit"}, Goto(r, at),
         \A q \in Request : q = [req[r] EXCEPT !.at = at] => Shaped(q)',
         UNCHANGED <<users, links, edits, past>>,
         pending' \in [User -> Secret \cup {None}],
         outbox \subseteq outbox', outbox' \subseteq {"asked", "changed"} \X Link
  PROVE  Inv'
<1>1. req[r] \in Request /\ Shaped(req[r])
  BY DEF Inv, TypeOK
<1>2. PICK q \in Request : q = [req[r] EXCEPT !.at = at]
  <2>1. [req[r] EXCEPT !.at = at] \in Request
    BY <1>1 DEF Request
  <2>2. QED
    BY <2>1, Zenon
<1>3. \A l \in Link : Uses(req[r], l) => Uses(q, l)
  BY <1>1, <1>2 DEF Shaped, Uses, Using, Request
<1>4. req' = [req EXCEPT ![r] = q]
  BY <1>2 DEF Goto, Inv, TypeOK
<1>5. edits' \in 0 .. MaxEdits /\ broken \subseteq broken' /\ broken' \subseteq Link
  BY DEF Inv, TypeOK, past
<1>6. UNCHANGED <<users, links, told, changed, crossed, forced>>
  BY DEF past
<1>7. QED
  BY <1>2, <1>3, <1>4, <1>5, <1>6, ReplaceRequest

LEMMA ReadPendingInv == ASSUME Inv, NEW r \in Req, ReadPending(r) PROVE Inv'
<1>1. Shaped(req[r]) /\ req[r] \in Request /\ req[r].at = "pending"
  BY DEF Inv, TypeOK, ReadPending
<1>2. UNCHANGED <<users, redis, edits, past, outbox>>
  BY DEF ReadPending
<1>3. /\ outbox' \subseteq {"asked", "changed"} \X Link
      /\ pending' \in [User -> Secret \cup {None}] /\ broken' \subseteq Link
  BY <1>2 DEF redis, past, Inv, TypeOK
<1>4. CASE Goto(r, "unpend")
  <2>1. ASSUME NEW q \in Request, q = [req[r] EXCEPT !.at = "unpend"] PROVE Shaped(q)'
    BY <1>1, <1>2, <2>1 DEF Shaped, Request, Using, users, redis, past
  <2>2. QED
    BY <1>2, <1>3, <1>4, <2>1, GotoInv DEF redis
<1>5. CASE Answer(r)
  <2>1. \A l \in Link : ~Uses(req[r], l)
    BY <1>1 DEF Shaped, Uses
  <2>2. QED
    BY <1>2, <1>3, <1>5, <2>1, AnswerInv DEF past
<1>6. QED
  BY <1>4, <1>5 DEF ReadPending

LEMMA DeletePendingInv == ASSUME Inv, NEW r \in Req, DeletePending(r) PROVE Inv'
<1>1. Shaped(req[r]) /\ req[r] \in Request /\ req[r].at = "unpend"
  BY DEF Inv, TypeOK, DeletePending
<1>2. UNCHANGED <<users, links, edits, past, outbox>> /\ Goto(r, "flush")
  BY DEF DeletePending
<1>3. /\ outbox' \subseteq {"asked", "changed"} \X Link
      /\ pending' \in [User -> Secret \cup {None}]
  BY <1>2 DEF DeletePending, Inv, TypeOK
<1>4. ASSUME NEW q \in Request, q = [req[r] EXCEPT !.at = "flush"] PROVE Shaped(q)'
  BY <1>1, <1>2, <1>4 DEF Shaped, Request, Using, users, past
<1>5. QED
  BY <1>2, <1>3, <1>4, GotoInv

LEMMA FlushInv == ASSUME Inv, NEW r \in Req, Flush(r) PROVE Inv'
<1>1. Shaped(req[r]) /\ req[r] \in Request /\ req[r].at = "flush"
  BY DEF Inv, TypeOK, Flush
<1>2. UNCHANGED <<users, redis, edits, past, outbox>>
  BY DEF Flush
<1>3. /\ outbox' \subseteq {"asked", "changed"} \X Link
      /\ pending' \in [User -> Secret \cup {None}]
  BY <1>2 DEF redis, Inv, TypeOK
<1>4. PICK at \in {"mail", "commit"} : Goto(r, at) /\ (at = "mail" <=> req[r].op = "reset")
  BY DEF Flush
<1>5. ASSUME NEW q \in Request, q = [req[r] EXCEPT !.at = at] PROVE Shaped(q)'
  BY <1>1, <1>2, <1>4, <1>5 DEF Shaped, Request, Using, users, redis, past
<1>6. QED
  BY <1>2, <1>3, <1>4, <1>5, GotoInv DEF redis

LEMMA MailChangeInv == ASSUME Inv, NEW r \in Req, MailChange(r) PROVE Inv'
<1>1. Shaped(req[r]) /\ req[r] \in Request /\ req[r].at = "mail"
  BY DEF Inv, TypeOK, MailChange
<1>2. UNCHANGED <<users, redis, edits, past>> /\ Goto(r, "commit")
  BY DEF MailChange
<1>3. req[r].op = "reset" /\ req[r].key \in Link
  BY <1>1 DEF Shaped
<1>4. /\ outbox \subseteq outbox' /\ outbox' \subseteq {"asked", "changed"} \X Link
      /\ <<"changed", req[r].key>> \in outbox' /\ pending' \in [User -> Secret \cup {None}]
  BY <1>2, <1>3 DEF redis, Inv, TypeOK, MailChange
<1>5. ASSUME NEW q \in Request, q = [req[r] EXCEPT !.at = "commit"] PROVE Shaped(q)'
  BY <1>1, <1>2, <1>3, <1>4, <1>5 DEF Shaped, Request, Using, users, redis, past
<1>6. QED
  BY <1>2, <1>4, <1>5, GotoInv DEF redis

LEMMA MailLinkInv == ASSUME Inv, NEW r \in Req, MailLink(r) PROVE Inv'
<1>1. Shaped(req[r]) /\ req[r].at = "post"
  BY DEF Inv, MailLink
<1>2. req[r].key \in Link /\ \A l \in Link : ~Uses(req[r], l)
  BY <1>1 DEF Shaped, Uses
<1>3. UNCHANGED <<users, redis, edits, past>> /\ Answer(r)
  BY DEF MailLink
<1>4. outbox \subseteq outbox' /\ outbox' \subseteq {"asked", "changed"} \X Link
  BY <1>2 DEF MailLink, Inv, TypeOK
<1>5. broken' \subseteq Link
  BY <1>3 DEF past, Inv, TypeOK
<1>6. QED
  BY <1>2, <1>3, <1>4, <1>5, AnswerInv DEF past

LEMMA FailInv == ASSUME Inv, NEW r \in Req, Fail(r) PROVE Inv'
<1>1. Shaped(req[r])
  BY DEF Inv
<1>2. /\ broken \subseteq broken' /\ broken' \subseteq Link
      /\ \A l \in Link : Uses(req[r], l) => l \in broken'
  BY <1>1 DEF Fail, Shaped, Uses, Inv, TypeOK
<1>3. outbox \subseteq outbox' /\ outbox' \subseteq {"asked", "changed"} \X Link
  BY DEF Fail, Inv, TypeOK
<1>4. UNCHANGED <<users, redis, edits, told, changed, crossed, forced>> /\ Answer(r)
  BY DEF Fail
<1>5. QED
  BY <1>2, <1>3, <1>4, AnswerInv

-----------------------------------------------------------------------------
(* The steps on the links and the secrets.                                  *)

LEMMA ReadLinkInv == ASSUME Inv, NEW r \in Req, ReadLink(r) PROVE Inv'
<1>1. Shaped(req[r]) /\ req[r] \in Request /\ req[r].at = "get"
  BY DEF Inv, TypeOK, ReadLink
<1>2. \A l \in Link : ~Uses(req[r], l)
  BY <1>1 DEF Uses, Using
<1>3. UNCHANGED <<users, redis, outbox, edits, past>>
  BY DEF ReadLink
<1>4. /\ outbox' \subseteq {"asked", "changed"} \X Link /\ edits' \in 0 .. MaxEdits
      /\ pending' \in [User -> Secret \cup {None}] /\ broken' \subseteq Link
  BY <1>3 DEF redis, past, Inv, TypeOK
<1>5. CASE links[req[r].key] = None
  BY <1>2, <1>3, <1>4, <1>5, AnswerInv DEF ReadLink, past
<1>6. CASE links[req[r].key] # None
  <2> DEFINE q == [req[r] EXCEPT !.at = "del", !.who = links[req[r].key]]
  <2>1. req[r].op = "reset" /\ req[r].key \in Link \cap DOMAIN told /\ ~req[r].late
    BY <1>1, <1>6 DEF Shaped, Inv, Request
  <2>2. links[req[r].key] \in User
    BY <2>1, <1>6 DEF Inv, TypeOK
  <2>3. q \in Request
    BY <1>1, <2>2 DEF Request
  <2>4. PICK p \in Request : p = q
    BY <2>3
  <2>5. Shaped(p)'
    BY <1>1, <1>3, <2>1, <2>4 DEF Shaped, Using, Request, users, redis, past
  <2>6. req' = [req EXCEPT ![r] = p]
    BY <1>6, <2>4 DEF ReadLink
  <2>7. QED
    BY <1>2, <1>3, <1>4, <2>4, <2>5, <2>6, ReplaceRequest DEF redis, past
<1>7. QED
  BY <1>5, <1>6

LEMMA StoreLinkInv == ASSUME Inv, NEW r \in Req, NEW l \in Link, StoreLink(r, l) PROVE Inv'
<1>1. Shaped(req[r]) /\ req[r] \in Request /\ req[r].at = "store"
  BY DEF Inv, TypeOK, StoreLink
<1>2. req[r].op = "forgot" /\ req[r].who \in User /\ ~req[r].late
  BY <1>1 DEF Shaped, Request
<1>3. /\ links' \in [Link -> User \cup {None}] /\ links'[l] # None
      /\ \A k \in Link \ {l} : links'[k] = links[k]
      /\ DOMAIN told' = DOMAIN told \cup {l} /\ l \notin DOMAIN told
  BY <1>2, SecretsAssumption DEF StoreLink, Inv, TypeOK
<1>4. /\ req' = [req EXCEPT ![r] = [req[r] EXCEPT !.at = "post", !.key = l]]
      /\ UNCHANGED <<users, pending, outbox, edits, changed, broken, crossed, forced>>
  BY DEF StoreLink, Inv, TypeOK
<1>5. [req[r] EXCEPT !.at = "post", !.key = l] \in Request
  BY <1>1 DEF Request
<1>6. TypeOK'
  BY <1>3, <1>4, <1>5 DEF Inv, TypeOK, users
<1>7. ASSUME NEW p \in Req PROVE Shaped(req[p])'
  <2>1. CASE p = r
    BY <1>1, <1>2, <1>4, <2>1 DEF Shaped, Using, Inv, TypeOK, Request
  <2>2. CASE p # r
    <3>1. req'[p] = req[p]
      BY <1>4, <2>2 DEF Inv, TypeOK
    <3>2. QED
      BY <1>3, <1>4, <3>1, ShapedLasts DEF users
  <2>3. QED
    BY <2>1, <2>2
<1>8. \A k \in Link : Accounted(k)'
  <2>1. \A k \in Link, p \in Req : Uses(req[p], k) => Uses(req'[p], k)
    BY <1>1, <1>4 DEF Uses, Using, Inv, TypeOK
  <2>2. QED
    BY <1>3, <1>4, <2>1 DEF Inv, Accounted
<1>9. QED
  BY <1>3, <1>4, <1>6, <1>7, <1>8 DEF Inv, TypeOK, ChangeAnnounced, FactorWhole, users

LEMMA DeleteLinkInv == ASSUME Inv, NEW r \in Req, DeleteLink(r) PROVE Inv'
<1>1. Shaped(req[r]) /\ req[r] \in Request /\ req[r].at = "del"
  BY DEF Inv, TypeOK, DeleteLink
<1>2. req[r].op = "reset" /\ req[r].key \in Link \cap DOMAIN told /\ ~req[r].late
  BY <1>1 DEF Shaped, Request
<1>3. /\ links' \in [Link -> User \cup {None}] /\ links'[req[r].key] = None
      /\ \A k \in Link \ {req[r].key} : links'[k] = links[k]
  BY <1>2 DEF DeleteLink, Inv, TypeOK
<1>4. /\ req' = [req EXCEPT ![r] = [req[r] EXCEPT !.at = "flush"]]
      /\ UNCHANGED <<users, pending, outbox, edits, past>>
  BY DEF DeleteLink, Goto, Inv, TypeOK
<1>5. [req[r] EXCEPT !.at = "flush"] \in Request
  BY <1>1 DEF Request
<1>6. TypeOK'
  BY <1>3, <1>4, <1>5 DEF Inv, TypeOK, users, past
<1>7. ASSUME NEW p \in Req PROVE Shaped(req[p])'
  <2>1. CASE p = r
    BY <1>1, <1>2, <1>3, <1>4, <2>1 DEF Shaped, Using, Inv, TypeOK, Request, past
  <2>2. CASE p # r
    <3>1. req'[p] = req[p]
      BY <1>4, <2>2 DEF Inv, TypeOK
    <3>2. QED
      BY <1>3, <1>4, <3>1, ShapedLasts DEF users, past
  <2>3. QED
    BY <2>1, <2>2
<1>8. \A k \in Link : Accounted(k)'
  <2>1. \A k \in Link, p \in Req : Uses(req[p], k) => Uses(req'[p], k)
    BY <1>1, <1>4 DEF Uses, Using, Inv, TypeOK, Request
  <2>2. Uses(req'[r], req[r].key)
    BY <1>1, <1>2, <1>4 DEF Uses, Using, Inv, TypeOK, Request
  <2>3. QED
    BY <1>3, <1>4, <2>1, <2>2 DEF Inv, Accounted, past
<1>9. QED
  BY <1>3, <1>4, <1>6, <1>7, <1>8 DEF Inv, TypeOK, ChangeAnnounced, FactorWhole, users, past

LEMMA SetupInv == ASSUME Inv, NEW u \in User, NEW s \in Secret, Setup(u, s) PROVE Inv'
<1>1. /\ DOMAIN told' = DOMAIN told \cup {s} /\ s \notin Link
      /\ UNCHANGED <<users, links, req, outbox, edits, changed, broken, crossed, forced>>
  BY SecretsAssumption DEF Setup
<1>2. TypeOK'
  BY <1>1 DEF Setup, Inv, TypeOK, users
<1>3. \A p \in Req : Shaped(req[p])'
  BY <1>1, ShapedLasts DEF users
<1>4. \A l \in Link : Accounted(l)'
  BY <1>1 DEF Inv, Accounted
<1>5. QED
  BY <1>1, <1>2, <1>3, <1>4 DEF Inv, ChangeAnnounced, FactorWhole, users

LEMMA LinkExpiresInv == ASSUME Inv, NEW l \in Link, LinkExpires(l) PROVE Inv'
<1>1. /\ links' = [links EXCEPT ![l] = None] /\ broken' = broken \cup {l}
      /\ UNCHANGED <<users, pending, req, outbox, edits, told, changed, crossed, forced>>
  BY DEF LinkExpires
<1>2. TypeOK' /\ \A k \in Link : links[k] = None => links'[k] = None
  BY <1>1 DEF Inv, TypeOK, users
<1>3. \A p \in Req : Shaped(req[p])'
  BY <1>1, <1>2, ShapedLasts DEF users
<1>4. \A k \in Link : Accounted(k)'
  BY <1>1 DEF Inv, TypeOK, Accounted
<1>5. QED
  BY <1>1, <1>2, <1>3, <1>4 DEF Inv, TypeOK, ChangeAnnounced, FactorWhole, users

LEMMA PendingExpiresInv == ASSUME Inv, NEW u \in User, PendingExpires(u) PROVE Inv'
<1>1. UNCHANGED <<users, links, req, outbox, edits, past>>
  BY DEF PendingExpires
<1>2. TypeOK'
  BY <1>1 DEF PendingExpires, Inv, TypeOK, users, past
<1>3. \A p \in Req : Shaped(req[p])'
  BY <1>1, ShapedLasts DEF users, past
<1>4. QED
  BY <1>1, <1>2, <1>3 DEF Inv, Accounted, ChangeAnnounced, FactorWhole, users, past

-----------------------------------------------------------------------------
(* The commit: the one step that changes the row.                           *)

LEMMA CommitKeepsTypes == ASSUME Inv, NEW r \in Req, Commit(r) PROVE TypeOK'
<1>1. Shaped(req[r]) /\ req[r] \in Request /\ TypeOK
  BY DEF Inv, TypeOK
<1>2. on' \in [User -> BOOLEAN]
  BY <1>1 DEF Commit, Switched, TypeOK
<1>3. secret' \in [User -> Secret \cup {None}]
  BY <1>1 DEF Commit, TypeOK, Shaped
<1>4. password' \in [User -> Ways]
  BY <1>1 DEF Commit, TypeOK, Ways
<1>5. changed' \cup broken' \subseteq Link
  BY <1>1 DEF Commit, TypeOK, Shaped
<1>6. Confirming(req[r].who) \subseteq Secret
  BY DEF Confirming, Inv, Shaped
<1>7. crossed' \subseteq Secret
  BY <1>1, <1>6 DEF Commit, TypeOK
<1>8. forced' \subseteq User
  BY <1>1 DEF Commit, TypeOK, Shaped
<1>9. req' \in [Req -> Request] /\ UNCHANGED <<redis, outbox, edits, told>>
  BY <1>1, IdleShaped DEF Commit, Answer, TypeOK
<1>10. QED
  BY <1>1, <1>2, <1>3, <1>4, <1>5, <1>7, <1>8, <1>9 DEF TypeOK, redis

\* A confirmation that found the factor on and commits after it was switched
\* off is among those crossed.
LEMMA CommitKeepsShape ==
  ASSUME Inv, NEW r \in Req, Commit(r), NEW p \in Req PROVE Shaped(req[p])'
<1>1. req' = [req EXCEPT ![r] = Idle] /\ UNCHANGED <<redis, outbox, told>>
      /\ changed \subseteq changed' /\ crossed \subseteq crossed'
  BY DEF Commit, Answer
<1>2. CASE p = r
  BY <1>1, <1>2 DEF Inv, TypeOK, Idle, Shaped
<1>3. CASE p # r
  <2>1. req'[p] = req[p] /\ Shaped(req[p]) /\ req[p] \in Request
    BY <1>1, <1>3 DEF Inv, TypeOK
  <2>2. ASSUME req[p].op = "confirm", req[p].had, ~on'[req[p].who] PROVE req[p].key \in crossed'
    <3>1. req[p].who \in User
      BY <2>1, <2>2 DEF Shaped
    <3>2. CASE ~on[req[p].who]
      BY <1>1, <2>1, <2>2, <3>2 DEF Shaped
    <3>3. CASE on[req[p].who]
      <4>1. req[p].who = req[r].who /\ req[r].op \in {"disable", "switch off"}
        BY <2>2, <3>1, <3>3 DEF Commit, Switched, Inv, TypeOK
      <4>2. req[p].key \in Confirming(req[r].who)
        BY <2>2, <4>1 DEF Confirming
      <4>3. QED
        BY <4>1, <4>2 DEF Commit
    <3>4. QED
      BY <3>2, <3>3
  <2>3. QED
    BY <1>1, <2>1, <2>2 DEF Shaped, Using, redis
<1>4. QED
  BY <1>2, <1>3

LEMMA CommitKeepsFactor == ASSUME Inv, NEW r \in Req, Commit(r) PROVE FactorWhole'
<1> SUFFICES ASSUME NEW v \in User, v \notin forced'
             PROVE  /\ on'[v] => secret'[v] # None
                    /\ secret'[v] # None /\ ~on'[v] => secret'[v] \in crossed'
  BY DEF FactorWhole
<1>1. Shaped(req[r]) /\ crossed \subseteq crossed'
  BY DEF Inv, Commit
<1>2. CASE v # req[r].who
  <2>1. on'[v] = on[v] /\ secret'[v] = secret[v] /\ v \notin forced
    BY <1>2 DEF Commit, Inv, TypeOK
  <2>2. QED
    BY <1>1, <2>1 DEF Inv, FactorWhole
<1>3. CASE v = req[r].who
  <2>1. req[r].op \notin {"switch on", "switch off"}
    BY <1>3 DEF Commit
  <2>2. CASE req[r].op = "confirm"
    <3>1. secret'[v] = req[r].key /\ req[r].key # None
      BY <1>1, <1>3, <2>2, SecretsAssumption DEF Commit, Inv, TypeOK, Shaped
    <3>2. ~on'[v] => req[r].had /\ ~on[v]
      BY <1>3, <2>2 DEF Commit, Switched, Inv, TypeOK, Request
    <3>3. QED
      BY <1>1, <1>3, <2>2, <3>1, <3>2 DEF Shaped
  <2>3. CASE req[r].op = "disable"
    BY <1>3, <2>3 DEF Commit, Switched, Inv, TypeOK
  <2>4. CASE req[r].op \notin {"confirm", "disable"}
    <3>1. on'[v] = on[v] /\ secret'[v] = secret[v] /\ v \notin forced
      BY <1>3, <2>1, <2>4 DEF Commit, Switched, Inv, TypeOK
    <3>2. QED
      BY <1>1, <3>1 DEF Inv, FactorWhole
  <2>5. QED
    BY <2>2, <2>3, <2>4
<1>4. QED
  BY <1>2, <1>3

LEMMA CommitInv == ASSUME Inv, NEW r \in Req, Commit(r) PROVE Inv'
<1>1. Shaped(req[r]) /\ req[r].at = "commit"
  BY DEF Inv, Commit
<1>2. req' = [req EXCEPT ![r] = Idle] /\ UNCHANGED <<redis, outbox, told, broken>>
  BY DEF Commit, Answer
<1>3. changed' = IF req[r].op = "reset" THEN changed \cup {req[r].key} ELSE changed
  BY DEF Commit
<1>4. ASSUME NEW l \in Link PROVE Accounted(l)'
  <2>1. \A p \in Req \ {r} : req'[p] = req[p]
    BY <1>2 DEF Inv, TypeOK
  <2>2. Uses(req[r], l) => l \in changed'
    BY <1>3 DEF Uses
  <2>3. QED
    BY <1>2, <1>3, <2>1, <2>2 DEF Inv, Accounted, redis
<1>5. \A l \in changed' : l \in DOMAIN told' /\ links'[l] = None
  BY <1>1, <1>2, <1>3 DEF Inv, Shaped, Using, redis
<1>6. ChangeAnnounced'
  BY <1>1, <1>2, <1>3 DEF Inv, ChangeAnnounced, Shaped
<1>7. QED
  BY <1>4, <1>5, <1>6, CommitKeepsTypes, CommitKeepsShape, CommitKeepsFactor DEF Inv

-----------------------------------------------------------------------------

LEMMA NextInv == ASSUME Inv, [Next]_vars PROVE Inv'
<1>1. CASE UNCHANGED vars
  BY <1>1 DEF vars, users, redis, past, Inv, TypeOK, Shaped, Accounted, Uses,
              ChangeAnnounced, FactorWhole
<1>2. ASSUME NEW r \in Req, Step(r) PROVE Inv'
  BY <1>2, StoreLinkInv, MailLinkInv, MailChangeInv, ReadLinkInv, DeleteLinkInv,
     ReadPendingInv, DeletePendingInv, FlushInv, CommitInv DEF Step
<1>3. QED
  BY <1>1, <1>2, ArrivalsInv, ConfirmSetupInv, UseLinkInv, FailInv, SetupInv,
     PendingExpiresInv, LinkExpiresInv DEF Next

LEMMA Invariant == Spec => []Inv
<1>1. Init => Inv
  BY InitInv
<1>2. Inv /\ [Next]_vars => Inv'
  BY NextInv
<1>3. QED
  BY <1>1, <1>2, PTL DEF Spec

\* Every variable keeps its type.
THEOREM TypeCorrect == Spec => []TypeOK
<1>1. Inv => TypeOK
  BY DEF Inv
<1>2. QED
  BY <1>1, Invariant, PTL

\* A reset link is gone only for a reason, and sets the password once
\* (auth_service.py:195).
THEOREM LinkTheorem == Spec => []LinkKeepsItsWord
<1>1. Inv => LinkKeepsItsWord
  BY DEF Inv, Accounted, Uses, Shaped, LinkKeepsItsWord
<1>2. QED
  BY <1>1, Invariant, PTL

\* A password set by a link has its mail in the queue (auth.py:301-306).
THEOREM AnnouncedTheorem == Spec => []ChangeAnnounced
<1>1. Inv => ChangeAnnounced
  BY DEF Inv
<1>2. QED
  BY <1>1, Invariant, PTL

\* The two columns of the second factor agree, but for a confirmation crossed
\* by a switch-off and for the administrator's own hand (mfa_service.py).
THEOREM FactorTheorem == Spec => []FactorWhole
<1>1. Inv => FactorWhole
  BY DEF Inv
<1>2. QED
  BY <1>1, Invariant, PTL
=============================================================================
