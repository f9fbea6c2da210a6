-------------------------- MODULE AccessControlProofs --------------------------
(***************************************************************************)
(* Proof that a role decides, that no honeypot opens, that a spent code is *)
(* refused, and how the last administrator can be lost, for any users,     *)
(* roles, applications, codes and requests and any tables to begin with.   *)
(***************************************************************************)
EXTENDS AccessControl, TLAPS

Words == {"active", "inactive", "on", "off", "trap", "plain"}
Request ==
  [op : {"none", "verify"} \cup Launches \cup OnAccount \cup OnApp, at : Places,
   who : User \cup {None}, obj : User \cup App \cup Code \cup {None},
   new : Role \cup {None} \cup Words, role : Role \cup {None},
   could : BOOLEAN, plain : BOOLEAN, late : BOOLEAN, exact : BOOLEAN]

\* A launch, by the place it has reached.
LaunchShaped(q) ==
  /\ q.who \in User /\ q.obj \in App
  /\ q.at \in {"trap", "sprung", "app", "perm", "store", "grant"}
  /\ app[q.obj].is # "absent"
  /\ q.role # None /\ (q.at \in {"grant", "store"} \/ rows[<<q.role, q.obj>>] > 0) => q.could
  /\ q.at = "trap" => app[q.obj].trap \/ q.plain
  /\ q.at = "app" => app[q.obj].is = "deleted" \/ q.plain
  /\ q.at \in {"perm", "store", "grant"} => q.plain

\* A change of the tables.  One of an application that has been flushed will
\* find the row as it was.
ChangeShaped(q) ==
  /\ q.at \in {"write", "flushed"} /\ q.new \in Values(q.op) /\ q.who \in User
  /\ q.op \in OnAccount => q.obj \in User
  /\ q.op = "create" => q.obj # q.who
  /\ q.op = "block" => q.obj # q.who \/ ~q.exact
  /\ q.op \in OnApp => q.obj \in App /\ (q.at = "flushed" => ~Refused(q))

Shaped(q) ==
  /\ q.op = "none" => q.at \in {"idle", "done"}
  /\ q.op \in Launches => LaunchShaped(q)
  /\ q.op \in OnAccount \cup OnApp => ChangeShaped(q)
  /\ q.op = "verify" => q.at \in {"get", "del"} /\ q.obj \in Code
  /\ q.late => q.op = "verify" /\ q.at = "get" /\ q.obj \in spent

\* The lock of a row.
OneFlush ==
  \A p, q \in Req : req[p].at = "flushed" /\ req[q].at = "flushed" /\ req[p].obj = req[q].obj => p = q

Tables ==
  /\ account \in [User -> Account] /\ app \in [App -> Application]
  /\ rows \in [Role \X App -> 0 .. 2]
Codes == codes \in [Code -> User \cup {None}] /\ spent \subseteq Code

Inv ==
  /\ Tables /\ Codes /\ edits \in 0 .. MaxEdits /\ req \in [Req -> Request]
  /\ \A r \in Req : Shaped(req[r])
  /\ OneFlush
  /\ \A c \in spent : codes[c] = None

-----------------------------------------------------------------------------

LEMMA IdleShaped == /\ Idle \in Request /\ Shaped(Idle) /\ Shaped(Idle)'
                    /\ Idle.at = "idle"
BY DEF Idle, Request, Shaped, Places, Launches, OnAccount, OnApp

LEMMA DoneShaped == \A q \in {[Idle EXCEPT !.at = "done"]} : q \in Request /\ Shaped(q) /\ q.at = "done"
BY DEF Idle, Request, Shaped, Places, Launches, OnAccount, OnApp

LEMMA InitInv == Init => Inv
<1> SUFFICES ASSUME Init PROVE Inv
  OBVIOUS
<1>1. \A r \in Req : req[r] = Idle
  BY DEF Init
<1>2. OneFlush /\ \A r \in Req : Shaped(req[r])
  BY <1>1, IdleShaped DEF OneFlush
<1>3. req \in [Req -> Request]
  BY IdleShaped DEF Init
<1>4. Tables /\ Codes /\ edits \in 0 .. MaxEdits /\ spent = {}
  BY AccessAssumption DEF Init, Tables, Codes
<1>5. QED
  BY <1>2, <1>3, <1>4 DEF Inv

\* A step of one request that changes neither the tables nor Redis.
LEMMA ReplaceRequest ==
  ASSUME Inv, NEW r \in Req, NEW q \in Request, Shaped(q), req' = [req EXCEPT ![r] = q],
         UNCHANGED <<tables, redis>>, edits' \in 0 .. MaxEdits,
         q.at = "flushed" => \A p \in Req \ {r} : req[p].at = "flushed" => req[p].obj # q.obj
  PROVE  Inv'
<1>1. req' \in [Req -> Request] /\ \A p \in Req : req'[p] = IF p = r THEN q ELSE req[p]
  BY DEF Inv
<1>2. ASSUME NEW p \in Request, Shaped(p) PROVE Shaped(p)'
  BY <1>2 DEF Shaped, LaunchShaped, ChangeShaped, Refused, InTable, tables, redis
<1>3. \A p \in Req : Shaped(req[p])'
  <2> SUFFICES ASSUME NEW p \in Req PROVE Shaped(req[p])'
    OBVIOUS
  <2>1. PICK s \in Request : s = req'[p] /\ Shaped(s)
    BY <1>1 DEF Inv
  <2>2. Shaped(s)'
    BY <1>2, <2>1
  <2>3. QED
    BY <2>1, <2>2 DEF Shaped, LaunchShaped, ChangeShaped, Refused
<1>4. OneFlush'
  BY <1>1 DEF Inv, OneFlush
<1>5. QED
  BY <1>1, <1>3, <1>4 DEF Inv, Tables, Codes, tables, redis

LEMMA AnswerInv ==
  ASSUME Inv, NEW r \in Req, Answer(r) \/ Finish(r), UNCHANGED <<tables, redis, edits>>
  PROVE  Inv'
<1>1. edits' \in 0 .. MaxEdits
  BY DEF Inv
<1>2. CASE Answer(r)
  BY <1>1, <1>2, IdleShaped, ReplaceRequest DEF Answer
<1>3. CASE Finish(r)
  <2>1. PICK q \in Request : q = [Idle EXCEPT !.at = "done"] /\ Shaped(q) /\ q.at = "done"
    BY DoneShaped
  <2>2. QED
    BY <1>1, <1>3, <2>1, ReplaceRequest DEF Finish
<1>4. QED
  BY <1>2, <1>3

LEMMA GotoInv ==
  ASSUME Inv, NEW r \in Req, NEW at \in Places, Goto(r, at), UNCHANGED <<tables, redis, edits>>,
         \A q \in Request : q = [req[r] EXCEPT !.at = at] => Shaped(q),
         at = "flushed" => \A p \in Req \ {r} : req[p].at = "flushed" => req[p].obj # req[r].obj
  PROVE  Inv'
<1>1. req[r] \in Request /\ edits' \in 0 .. MaxEdits
  BY DEF Inv
<1>2. [req[r] EXCEPT !.at = at] \in Request
  BY <1>1 DEF Request
<1>3. PICK q \in Request : q = [req[r] EXCEPT !.at = at]
  BY <1>2, Zenon
<1>4. q.at = at /\ q.obj = req[r].obj
  BY <1>1, <1>3 DEF Request
<1>5. req' = [req EXCEPT ![r] = q]
  BY <1>3 DEF Goto, Inv
<1>6. QED
  BY <1>1, <1>3, <1>4, <1>5, ReplaceRequest

-----------------------------------------------------------------------------
(* Requests come in.                                                        *)

LEMMA LaunchInv ==
  ASSUME Inv, NEW r \in Req, NEW op \in Launches, NEW u \in User, NEW a \in App, Launch(r, op, u, a)
  PROVE  Inv'
<1> DEFINE role == account[u].role
           q(could, plain) ==
             [Idle EXCEPT !.op = op, !.at = "trap", !.who = u, !.obj = a, !.role = role,
                          !.could = could, !.plain = plain]
<1>1. role \in Role \cup {None} /\ app[a] \in Application
  BY DEF Inv, Tables, Account
<1> DEFINE can == role # None /\ rows[<<role, a>>] > 0
<1>2. PICK could \in BOOLEAN : could = can
  <2> HIDE DEF can
  <2>1. CASE can
    <3>1. TRUE = can
      BY <2>1
    <3>2. QED
      BY <3>1
  <2>2. CASE ~can
    <3>1. FALSE = can
      BY <2>2
    <3>2. QED
      BY <3>1
  <2>3. QED
    BY <2>1, <2>2
<1>3. PICK plain \in BOOLEAN : plain = ~app[a].trap
  BY <1>1 DEF Application
<1>4. q(could, plain) \in Request
  BY <1>1 DEF Idle, Request, Places
<1>5. Shaped(q(could, plain))
  BY <1>1, <1>2, <1>3 DEF Shaped, LaunchShaped, Idle, Launch, Launches, OnAccount, OnApp
<1>6. req' = [req EXCEPT ![r] = q(could, plain)]
  BY <1>2, <1>3, Zenon DEF Launch
<1>7. edits' \in 0 .. MaxEdits /\ UNCHANGED <<tables, redis>>
  BY DEF Launch, Inv
<1>8. q(could, plain).at = "trap"
  BY DEF Idle
<1> HIDE DEF q
<1>9. QED
  BY <1>4, <1>5, <1>6, <1>7, <1>8, ReplaceRequest

LEMMA RedeemInv == ASSUME Inv, NEW r \in Req, NEW c \in Code, Redeem(r, c) PROVE Inv'
<1> DEFINE q(late) == [Idle EXCEPT !.op = "verify", !.at = "get", !.obj = c, !.late = late]
           known == c \in spent
<1>1. PICK late \in BOOLEAN : late = known
  <2> HIDE DEF known
  <2>1. CASE known
    <3>1. TRUE = known
      BY <2>1
    <3>2. QED
      BY <3>1
  <2>2. CASE ~known
    <3>1. FALSE = known
      BY <2>2
    <3>2. QED
      BY <3>1
  <2>3. QED
    BY <2>1, <2>2
<1>2. q(late) \in Request /\ Shaped(q(late)) /\ q(late).at = "get"
  BY <1>1 DEF Idle, Request, Places, Shaped, Launches, OnAccount, OnApp
<1>3. req' = [req EXCEPT ![r] = q(late)]
  BY <1>1, Zenon DEF Redeem
<1>4. edits' \in 0 .. MaxEdits /\ UNCHANGED <<tables, redis>>
  BY DEF Redeem, Inv
<1> HIDE DEF q
<1>5. QED
  BY <1>2, <1>3, <1>4, ReplaceRequest

LEMMA AboutOnes ==
  /\ \A op \in OnAccount : About(op) \subseteq User
  /\ \A op \in OnApp : About(op) \subseteq App
  /\ \A op \in OnAccount \cup OnApp : Values(op) \subseteq Role \cup {None} \cup Words
BY DEF About, Values, OnAccount, OnApp, Words

LEMMA ManageInv ==
  ASSUME Inv, NEW r \in Req, NEW op \in OnAccount \cup OnApp, NEW u \in User, Manage(r, op, u)
  PROVE  Inv'
<1>0. PICK obj \in About(op), new \in Values(op), exact \in BOOLEAN :
        /\ ~(op = "block" /\ obj = u /\ exact)
        /\ req' = [req EXCEPT ![r] = [Idle EXCEPT !.op = op, !.at = "write", !.who = u,
                                                  !.obj = obj, !.new = new, !.exact = exact]]
  BY DEF Manage
<1> DEFINE q == [Idle EXCEPT !.op = op, !.at = "write", !.who = u, !.obj = obj, !.new = new,
                             !.exact = exact]
<1>1. obj \in User \cup App /\ new \in Role \cup {None} \cup Words
  BY <1>0, AboutOnes
<1>2. (op = "create" => obj # u) /\ (op = "block" => obj # u \/ ~exact)
  <2>1. account[u].is = "active" /\ ~(op = "block" /\ obj = u /\ exact)
    BY <1>0 DEF Manage, Administers, Able
  <2>2. op = "create" => account[obj].is = "absent"
    <3>1. About("create") = {v \in User : account[v].is = "absent"}
      BY DEF About, OnAccount, OnApp
    <3>2. QED
      BY <3>1
  <2>3. QED
    BY <2>1, <2>2
<1>3. q \in Request /\ q.at = "write"
  BY <1>0, <1>1 DEF Idle, Request, Places
<1>4. ChangeShaped(q)
  BY <1>0, <1>2, AboutOnes DEF ChangeShaped, Idle
<1>5. Shaped(q)
  BY <1>4 DEF Shaped, Idle, Launches, OnAccount, OnApp
<1>6. edits' \in 0 .. MaxEdits
  BY AccessAssumption DEF Manage, Inv
<1>7. req' = [req EXCEPT ![r] = q] /\ UNCHANGED <<tables, redis>>
  BY <1>0 DEF Manage
<1> HIDE DEF q
<1>8. QED
  BY <1>3, <1>5, <1>6, <1>7, ReplaceRequest

-----------------------------------------------------------------------------
(* A launch, and the first half of a redemption.                            *)

LEMMA CheckTrapInv == ASSUME Inv, NEW r \in Req, CheckTrap(r) PROVE Inv'
<1>1. req[r] \in Request /\ Shaped(req[r]) /\ req[r].at = "trap" /\ UNCHANGED <<tables, redis, edits>>
  BY DEF Inv, CheckTrap
<1>2. req[r].op \in Launches /\ LaunchShaped(req[r])
  BY <1>1 DEF Request, Shaped, ChangeShaped
<1>3. CASE Goto(r, "sprung")
  <2>1. ASSUME NEW q \in Request, q = [req[r] EXCEPT !.at = "sprung"] PROVE Shaped(q)
    BY <1>1, <1>2, <2>1 DEF Shaped, LaunchShaped, Request, Launches, OnAccount, OnApp
  <2>2. QED
    BY <1>1, <1>3, <2>1, GotoInv DEF Places
<1>4. CASE Goto(r, "app") /\ ~(InTable(req[r].obj) /\ app[req[r].obj].trap)
  <2>1. app[req[r].obj].is = "deleted" \/ ~app[req[r].obj].trap
    BY <1>2, <1>4 DEF LaunchShaped, InTable, Inv, Tables, Application
  <2>2. ASSUME NEW q \in Request, q = [req[r] EXCEPT !.at = "app"] PROVE Shaped(q)
    BY <1>1, <1>2, <2>1, <2>2 DEF Shaped, LaunchShaped, Request, Launches, OnAccount, OnApp
  <2>3. QED
    BY <1>1, <1>4, <2>2, GotoInv DEF Places
<1>5. QED
  BY <1>3, <1>4 DEF CheckTrap

LEMMA ReadAppInv == ASSUME Inv, NEW r \in Req, ReadApp(r) PROVE Inv'
<1>1. req[r] \in Request /\ Shaped(req[r]) /\ req[r].at = "app" /\ UNCHANGED <<tables, redis, edits>>
  BY DEF Inv, ReadApp
<1>2. req[r].op \in Launches /\ LaunchShaped(req[r])
  BY <1>1 DEF Request, Shaped, ChangeShaped
<1>3. CASE Goto(r, "perm") /\ app[req[r].obj].is = "on"
  <2>1. ASSUME NEW q \in Request, q = [req[r] EXCEPT !.at = "perm"] PROVE Shaped(q)
    BY <1>1, <1>2, <1>3, <2>1 DEF Shaped, LaunchShaped, Request, Launches, OnAccount, OnApp
  <2>2. QED
    BY <1>1, <1>3, <2>1, GotoInv DEF Places
<1>4. CASE Answer(r)
  BY <1>1, <1>4, AnswerInv
<1>5. QED
  BY <1>3, <1>4 DEF ReadApp

LEMMA ReadPermissionInv == ASSUME Inv, NEW r \in Req, ReadPermission(r) PROVE Inv'
<1>1. req[r] \in Request /\ Shaped(req[r]) /\ req[r].at = "perm" /\ UNCHANGED <<tables, redis, edits>>
  BY DEF Inv, ReadPermission
<1>2. req[r].op \in Launches /\ LaunchShaped(req[r])
  BY <1>1 DEF Request, Shaped, ChangeShaped
<1>3. ASSUME NEW at \in {"grant", "store"}, Goto(r, at),
             req[r].role = None \/ OneRow(req[r].role, req[r].obj)
      PROVE  Inv'
  <2>1. req[r].role # None => rows[<<req[r].role, req[r].obj>>] > 0
    <3>1. req[r].role # None => rows[<<req[r].role, req[r].obj>>] = 1
      BY <1>3 DEF OneRow
    <3>2. QED
      BY <3>1
  <2>2. ASSUME NEW q \in Request, q = [req[r] EXCEPT !.at = at] PROVE Shaped(q)
    BY <1>1, <1>2, <2>1, <2>2 DEF Shaped, LaunchShaped, Request, Launches, OnAccount, OnApp
  <2>3. QED
    BY <1>1, <1>3, <2>2, GotoInv DEF Places
<1>4. CASE Answer(r)
  BY <1>1, <1>4, AnswerInv
<1>5. QED
  BY <1>3, <1>4 DEF ReadPermission

LEMMA VerifyReadInv == ASSUME Inv, NEW r \in Req, VerifyRead(r) PROVE Inv'
<1>1. req[r] \in Request /\ Shaped(req[r]) /\ req[r].at = "get" /\ UNCHANGED <<tables, redis, edits>>
  BY DEF Inv, VerifyRead
<1>2. req[r].op = "verify" /\ req[r].obj \in Code
  BY <1>1 DEF Request, Shaped, ChangeShaped, LaunchShaped
<1>3. CASE codes[req[r].obj] # None /\ Goto(r, "del")
  <2>1. ~req[r].late
    BY <1>1, <1>3 DEF Shaped, Inv
  <2>2. ASSUME NEW q \in Request, q = [req[r] EXCEPT !.at = "del"] PROVE Shaped(q)
    BY <1>1, <1>2, <2>1, <2>2 DEF Shaped, Request, Launches, OnAccount, OnApp
  <2>3. QED
    BY <1>1, <1>3, <2>2, GotoInv DEF Places
<1>4. CASE Answer(r)
  BY <1>1, <1>4, AnswerInv
<1>5. QED
  BY <1>3, <1>4 DEF VerifyRead

LEMMA WriteInv == ASSUME Inv, NEW r \in Req, Write(r) PROVE Inv'
<1>1. req[r] \in Request /\ Shaped(req[r]) /\ req[r].at = "write" /\ UNCHANGED <<tables, redis, edits>>
  BY DEF Inv, Write
<1>2. req[r].op \in OnAccount \cup OnApp /\ ChangeShaped(req[r])
  BY <1>1 DEF Request, Shaped, LaunchShaped
<1>3. CASE Goto(r, "flushed") /\ RowFree(req[r].obj) /\ ~Refused(req[r])
  <2>1. ASSUME NEW q \in Request, q = [req[r] EXCEPT !.at = "flushed"] PROVE Shaped(q)
    <3>1. ChangeShaped(q)
      BY <1>1, <1>2, <1>3, <2>1 DEF ChangeShaped, Refused, Request
    <3>2. QED
      BY <1>1, <1>2, <2>1, <3>1 DEF Shaped, Request, Launches, OnAccount, OnApp
  <2>2. QED
    BY <1>1, <1>3, <2>1, GotoInv DEF Places, RowFree
<1>4. CASE Answer(r) \/ Finish(r)
  BY <1>1, <1>4, AnswerInv
<1>5. QED
  BY <1>3, <1>4 DEF Write

-----------------------------------------------------------------------------
(* The steps on Redis.                                                      *)

\* What a request holds says nothing of Redis but that a spent code is spent.
LEMMA ShapedLasts ==
  ASSUME Inv, NEW p \in Req, req'[p] = req[p], UNCHANGED tables,
         req[p].obj \in spent => req[p].obj \in spent'
  PROVE  Shaped(req[p])'
<1>1. Shaped(req[p])
  BY DEF Inv
<1>2. QED
  BY <1>1 DEF Shaped, LaunchShaped, ChangeShaped, Refused, InTable, tables

LEMMA StoreCodeInv == ASSUME Inv, NEW r \in Req, NEW c \in Code, StoreCode(r, c) PROVE Inv'
<1>1. PICK q \in Request : q = [Idle EXCEPT !.at = "done"] /\ Shaped(q) /\ q.at = "done"
  BY DoneShaped
<1>2. req' = [req EXCEPT ![r] = q]
  BY <1>1 DEF StoreCode, Finish
<1>3. req' \in [Req -> Request] /\ \A p \in Req : req'[p] = IF p = r THEN q ELSE req[p]
  BY <1>2 DEF Inv
<1>4. UNCHANGED <<tables, edits>> /\ spent' = spent \ {c} /\ \A p \in Req : req[p].obj # c
  BY DEF StoreCode
<1>5. q.op = "none" /\ ~q.late
  BY <1>1 DEF Idle
<1>6. ASSUME NEW p \in Req PROVE Shaped(req[p])'
  <2>1. CASE p = r
    BY <1>1, <1>3, <1>5, <2>1 DEF Shaped, Launches, OnAccount, OnApp
  <2>2. CASE p # r
    BY <1>3, <1>4, <2>2, ShapedLasts
  <2>3. QED
    BY <2>1, <2>2
<1>7. req[r].who \in User \cup {None}
  BY DEF Inv, Request
<1>8. Codes' /\ \A k \in spent' : codes'[k] = None
  BY <1>4, <1>7 DEF StoreCode, Inv, Codes
<1>9. OneFlush'
  BY <1>1, <1>3 DEF Inv, OneFlush
<1>10. QED
  BY <1>3, <1>4, <1>6, <1>8, <1>9 DEF Inv, Tables, tables

LEMMA VerifyDeleteInv == ASSUME Inv, NEW r \in Req, VerifyDelete(r) PROVE Inv'
<1>1. req[r] \in Request /\ Shaped(req[r]) /\ req[r].at = "del"
  BY DEF Inv, VerifyDelete
<1>2. req[r].obj \in Code
  BY <1>1 DEF Request, Shaped, ChangeShaped, LaunchShaped
<1>3. req' = [req EXCEPT ![r] = Idle] /\ UNCHANGED <<tables, edits>>
      /\ spent' = spent \cup {req[r].obj} /\ codes' = [codes EXCEPT ![req[r].obj] = None]
  BY DEF VerifyDelete, Answer
<1>4. req' \in [Req -> Request] /\ \A p \in Req : req'[p] = IF p = r THEN Idle ELSE req[p]
  BY <1>3, IdleShaped DEF Inv
<1>5. ASSUME NEW p \in Req PROVE Shaped(req[p])'
  <2>1. CASE p = r
    BY <1>4, <2>1, IdleShaped DEF Shaped, Idle, Launches, OnAccount, OnApp
  <2>2. CASE p # r
    BY <1>3, <1>4, <2>2, ShapedLasts
  <2>3. QED
    BY <2>1, <2>2
<1>6. Codes' /\ \A k \in spent' : codes'[k] = None
  BY <1>2, <1>3 DEF Inv, Codes
<1>7. OneFlush'
  BY <1>4, IdleShaped DEF Inv, OneFlush
<1>8. QED
  BY <1>3, <1>4, <1>5, <1>6, <1>7 DEF Inv, Tables, tables

LEMMA ExpireInv == ASSUME Inv, NEW c \in Code, Expire(c) PROVE Inv'
<1>1. UNCHANGED <<tables, spent, req, edits>> /\ codes' = [codes EXCEPT ![c] = None]
  BY DEF Expire
<1>2. \A p \in Req : Shaped(req[p])'
  BY <1>1, ShapedLasts
<1>3. QED
  BY <1>1, <1>2 DEF Inv, Tables, Codes, OneFlush, tables

-----------------------------------------------------------------------------
(* The commit of an administrator's change.                                 *)

LEMMA CommitAccountInv == ASSUME Inv, NEW r \in Req, CommitAccount(r) PROVE Inv'
<1>1. req[r] \in Request /\ ChangeShaped(req[r]) /\ req[r].op \in OnAccount /\ req[r].at = "flushed"
  BY DEF Inv, CommitAccount, Shaped
<1>2. req' = [req EXCEPT ![r] = Idle] /\ UNCHANGED <<app, rows, redis, edits>>
      /\ account' = AccountAfter(req[r])
  BY DEF CommitAccount, Answer
<1>3. req' \in [Req -> Request] /\ \A p \in Req : req'[p] = IF p = r THEN Idle ELSE req[p]
  BY <1>2, IdleShaped DEF Inv
<1>4. account' \in [User -> Account]
  <2>1. req[r].obj \in User /\ account[req[r].obj] \in Account
    BY <1>1 DEF ChangeShaped, Inv, Tables
  <2>2. CASE req[r].op = "create"
    <3>1. req[r].new \in Role \cup {None}
      BY <1>1, <2>2 DEF ChangeShaped, Values
    <3>2. [Absent EXCEPT !.is = "active", !.role = req[r].new] \in Account
      BY <3>1 DEF Absent, Account
    <3>3. QED
      BY <1>2, <2>2, <3>2 DEF AccountAfter, Inv, Tables
  <2>3. CASE req[r].op = "update"
    <3>1. req[r].new \in Role \cup {"active", "inactive"}
      BY <1>1, <2>3 DEF ChangeShaped, Values
    <3>2. (IF req[r].new \in Role THEN [account[req[r].obj] EXCEPT !.role = req[r].new]
           ELSE [account[req[r].obj] EXCEPT !.is = req[r].new]) \in Account
      BY <2>1, <3>1 DEF Account
    <3>3. QED
      BY <1>2, <2>3, <3>2 DEF AccountAfter, Inv, Tables
  <2>4. CASE req[r].op \in {"block", "unblock"}
    <3>1. \A b \in BOOLEAN : [account[req[r].obj] EXCEPT !.blocked = b] \in Account
      BY <2>1 DEF Account
    <3>2. QED
      BY <1>2, <2>4, <3>1 DEF AccountAfter, Inv, Tables
  <2>5. QED
    BY <1>1, <2>2, <2>3, <2>4 DEF OnAccount
<1>5. ASSUME NEW p \in Req PROVE Shaped(req[p])'
  <2>1. CASE p = r
    BY <1>3, <2>1, IdleShaped DEF Shaped, Idle, Launches, OnAccount, OnApp
  <2>2. CASE p # r
    <3>1. Shaped(req[p]) /\ req'[p] = req[p]
      BY <1>3, <2>2 DEF Inv
    <3>2. req[p].op \in OnApp => (Refused(req[p]) <=> Refused(req[p])')
      BY <1>2, <3>1 DEF Refused, InTable, OnApp, OnAccount
    <3>3. req[p].op \in OnAccount => req[p].op \notin OnApp
      BY DEF OnAccount, OnApp
    <3>4. LaunchShaped(req[p]) => LaunchShaped(req[p])'
      BY <1>2, <3>1 DEF LaunchShaped
    <3>5. ChangeShaped(req[p]) => ChangeShaped(req[p])'
      BY <3>1, <3>2, <3>3 DEF ChangeShaped
    <3>6. QED
      BY <1>2, <3>1, <3>4, <3>5 DEF Shaped, redis
  <2>3. QED
    BY <2>1, <2>2
<1>6. OneFlush'
  BY <1>3, IdleShaped DEF Inv, OneFlush
<1>7. QED
  BY <1>2, <1>3, <1>4, <1>5, <1>6 DEF Inv, Tables, Codes, redis

LEMMA CommitAppKeepsTables == ASSUME Inv, NEW r \in Req, CommitApp(r) PROVE Tables'
<1>1. req[r] \in Request /\ ChangeShaped(req[r]) /\ req[r].op \in OnApp
  BY DEF Inv, CommitApp, Shaped
<1>2. UNCHANGED account /\ app' = AppAfter(req[r])
  BY DEF CommitApp
<1>3. req[r].obj \in App /\ app[req[r].obj] \in Application
  BY <1>1 DEF ChangeShaped, Inv, Tables
<1>4. app' \in [App -> Application]
  <2>1. CASE req[r].op = "register"
    <3>1. [is |-> "on", trap |-> req[r].new = "trap"] \in Application
      BY DEF Application
    <3>2. QED
      BY <1>2, <2>1, <3>1 DEF AppAfter, Inv, Tables
  <2>2. CASE req[r].op = "edit"
    <3>1. req[r].new \in {"on", "off", "trap", "plain"}
      BY <1>1, <2>2 DEF ChangeShaped, Values
    <3>2. (IF req[r].new \in {"on", "off"} THEN [app[req[r].obj] EXCEPT !.is = req[r].new]
           ELSE [app[req[r].obj] EXCEPT !.trap = req[r].new = "trap"]) \in Application
      BY <1>3, <3>1 DEF Application
    <3>3. QED
      BY <1>2, <2>2, <3>2 DEF AppAfter, Inv, Tables
  <2>3. CASE req[r].op = "delete"
    <3>1. [app[req[r].obj] EXCEPT !.is = "deleted"] \in Application
      BY <1>3 DEF Application
    <3>2. QED
      BY <1>2, <2>3, <3>1 DEF AppAfter, Inv, Tables
  <2>4. QED
    BY <1>1, <2>1, <2>2, <2>3 DEF OnApp
<1>5. rows' \in [Role \X App -> 0 .. 2]
  BY DEF CommitApp, Inv, Tables
<1>6. QED
  BY <1>2, <1>4, <1>5 DEF Inv, Tables

\* What a change makes of its application: it stays in the table or leaves it
\* for good.
LEMMA AppAfterOnes ==
  ASSUME Inv, NEW r \in Req, CommitApp(r)
  PROVE  /\ \A a \in App \ {req[r].obj} : app'[a] = app[a]
         /\ \A a \in App : app'[a].is = "absent" => app[a].is = "absent"
         /\ \A a \in App : app[a].is = "deleted" => app'[a].is = "deleted"
         /\ \A k \in Role \X App : rows'[k] > 0 => rows[k] > 0
<1>1. /\ req[r] \in Request /\ ChangeShaped(req[r]) /\ req[r].op \in OnApp /\ req[r].at = "flushed"
      /\ app \in [App -> Application] /\ rows \in [Role \X App -> 0 .. 2]
  BY DEF Inv, CommitApp, Shaped, Tables
<1>2. app' = AppAfter(req[r])
  BY DEF CommitApp
<1>3. req[r].obj \in App /\ ~Refused(req[r])
  BY <1>1 DEF ChangeShaped
<1>4. \A a \in App \ {req[r].obj} : app'[a] = app[a]
  BY <1>1, <1>2 DEF AppAfter
<1>5. /\ app'[req[r].obj].is # "absent"
      /\ app[req[r].obj].is # "deleted"
  <2>1. CASE req[r].op = "register"
    BY <1>1, <1>2, <1>3, <2>1 DEF AppAfter, Refused, OnAccount
  <2>2. CASE req[r].op = "edit"
    <3>1. InTable(req[r].obj)
      BY <1>3, <2>2 DEF Refused, OnApp, OnAccount
    <3>2. QED
      BY <1>1, <1>2, <1>3, <2>2, <3>1 DEF AppAfter, InTable, Application
  <2>3. CASE req[r].op = "delete"
    <3>1. InTable(req[r].obj)
      BY <1>3, <2>3 DEF Refused, OnApp, OnAccount
    <3>2. QED
      BY <1>1, <1>2, <1>3, <2>3, <3>1 DEF AppAfter, InTable, Application
  <2>4. QED
    BY <1>1, <2>1, <2>2, <2>3 DEF OnApp
<1>6. \A k \in Role \X App : rows'[k] > 0 => rows[k] > 0
  BY <1>1 DEF CommitApp
<1>7. QED
  BY <1>4, <1>5, <1>6

LEMMA CommitAppInv == ASSUME Inv, NEW r \in Req, CommitApp(r) PROVE Inv'
<1>1. req[r] \in Request /\ ChangeShaped(req[r]) /\ req[r].op \in OnApp /\ req[r].at = "flushed"
  BY DEF Inv, CommitApp, Shaped
<1>2. UNCHANGED <<account, redis, edits>> /\ Tables' /\ app \in [App -> Application]
  BY CommitAppKeepsTables DEF CommitApp, Inv, Tables
<1> DEFINE plain(p) == req[p].plain \/ (req[p].op \in Launches /\ req[p].obj = req[r].obj
                                          /\ ~app'[req[r].obj].trap)
<1>3. req' = [p \in Req |-> IF p = r THEN Idle ELSE [req[p] EXCEPT !.plain = plain(p)]]
  BY DEF CommitApp
<1>4. \A p \in Req : plain(p) \in BOOLEAN /\ req[p] \in Request
  BY DEF Inv, Request
<1> HIDE DEF plain
<1>5. \A p \in Req \ {r} : /\ req'[p] \in Request /\ req'[p].plain = plain(p)
                           /\ req'[p].op = req[p].op /\ req'[p].at = req[p].at
                           /\ req'[p].who = req[p].who /\ req'[p].obj = req[p].obj
                           /\ req'[p].new = req[p].new /\ req'[p].role = req[p].role
                           /\ req'[p].could = req[p].could /\ req'[p].late = req[p].late
                           /\ req'[p].exact = req[p].exact
  <2> SUFFICES ASSUME NEW p \in Req \ {r}, NEW b \in BOOLEAN, b = plain(p)
               PROVE  /\ [req[p] EXCEPT !.plain = b] \in Request
                      /\ \A s : s = [req[p] EXCEPT !.plain = b] =>
                           /\ s.plain = b
                           /\ s.op = req[p].op /\ s.at = req[p].at
                           /\ s.who = req[p].who /\ s.obj = req[p].obj
                           /\ s.new = req[p].new /\ s.role = req[p].role
                           /\ s.could = req[p].could /\ s.late = req[p].late
                           /\ s.exact = req[p].exact
    BY <1>3, <1>4
  <2> QED
    BY <1>4 DEF Request
<1>6. req'[r] = Idle /\ req' \in [Req -> Request]
  BY <1>3, <1>5, IdleShaped
<1>7. ASSUME NEW p \in Req PROVE Shaped(req[p])'
  <2>1. CASE p = r
    BY <1>6, <2>1, IdleShaped DEF Shaped, Idle, Launches, OnAccount, OnApp
  <2>2. CASE p # r
    <3>1. Shaped(req[p]) /\ p \in Req \ {r} /\ req[p] \in Request
      BY <1>4, <2>2 DEF Inv
    <3>2. ASSUME req[p].op \in Launches PROVE LaunchShaped(req[p])'
      <4>1. LaunchShaped(req[p])
        BY <3>1, <3>2 DEF Shaped
      <4>2. req[p].plain => plain(p)
        BY DEF plain
      <4>3. ~app'[req[p].obj].trap => plain(p) \/ app[req[p].obj] = app'[req[p].obj]
        BY <3>2, <4>1, AppAfterOnes DEF plain, LaunchShaped
      <4>4. req[p].role # None /\ rows'[<<req[p].role, req[p].obj>>] > 0
              => rows[<<req[p].role, req[p].obj>>] > 0
        BY <3>1, <4>1, AppAfterOnes DEF LaunchShaped, Request
      <4>5. QED
        BY <1>5, <3>1, <4>1, <4>2, <4>3, <4>4, AppAfterOnes DEF LaunchShaped
    <3>3. ASSUME req[p].op \in OnAccount \cup OnApp PROVE ChangeShaped(req[p])'
      <4>1. ChangeShaped(req[p])
        BY <3>1, <3>3 DEF Shaped
      <4>2. ASSUME req[p].at = "flushed", req[p].op \in OnApp PROVE ~Refused(req[p])'
        <5>1. req[p].obj # req[r].obj /\ req[p].obj \in App /\ ~Refused(req[p])
          BY <1>1, <3>1, <4>1, <4>2 DEF Inv, OneFlush, ChangeShaped
        <5>2. app'[req[p].obj] = app[req[p].obj]
          BY <5>1, AppAfterOnes
        <5>3. QED
          BY <1>5, <3>1, <4>2, <5>1, <5>2 DEF Refused, InTable, OnApp, OnAccount
      <4>3. QED
        BY <1>5, <3>1, <4>1, <4>2 DEF ChangeShaped
    <3>4. QED
      BY <1>2, <1>5, <3>1, <3>2, <3>3 DEF Shaped, redis
  <2>3. QED
    BY <2>1, <2>2
<1>8. OneFlush'
  BY <1>5, <1>6, IdleShaped DEF Inv, OneFlush
<1>9. QED
  BY <1>2, <1>6, <1>7, <1>8 DEF Inv, Codes, redis

-----------------------------------------------------------------------------

LEMMA NextInv == ASSUME Inv, [Next]_vars PROVE Inv'
<1>1. CASE UNCHANGED vars
  <2>1. UNCHANGED <<tables, redis, req, edits>>
    BY <1>1 DEF vars, tables, redis
  <2>2. \A p \in Req : Shaped(req[p])'
    BY <2>1, ShapedLasts DEF redis
  <2>3. QED
    BY <2>1, <2>2 DEF Inv, Tables, Codes, OneFlush, tables, redis
<1>2. ASSUME NEW r \in Req, Step(r) PROVE Inv'
  <2>1. SpringTrap(r) \/ GrantAccess(r) \/ Done(r) => Inv'
    BY AnswerInv DEF SpringTrap, GrantAccess, Done
  <2>2. QED
    BY <1>2, <2>1, CheckTrapInv, ReadAppInv, ReadPermissionInv, StoreCodeInv, VerifyReadInv,
       VerifyDeleteInv, WriteInv, CommitAccountInv, CommitAppInv DEF Step
<1>3. ASSUME NEW r \in Req, Fail(r) PROVE Inv'
  BY <1>3, AnswerInv DEF Fail
<1>4. ASSUME NEW r \in Req, NEW op \in OnAccount \cup OnApp, NEW u \in User, Manage(r, op, u)
      PROVE  Inv'
  BY <1>4, ManageInv
<1>5. QED
  BY <1>1, <1>2, <1>3, <1>4, LaunchInv, RedeemInv, ExpireInv DEF Next

LEMMA Invariant == Spec => []Inv
<1>1. Init => Inv
  BY InitInv
<1>2. Inv /\ [Next]_vars => Inv'
  BY NextInv
<1>3. QED
  BY <1>1, <1>2, PTL DEF Spec

\* The tables, Redis and the requests keep their types.
THEOREM TypeCorrect == Spec => []TypeOK
<1>1. Inv => TypeOK
  BY DEF Inv, Tables, Codes, Request, Shaped, LaunchShaped, TypeOK
<1>2. QED
  BY <1>1, Invariant, PTL

\* Nobody with a role is let in who could not read the application when loaded
\* (sso.py:95, sso.py:103).
THEOREM RoleTheorem == Spec => []RoleDecides
<1>1. Inv => RoleDecides
  BY DEF Inv, Request, Shaped, LaunchShaped, ChangeShaped, RoleDecides, Launches, OnAccount, OnApp
<1>2. QED
  BY <1>1, Invariant, PTL

\* No launch of a honeypot comes through (honeypot_service.py).
THEOREM TrapTheorem == Spec => []TrapNeverOpens
<1>1. Inv => TrapNeverOpens
  BY DEF Inv, Request, Shaped, LaunchShaped, ChangeShaped, TrapNeverOpens, Launches, OnAccount, OnApp
<1>2. QED
  BY <1>1, Invariant, PTL

\* A code whose acceptance was answered is refused from then on
\* (verify_auth_code).
THEOREM SpentTheorem == Spec => []SpentCodeRefused
<1>1. Inv => SpentCodeRefused
  BY DEF Inv, Shaped, SpentCodeRefused
<1>2. QED
  BY <1>1, Invariant, PTL

-----------------------------------------------------------------------------

LEMMA LastAdminStep ==
  ASSUME Inv, [Next]_vars, AdminsLeft # {}, AdminsLeft' = {}
  PROVE  \E r \in Req : /\ req[r].at = "flushed" /\ req'[r].at = "idle"
                        /\ \/ req[r].who \notin AdminsLeft
                           \/ req[r].op = "update" /\ req[r].obj = req[r].who
                           \/ req[r].op = "block" /\ req[r].obj = req[r].who /\ ~req[r].exact
<1>1. account' # account
  BY DEF AdminsLeft, Administers, Able
<1>2. PICK r \in Req : CommitAccount(r)
  BY <1>1 DEF Next, Step, vars, tables, Launch, Redeem, Manage, CheckTrap, SpringTrap, ReadApp,
     ReadPermission, StoreCode, GrantAccess, Done, VerifyRead, VerifyDelete, Expire, Write,
     CommitApp, Fail
<1>3. req[r].at = "flushed" /\ req'[r].at = "idle" /\ account' = AccountAfter(req[r])
  BY <1>2, IdleShaped DEF CommitAccount, Answer, Inv
<1>4. req[r].op \in OnAccount /\ ChangeShaped(req[r])
  BY <1>2 DEF CommitAccount, Inv, Shaped
<1>5. ASSUME req[r].who \in AdminsLeft
      PROVE  \/ req[r].op = "update" /\ req[r].obj = req[r].who
             \/ req[r].op = "block" /\ req[r].obj = req[r].who /\ ~req[r].exact
  <2>0. PICK u \in User : u = req[r].who /\ Administers(u)
    BY <1>5 DEF AdminsLeft
  <2>1. ~Administers(u)'
    BY DEF AdminsLeft
  <2>2. req[r].obj = u
    <3> SUFFICES ASSUME req[r].obj # u PROVE account'[u] = account[u]
      BY <2>0, <2>1 DEF Administers, Able
    <3> QED
      BY <1>3, <2>0 DEF AccountAfter, Inv, Tables
  <2>3. req[r].op # "create" /\ (req[r].op = "block" => ~req[r].exact)
    BY <1>4, <2>0, <2>2 DEF ChangeShaped
  <2>4. req[r].op # "unblock"
    <3> SUFFICES ASSUME req[r].op = "unblock" PROVE FALSE
      OBVIOUS
    <3>1. account'[u] = [account[u] EXCEPT !.blocked = FALSE]
      BY <1>3, <2>0, <2>2 DEF AccountAfter, Inv, Tables
    <3>2. account[u] \in Account
      BY DEF Inv, Tables
    <3>3. QED
      BY <2>0, <2>1, <3>1, <3>2 DEF Administers, Able, Account
  <2>5. QED
    BY <1>4, <2>0, <2>2, <2>3, <2>4 DEF OnAccount
<1>6. QED
  BY <1>3, <1>5

\* The last administrator is lost by an update of the own account, by a block
\* of it under another spelling of its id (users.py:123 against
\* user_service.py:39), or by somebody who is none any more.
THEOREM LastAdminTheorem == Spec => LastAdminLost
<1>1. Inv /\ [Next]_vars =>
        [AdminsLeft # {} /\ AdminsLeft' = {} =>
           \E r \in Req : /\ req[r].at = "flushed" /\ req'[r].at = "idle"
                          /\ \/ req[r].who \notin AdminsLeft
                             \/ req[r].op = "update" /\ req[r].obj = req[r].who
                             \/ req[r].op = "block" /\ req[r].obj = req[r].who /\ ~req[r].exact]_vars
  BY LastAdminStep
<1>2. QED
  BY <1>1, Invariant, PTL DEF Spec, LastAdminLost
=============================================================================
