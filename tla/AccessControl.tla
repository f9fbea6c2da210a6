---------------------------- MODULE AccessControl ----------------------------
(***************************************************************************)
(* Who may open which application: single sign-on codes and launch checks  *)
(* (backend/app/api/v1/sso.py, services/sso_service.py), the honeypots in   *)
(* front of them (services/honeypot_service.py), and the administration of *)
(* accounts and applications that goes on meanwhile (api/v1/users.py,      *)
(* api/v1/applications.py).                                                *)
(*                                                                         *)
(* account, app and rows are the committed tables; codes is Redis.  Every  *)
(* await of a handler ends a step, and an administrator's change is seen   *)
(* by others from its commit.                                              *)
(***************************************************************************)
EXTENDS Integers, FiniteSets

CONSTANTS
  User, Role, App, Code, Req,
  Admin,          \* the role named "admin"
  None,           \* no role, no object, no code
  FirstAccounts,  \* the users table before the first request
  FirstApps,      \* the applications table
  FirstRows,      \* how many readable permission rows a role has for an application
  MaxEdits        \* bound on the administrative requests of a behaviour

Absent == [is |-> "absent", role |-> None, blocked |-> FALSE]
Account == [is : {"absent", "active", "inactive"}, role : Role \cup {None}, blocked : BOOLEAN]
Application == [is : {"absent", "on", "off", "deleted"}, trap : BOOLEAN]

ASSUME AccessAssumption ==
  /\ Admin \in Role /\ None \notin Role \cup User \cup App \cup Code
  /\ FirstAccounts \in [User -> Account] /\ FirstApps \in [App -> Application]
  /\ FirstRows \in [Role \X App -> 0 .. 2] /\ MaxEdits \in Nat

VARIABLES
  account,  \* the users table
  app,      \* the applications table
  rows,     \* readable rows of role_permissions, by role and application
  codes,    \* the codes in Redis, by the user they vouch for
  spent,    \* history: codes whose acceptance has been answered
  req,      \* the requests in flight
  edits     \* administrative requests so far

vars == <<account, app, rows, codes, spent, req, edits>>
tables == <<account, app, rows>>
redis == <<codes, spent>>

Launches == {"authorize", "check"}
OnAccount == {"create", "update", "block", "unblock"}
OnApp == {"register", "edit", "delete"}

\* role: the caller's role as get_current_user loaded it.  History: could, the
\* caller could read the application then; plain, the application was no
\* honeypot at some moment since the request came; late, the code was spent;
\* exact, the account is named the way the database spells its id.
Idle == [op |-> "none", at |-> "idle", who |-> None, obj |-> None, new |-> None,
         role |-> None, could |-> FALSE, plain |-> FALSE, late |-> FALSE, exact |-> TRUE]
Places == {"idle", "trap", "sprung", "app", "perm", "store", "grant",
           "get", "del", "write", "flushed", "done"}

Goto(r, at) == req' = [req EXCEPT ![r].at = at]
Answer(r) == req' = [req EXCEPT ![r] = Idle]
Finish(r) == req' = [req EXCEPT ![r] = [Idle EXCEPT !.at = "done"]]

Able(u) == account[u].is = "active" /\ ~account[u].blocked
Administers(u) == Able(u) /\ account[u].role = Admin
InTable(a) == app[a].is \in {"on", "off"}
OneRow(role, a) == rows[<<role, a>>] = 1

-----------------------------------------------------------------------------
(* Requests come in.  get_current_user loads the caller before anything else *)
(* is read; whom it refuses changes nothing.                                 *)

\* Faulty variant: the block is not looked at.
LaunchBlocked(r, op, u, a) ==
  LET role == account[u].role IN
  /\ req[r] = Idle /\ account[u].is = "active" /\ app[a].is # "absent"
  /\ req' = [req EXCEPT ![r] =
       [Idle EXCEPT !.op = op, !.at = "trap", !.who = u, !.obj = a, !.role = role,
                    !.could = role # None /\ rows[<<role, a>>] > 0, !.plain = ~app[a].trap]]
  /\ UNCHANGED <<tables, redis, edits>>

\* A client launches an application with its access token.
Launch(r, op, u, a) ==
  LET role == account[u].role IN
  /\ req[r] = Idle /\ Able(u) /\ app[a].is # "absent"
  /\ req' = [req EXCEPT ![r] =
       [Idle EXCEPT !.op = op, !.at = "trap", !.who = u, !.obj = a, !.role = role,
                    !.could = role # None /\ rows[<<role, a>>] > 0, !.plain = ~app[a].trap]]
  /\ UNCHANGED <<tables, redis, edits>>

\* An application redeems a code it was handed.
Redeem(r, c) ==
  /\ req[r] = Idle /\ (codes[c] # None \/ c \in spent)
  /\ req' = [req EXCEPT ![r] = [Idle EXCEPT !.op = "verify", !.at = "get", !.obj = c,
                                            !.late = c \in spent]]
  /\ UNCHANGED <<tables, redis, edits>>

\* What an administrative request is about, and the value it carries.
\* UserUpdate skips null, so no update takes a role away.
About(op) ==
  CASE op = "create" -> {v \in User : account[v].is = "absent"}
    [] op \in OnAccount \ {"create"} -> {v \in User : account[v].is # "absent"}
    [] op = "register" -> {a \in App : app[a].is = "absent"}
    [] op \in OnApp \ {"register"} -> {a \in App : InTable(a)}

Values(op) ==
  CASE op = "create" -> Role \cup {None}
    [] op = "update" -> Role \cup {"active", "inactive"}
    [] op = "register" -> {"trap", "plain"}
    [] op = "edit" -> {"on", "off", "trap", "plain"}
    [] op \in {"block", "unblock", "delete"} -> {None}

\* Faulty variant: one may block oneself.
ManageSelf(r, op, u) ==
  /\ req[r] = Idle /\ Administers(u) /\ edits < MaxEdits
  /\ \E obj \in About(op), new \in Values(op), exact \in BOOLEAN :
       /\ (op = "block" /\ obj = u) \/ exact
       /\ req' = [req EXCEPT ![r] = [Idle EXCEPT !.op = op, !.at = "write", !.who = u,
                                                 !.obj = obj, !.new = new, !.exact = exact]]
  /\ edits' = edits + 1
  /\ UNCHANGED <<tables, redis>>

\* require_admin, and for a block the comparison with the caller: of the
\* strings, whereas the account is looked up by the UUID its id is parsed to.
\* The same id in capitals or without dashes is not the caller's.  For other
\* requests the spelling is of no account.
Manage(r, op, u) ==
  /\ req[r] = Idle /\ Administers(u) /\ edits < MaxEdits
  /\ \E obj \in About(op), new \in Values(op), exact \in BOOLEAN :
       /\ (op = "block" /\ obj = u) \/ exact
       /\ ~(op = "block" /\ obj = u /\ exact)
       /\ req' = [req EXCEPT ![r] = [Idle EXCEPT !.op = op, !.at = "write", !.who = u,
                                                 !.obj = obj, !.new = new, !.exact = exact]]
  /\ edits' = edits + 1
  /\ UNCHANGED <<tables, redis>>

-----------------------------------------------------------------------------
(* A launch.                                                                *)

\* The row of an account is locked by an update that has been flushed.
RowFree(o) ==
  \A q \in Req : /\ ~(req[q].at = "flushed" /\ req[q].obj = o)
                 /\ ~(req[q].at = "sprung" /\ req[q].who = o)

\* Faulty variant: a honeypot that is switched off is no honeypot.
CheckTrapActive(r) ==
  LET q == req[r] IN
  /\ q.at = "trap"
  /\ IF app[q.obj].is = "on" /\ app[q.obj].trap
     THEN RowFree(q.who) /\ Goto(r, "sprung")
     ELSE Goto(r, "app")
  /\ UNCHANGED <<tables, redis, edits>>

\* check_honeypot: a hit flushes the alert, the block of the caller and the
\* notifications to the administrators.
CheckTrap(r) ==
  LET q == req[r] IN
  /\ q.at = "trap"
  /\ IF InTable(q.obj) /\ app[q.obj].trap
     THEN RowFree(q.who) /\ Goto(r, "sprung")
     ELSE Goto(r, "app")
  /\ UNCHANGED <<tables, redis, edits>>

\* The caller raises 403, and get_db rolls all of that back.
SpringTrap(r) ==
  /\ req[r].at = "sprung"
  /\ Answer(r)
  /\ UNCHANGED <<tables, redis, edits>>

ReadApp(r) ==
  LET q == req[r] IN
  /\ q.at = "app"
  /\ IF app[q.obj].is = "on" THEN Goto(r, "perm") ELSE Answer(r)
  /\ UNCHANGED <<tables, redis, edits>>

\* Faulty variant: a row of any role will do.
ReadPermissionAnyRole(r) ==
  LET q == req[r] IN
  /\ q.at = "perm"
  /\ IF \E role \in Role : OneRow(role, q.obj)
     THEN Goto(r, IF q.op = "check" THEN "grant" ELSE "store")
     ELSE Answer(r)
  /\ UNCHANGED <<tables, redis, edits>>

\* Two rows for one pair make scalar_one_or_none raise.  A caller without a
\* role is refused by check_access; generate_auth_code asks it nothing.
ReadPermission(r) ==
  LET q == req[r] IN
  /\ q.at = "perm"
  /\ IF q.role = None
     THEN IF q.op = "check" THEN Answer(r) ELSE Goto(r, "store")
     ELSE IF OneRow(q.role, q.obj)
     THEN Goto(r, IF q.op = "check" THEN "grant" ELSE "store")
     ELSE Answer(r)
  /\ UNCHANGED <<tables, redis, edits>>

\* SETEX, under a code nobody has seen; then the audit row is committed.
StoreCode(r, c) ==
  LET q == req[r] IN
  /\ q.at = "store"
  /\ codes[c] = None /\ \A p \in Req : req[p].obj # c
  /\ codes' = [codes EXCEPT ![c] = q.who]
  /\ spent' = spent \ {c}
  /\ Finish(r)
  /\ UNCHANGED <<tables, edits>>

\* check_access commits its audit row and answers.
GrantAccess(r) ==
  /\ req[r].at = "grant"
  /\ Answer(r)
  /\ UNCHANGED <<tables, redis, edits>>

Done(r) ==
  /\ req[r].at = "done"
  /\ Answer(r)
  /\ UNCHANGED <<tables, redis, edits>>

-----------------------------------------------------------------------------
(* verify_auth_code asks nothing of the database.                           *)

VerifyRead(r) ==
  /\ req[r].at = "get"
  /\ IF codes[req[r].obj] = None THEN Answer(r) ELSE Goto(r, "del")
  /\ UNCHANGED <<tables, redis, edits>>

\* Faulty variant: the code stays in Redis.
VerifyKeep(r) ==
  /\ req[r].at = "del"
  /\ spent' = spent \cup {req[r].obj}
  /\ Answer(r)
  /\ UNCHANGED <<tables, codes, edits>>

VerifyDelete(r) ==
  LET c == req[r].obj IN
  /\ req[r].at = "del"
  /\ codes' = [codes EXCEPT ![c] = None]
  /\ spent' = spent \cup {c}
  /\ Answer(r)
  /\ UNCHANGED <<tables, edits>>

\* The 300 seconds of a code are over.
Expire(c) ==
  /\ codes[c] # None
  /\ codes' = [codes EXCEPT ![c] = None]
  /\ UNCHANGED <<tables, spent, req, edits>>

-----------------------------------------------------------------------------
(* The administrator's change.                                              *)

AccountAfter(q) ==
  [account EXCEPT ![q.obj] =
    CASE q.op = "create" -> [Absent EXCEPT !.is = "active", !.role = q.new]
      [] q.op = "update" -> IF q.new \in Role THEN [@ EXCEPT !.role = q.new]
                            ELSE [@ EXCEPT !.is = q.new]
      [] q.op = "block" -> [@ EXCEPT !.blocked = TRUE]
      [] q.op = "unblock" -> [@ EXCEPT !.blocked = FALSE]]

AppAfter(q) ==
  [app EXCEPT ![q.obj] =
    CASE q.op = "register" -> [is |-> "on", trap |-> q.new = "trap"]
      [] q.op = "edit" -> IF q.new \in {"on", "off"} THEN [@ EXCEPT !.is = q.new]
                          ELSE [@ EXCEPT !.trap = q.new = "trap"]
      [] q.op = "delete" -> [@ EXCEPT !.is = "deleted"]]

\* An existing email is a 409, a missing account or application a 404.
Refused(q) ==
  CASE q.op = "create" -> account[q.obj].is # "absent"
    [] q.op \in OnAccount \ {"create"} -> account[q.obj].is = "absent"
    [] q.op = "register" -> app[q.obj].is # "absent"
    [] q.op \in OnApp \ {"register"} -> ~InTable(q.obj)

\* The row is loaded and set.  A value it already has is no update; an update
\* waits for the row's lock.
Write(r) ==
  LET q == req[r] IN
  /\ q.at = "write"
  /\ \/ Refused(q) /\ Answer(r)
     \/ /\ ~Refused(q)
        /\ IF (q.op \in OnAccount /\ AccountAfter(q) = account)
              \/ (q.op \in OnApp /\ AppAfter(q) = app)
           THEN Finish(r)
           ELSE RowFree(q.obj) /\ Goto(r, "flushed")
  /\ UNCHANGED <<tables, redis, edits>>

CommitAccount(r) ==
  LET q == req[r] IN
  /\ q.at = "flushed" /\ q.op \in OnAccount
  /\ account' = AccountAfter(q)
  /\ Answer(r)
  /\ UNCHANGED <<app, rows, redis, edits>>

\* Faulty variant: one permission row less for every role.
CommitAppDecrement(r) ==
  LET q == req[r] IN
  /\ q.at = "flushed" /\ q.op \in OnApp
  /\ app' = AppAfter(q)
  /\ rows' = IF q.op = "delete"
             THEN [p \in Role \X App |-> IF p[2] = q.obj THEN rows[p] - 1 ELSE rows[p]]
             ELSE rows
  /\ Answer(r)
  /\ UNCHANGED <<account, redis, edits>>

\* Deleting an application takes its permission rows along.
CommitApp(r) ==
  LET q == req[r] IN
  /\ q.at = "flushed" /\ q.op \in OnApp
  /\ app' = AppAfter(q)
  /\ rows' = IF q.op = "delete"
             THEN [p \in Role \X App |-> IF p[2] = q.obj THEN 0 ELSE rows[p]]
             ELSE rows
  /\ req' = [p \in Req |-> IF p = r THEN Idle
               ELSE [req[p] EXCEPT !.plain = @ \/ (req[p].op \in Launches /\ req[p].obj = q.obj
                                                       /\ ~app'[q.obj].trap)]]
  /\ UNCHANGED <<account, redis, edits>>

\* The database or the process fails; what Redis was told stays.
Fail(r) ==
  /\ req[r].at # "idle"
  /\ Answer(r)
  /\ UNCHANGED <<tables, redis, edits>>

-----------------------------------------------------------------------------

Init ==
  /\ account = FirstAccounts /\ app = FirstApps /\ rows = FirstRows
  /\ codes = [c \in Code |-> None] /\ spent = {}
  /\ req = [r \in Req |-> Idle] /\ edits = 0

Step(r) ==
  \/ CheckTrap(r) \/ SpringTrap(r) \/ ReadApp(r) \/ ReadPermission(r)
  \/ \E c \in Code : StoreCode(r, c)
  \/ GrantAccess(r) \/ Done(r) \/ VerifyRead(r) \/ VerifyDelete(r)
  \/ Write(r) \/ CommitAccount(r) \/ CommitApp(r)

Next ==
  \/ \E r \in Req, op \in Launches, u \in User, a \in App : Launch(r, op, u, a)
  \/ \E r \in Req, op \in OnAccount \cup OnApp, u \in User : Manage(r, op, u)
  \/ \E r \in Req, c \in Code : Redeem(r, c)
  \/ \E r \in Req : Step(r) \/ Fail(r)
  \/ \E c \in Code : Expire(c)

Spec == Init /\ [][Next]_vars

\* A request that has started goes on, and Redis drops what has expired.
FairSpec ==
  /\ Spec
  /\ \A r \in Req : WF_vars(Step(r))
  /\ \A c \in Code : WF_vars(Expire(c))

-----------------------------------------------------------------------------

TypeOK ==
  /\ account \in [User -> Account] /\ app \in [App -> Application]
  /\ rows \in [Role \X App -> 0 .. 2]
  /\ codes \in [Code -> User \cup {None}]
  /\ spent \subseteq Code
  /\ \A r \in Req :
       /\ req[r].op \in {"none", "verify"} \cup Launches \cup OnAccount \cup OnApp
       /\ req[r].at \in Places
       /\ req[r].op \in Launches => req[r].who \in User /\ req[r].obj \in App
       /\ req[r].role \in Role \cup {None}
  /\ edits \in 0 .. MaxEdits

\* A caller who has a role is let into an application, or gets a code for it,
\* only if that role could read the application when the caller was loaded.
\* User, application and permission are read in three separate steps
\* (get_current_user, then sso.py:95 and sso.py:103), and administrators move
\* roles and delete applications in between.
RoleDecides ==
  \A r \in Req : req[r].at \in {"grant", "store"} /\ req[r].role # None => req[r].could

\* No launch of an application that was a honeypot all the time since the
\* request came is granted or gets a code, whatever the caller's role
\* (check_honeypot before every other question in sso.py).
TrapNeverOpens == \A r \in Req : req[r].at \in {"grant", "store"} => req[r].plain

\* A code whose acceptance has been answered is refused to everybody who
\* comes later (verify_auth_code).  Of those who come at the same time,
\* several may be served.
SpentCodeRefused == \A r \in Req : req[r].late => req[r].at # "del"

\* The last administrator who can act is lost only by an update of the own
\* account, by a block of it under another spelling of its id, or by the hand
\* of somebody who has lost the right to administer since it was checked
\* (require_admin, and the comparison of users.py:123).
AdminsLeft == {u \in User : Administers(u)}
LastAdminLost ==
  [][AdminsLeft # {} /\ AdminsLeft' = {} =>
       \E r \in Req : /\ req[r].at = "flushed" /\ req'[r].at = "idle"
                      /\ \/ req[r].who \notin AdminsLeft
                         \/ req[r].op = "update" /\ req[r].obj = req[r].who
                         \/ req[r].op = "block" /\ req[r].obj = req[r].who /\ ~req[r].exact]_vars

\* "one button closes access everywhere" (demo-apps/NEW-DEMO-SCENARIO.md:150):
\* a user who stays blocked ends up with no code that could be redeemed and no
\* launch about to be granted.
BlockClosesAccess ==
  \A u \in User :
    <>[](account[u].blocked) =>
      <>[](/\ \A c \in Code : codes[c] # u
           /\ \A r \in Req : req[r].who = u => req[r].at # "grant")
=============================================================================
