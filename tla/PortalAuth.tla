----------------------------- MODULE PortalAuth -----------------------------
(***************************************************************************)
(* The portal's own sessions: login, the second factor, refresh rotation,  *)
(* logout, and the account switches that decide whether they succeed       *)
(* (backend/app/api/v1/auth.py, users.py and the services they call).      *)
(*                                                                         *)
(* Every request runs in one database transaction (database.py: get_db     *)
(* commits when the handler returns and rolls back when it raises) under   *)
(* PostgreSQL's READ COMMITTED, and every await is a point where another   *)
(* request may run.  A request therefore keeps what it read and what it    *)
(* has not committed in its own record req[r]; the other variables hold    *)
(* committed rows, or Redis keys, which take effect at once and are not    *)
(* undone by a rollback.                                                   *)
(***************************************************************************)
EXTENDS Naturals, FiniteSets

CONSTANTS
  User,           \* accounts
  Token,          \* refresh tokens the server can mint (the bound on sessions)
  Sid,            \* ids of MFA challenges (the bound on challenges)
  Req,            \* request slots: how many requests may be in flight
  None,           \* no user, token or challenge
  AccountOps,     \* account switches requests may ask for
  Careful         \* logins, by first token, whose refreshes come one at a time

ASSUME NoneAssumption == None \notin User \cup Token \cup Sid
ASSUME DisjointAssumption == Token \cap Sid = {}
ASSUME OpsAssumption == AccountOps \subseteq {"block", "unblock", "enableMfa", "disableMfa"}
ASSUME CarefulAssumption == Careful \subseteq Token

VARIABLES
  blocked,    \* users with is_blocked
  mfaOn,      \* users with mfa_enabled and a TOTP secret
  rows,       \* refresh tokens that have a row in the sessions table
  expired,    \* rows past their seven days
  owner,      \* user of every token ever handed to a client, or None
  root,       \* token of the login a token descends from, or None
  sidUser,    \* user a challenge was issued to, or None
  sidLive,    \* challenges present in Redis
  spent,      \* tokens and challenges whose use has been acknowledged
  req         \* the requests in flight

vars == <<blocked, mfaOn, rows, expired, owner, root, sidUser, sidLive, spent, req>>
account == <<blocked, mfaOn>>
sessions == <<rows, owner, root>>
challenges == <<sidUser, sidLive>>

-----------------------------------------------------------------------------
(* Requests.  "at" is the await the request is waiting behind, "new" a       *)
(* session row it inserted and has not committed, "write" its uncommitted    *)
(* change of the account.  late, barred and guarded remember, for the        *)
(* properties only, what was already true when the request arrived.          *)

Ops == {"none", "login", "verify", "refresh", "logout"} \cup AccountOps
Places == {"idle", "read", "user", "challenge", "discard", "insert", "rotate", "commit"}
Writes == {"nothing"} \cup AccountOps

Request == [op : Ops, at : Places, user : User \cup {None}, sid : Sid \cup {None},
            tok : Token \cup {None}, new : Token \cup {None}, write : Writes,
            late : BOOLEAN, barred : BOOLEAN, guarded : BOOLEAN]

Idle == [op |-> "none", at |-> "idle", user |-> None, sid |-> None, tok |-> None,
         new |-> None, write |-> "nothing",
         late |-> FALSE, barred |-> FALSE, guarded |-> FALSE]

At(r, op, at) == req[r].op = op /\ req[r].at = at
Goto(r, at) == req' = [req EXCEPT ![r].at = at]
Answer(r) == req' = [req EXCEPT ![r] = Idle]

Issued == {t \in Token : owner[t] # None}
Fresh == {t \in Token : owner[t] = None /\ \A r \in Req : req[r].new # t}

\* Faulty variant: the readers lock the row too, and none of them lets go.
RowLockedByReaders(t, r) ==
  t \in rows /\ \E q \in Req \ {r} :
    /\ req[q].tok = t
    /\ At(q, "refresh", "commit") \/ At(q, "refresh", "rotate") \/ At(q, "logout", "commit")

\* A request that has deleted a session row holds that row's lock until it ends.
RowLocked(t, r) ==
  t \in rows /\ \E q \in Req \ {r} : At(q, "refresh", "commit") /\ req[q].tok = t

\* The bound: a request that may mint a token or a challenge arrives only
\* while the finite sets still hold one for it.
Minting(ops) == {q \in Req : req[q].op \in ops}
TokenLeft ==
  Cardinality(Minting({"login", "verify", "refresh"})) < Cardinality({t \in Token : owner[t] = None})
SidLeft == Cardinality(Minting({"login"})) < Cardinality({s \in Sid : sidUser[s] = None})

Arrive(r, op, u, s, t, late) ==
  /\ req[r] = Idle
  /\ req' = [req EXCEPT ![r] =
               [op |-> op, at |-> "read", user |-> u, sid |-> s, tok |-> t, new |-> None,
                write |-> "nothing",
                late |-> late, barred |-> u \in blocked, guarded |-> u \in mfaOn]]
  /\ UNCHANGED <<account, sessions, expired, challenges, spent>>

\* No other refresh of the login that t descends from is in flight: the portal's
\* window shares one among all its requests.  It does so only with itself, and a
\* logout does not wait for it: a second window, a reload or a desktop
\* application makes a login one that is not in Careful.
RefreshAlone(t) == \A q \in Req : req[q].op = "refresh" => root[req[q].tok] # root[t]

-----------------------------------------------------------------------------
(* Login with a correct password.  The user row read first is the one the    *)
(* session keeps: the later SELECT of the same row does not refresh it.      *)

LoginArrive(r, u) ==
  /\ TokenLeft /\ SidLeft
  /\ Arrive(r, "login", u, None, None, FALSE)

\* Faulty variant: the second factor is not asked for.
LoginReadNoMfa(r) ==
  /\ At(r, "login", "read")
  /\ IF req[r].user \in blocked THEN Answer(r) ELSE Goto(r, "insert")
  /\ UNCHANGED <<account, sessions, expired, challenges, spent>>

LoginRead(r) ==
  /\ At(r, "login", "read")
  /\ \/ req[r].user \in mfaOn /\ Goto(r, "challenge")
     \/ req[r].user \notin mfaOn \cup blocked /\ Goto(r, "insert")
     \/ req[r].user \in blocked \ mfaOn /\ Answer(r)
  /\ UNCHANGED <<account, sessions, expired, challenges, spent>>

LoginChallenge(r) ==
  /\ At(r, "login", "challenge")
  /\ \E s \in Sid : /\ sidUser[s] = None
                    /\ sidUser' = [sidUser EXCEPT ![s] = req[r].user]
                    /\ sidLive' = sidLive \cup {s}
  /\ Answer(r)
  /\ UNCHANGED <<account, sessions, expired, spent>>

\* Insert of the session row by login and verify-mfa.
OpenSession(r) ==
  /\ req[r].op \in {"login", "verify"} /\ req[r].at = "insert"
  /\ \E n \in Fresh : req' = [req EXCEPT ![r].new = n, ![r].at = "commit"]
  /\ UNCHANGED <<account, sessions, expired, challenges, spent>>

-----------------------------------------------------------------------------
(* Verification of the second factor.                                        *)

VerifyArrive(r, s) ==
  /\ sidUser[s] # None /\ TokenLeft
  /\ Arrive(r, "verify", sidUser[s], s, None, s \in spent)

VerifyRead(r) ==
  /\ At(r, "verify", "read")
  /\ IF req[r].sid \in sidLive THEN Goto(r, "user") ELSE Answer(r)
  /\ UNCHANGED <<account, sessions, expired, challenges, spent>>

\* A code matches only while the account has a secret; is_blocked is not read.
VerifyCode(r) ==
  /\ At(r, "verify", "user")
  /\ \/ req[r].user \in mfaOn /\ Goto(r, "discard")
     \/ Answer(r)
  /\ UNCHANGED <<account, sessions, expired, challenges, spent>>

VerifyDiscard(r) ==
  /\ At(r, "verify", "discard")
  /\ sidLive' = sidLive \ {req[r].sid}
  /\ Goto(r, "insert")
  /\ UNCHANGED <<account, sessions, expired, sidUser, spent>>

-----------------------------------------------------------------------------
(* Refresh and logout.                                                       *)

RefreshArrive(r, t) ==
  /\ t \in Issued /\ TokenLeft
  /\ root[t] \in Careful => RefreshAlone(t)
  /\ Arrive(r, "refresh", owner[t], None, t, t \in spent)

\* Faulty variant: the token's signature is trusted, the sessions table is not read.
RefreshReadNoRow(r) ==
  /\ At(r, "refresh", "read")
  /\ IF req[r].tok \notin expired THEN Goto(r, "user") ELSE Answer(r)
  /\ UNCHANGED <<account, sessions, expired, challenges, spent>>

RefreshRead(r) ==
  /\ At(r, "refresh", "read")
  /\ IF req[r].tok \in rows \ expired THEN Goto(r, "user") ELSE Answer(r)
  /\ UNCHANGED <<account, sessions, expired, challenges, spent>>

\* Faulty variant: is_blocked is not read.
RefreshUserUnchecked(r) ==
  /\ At(r, "refresh", "user")
  /\ Goto(r, "rotate")
  /\ UNCHANGED <<account, sessions, expired, challenges, spent>>

RefreshUser(r) ==
  /\ At(r, "refresh", "user")
  /\ IF req[r].user \in blocked THEN Answer(r) ELSE Goto(r, "rotate")
  /\ UNCHANGED <<account, sessions, expired, challenges, spent>>

\* One flush inserts the new row and deletes the old one.  The DELETE waits
\* for the row's lock; finding the row already gone is no error.
RefreshRotate(r) ==
  /\ At(r, "refresh", "rotate")
  /\ ~RowLocked(req[r].tok, r)
  /\ \E n \in Fresh : req' = [req EXCEPT ![r].new = n, ![r].at = "commit"]
  /\ UNCHANGED <<account, sessions, expired, challenges, spent>>

LogoutArrive(r, t) ==
  /\ t \in Issued
  /\ Arrive(r, "logout", owner[t], None, t, FALSE)

LogoutRead(r) ==
  /\ At(r, "logout", "read")
  /\ Goto(r, "commit")
  /\ UNCHANGED <<account, sessions, expired, challenges, spent>>

-----------------------------------------------------------------------------
(* The account switches.  An attribute set to the value it was read with is  *)
(* not written, so each switch records its change only if the row it read    *)
(* did not have it.  MFA switches need an account that is not blocked.       *)

AccountArrive(r, op, u) ==
  /\ op \in AccountOps
  /\ Arrive(r, op, u, None, None, FALSE)

AccountRead(r) ==
  LET op == req[r].op
      u == req[r].user
      mfaOp == op \in {"enableMfa", "disableMfa"}
      changes == \/ op = "block" /\ u \notin blocked
                 \/ op = "unblock" /\ u \in blocked
                 \/ op = "enableMfa" /\ u \notin mfaOn
                 \/ op = "disableMfa" /\ u \in mfaOn
  IN /\ op \in AccountOps /\ req[r].at = "read"
     /\ IF mfaOp /\ u \in blocked
        THEN Answer(r)
        ELSE req' = [req EXCEPT ![r].at = "commit",
                                ![r].write = IF changes THEN op ELSE "nothing"]
     /\ UNCHANGED <<account, sessions, expired, challenges, spent>>

-----------------------------------------------------------------------------
(* The end of a transaction, and the clock.                                  *)

\* Requests on u that no longer count as having arrived under the old setting.
Release(r, u) ==
  [q \in Req |->
     IF q = r THEN Idle
     ELSE IF req[q].user # u THEN req[q]
     ELSE [req[q] EXCEPT !.barred = @ /\ req[r].write # "unblock",
                         !.guarded = @ /\ req[r].write # "disableMfa"]]

\* Faulty variant: a refresh merges its session into the table, the old row with it.
RowsAfterMerging(q) ==
  (rows \ {q.tok}) \cup ({q.new} \ {None}) \cup (IF q.op = "refresh" THEN {q.tok} ELSE {})

\* The sessions table once q's transaction is committed.
RowsAfter(q) == (rows \ {q.tok}) \cup ({q.new} \ {None})

Commit(r) ==
  LET q == req[r] IN
  /\ q.at = "commit"
  /\ q.op = "logout" => ~RowLocked(q.tok, r)
  /\ rows' = RowsAfter(q) /\ expired' = expired \ {q.tok}
  /\ owner' = [t \in Token |-> IF t = q.new THEN q.user ELSE owner[t]]
  /\ root' = [t \in Token |-> IF t # q.new THEN root[t]
                              ELSE IF q.op = "refresh" THEN root[q.tok] ELSE q.new]
  /\ spent' = spent \cup ({q.tok, q.sid} \ {None})
  /\ blocked' = CASE q.write = "block" -> blocked \cup {q.user}
                  [] q.write = "unblock" -> blocked \ {q.user}
                  [] OTHER -> blocked
  /\ mfaOn' = CASE q.write = "enableMfa" -> mfaOn \cup {q.user}
                [] q.write = "disableMfa" -> mfaOn \ {q.user}
                [] OTHER -> mfaOn
  /\ req' = Release(r, q.user)
  /\ UNCHANGED challenges

\* A database or Redis error anywhere in the handler: the transaction is
\* rolled back, what was done in Redis stays done.
Fail(r) ==
  /\ req[r].at # "idle"
  /\ Answer(r)
  /\ UNCHANGED <<account, sessions, expired, challenges, spent>>

TokenExpires(t) ==
  /\ t \in rows \ expired
  /\ expired' = expired \cup {t}
  /\ UNCHANGED <<account, sessions, challenges, spent, req>>

ChallengeExpires(s) ==
  /\ s \in sidLive
  /\ sidLive' = sidLive \ {s}
  /\ UNCHANGED <<account, sessions, expired, sidUser, spent, req>>

-----------------------------------------------------------------------------

Init ==
  /\ blocked = {}
  /\ mfaOn \in SUBSET User
  /\ rows = {} /\ expired = {} /\ spent = {} /\ sidLive = {}
  /\ owner = [t \in Token |-> None]
  /\ root = [t \in Token |-> None]
  /\ sidUser = [s \in Sid |-> None]
  /\ req = [r \in Req |-> Idle]

Arrival(r) ==
  \/ \E u \in User : LoginArrive(r, u)
  \/ \E s \in Sid : VerifyArrive(r, s)
  \/ \E t \in Token : RefreshArrive(r, t) \/ LogoutArrive(r, t)
  \/ \E u \in User, op \in AccountOps : AccountArrive(r, op, u)

\* What the event loop does for a request it has started.
Step(r) ==
  \/ LoginRead(r) \/ LoginChallenge(r) \/ OpenSession(r)
  \/ VerifyRead(r) \/ VerifyCode(r) \/ VerifyDiscard(r)
  \/ RefreshRead(r) \/ RefreshUser(r) \/ RefreshRotate(r) \/ LogoutRead(r)
  \/ AccountRead(r) \/ Commit(r)

Next ==
  \/ \E r \in Req : Arrival(r) \/ Step(r) \/ Fail(r)
  \/ \E t \in Token : TokenExpires(t)
  \/ \E s \in Sid : ChallengeExpires(s)

Spec == Init /\ [][Next]_vars

\* A started request keeps running, and PostgreSQL queues the waiters of a
\* row lock: a request that can move again and again does move.
FairSpec == Spec /\ \A r \in Req : SF_vars(Step(r))

-----------------------------------------------------------------------------
(* What the code promises.                                                   *)

TypeOK ==
  /\ blocked \subseteq User /\ mfaOn \subseteq User
  /\ rows \subseteq Token /\ expired \subseteq Token
  /\ owner \in [Token -> User \cup {None}]
  /\ root \in [Token -> Token \cup {None}]
  /\ sidUser \in [Sid -> User \cup {None}]
  /\ sidLive \subseteq Sid
  /\ spent \subseteq Token \cup Sid
  /\ req \in [Req -> Request]

\* A refresh token whose exchange or logout was acknowledged, or a challenge
\* that was redeemed, opens no session for a request that arrives later,
\* whatever else is in flight (rotation in refresh_tokens, the deletes in
\* logout_user and verify_mfa).
SpentCredentialRefused == \A r \in Req : req[r].late => req[r].new = None

\* Once a block is committed, no login with a password and no refresh that
\* arrives afterwards obtains a session, until an unblock is committed
\* (the is_blocked checks of login and refresh_tokens, on rows they read
\* before other requests ran).
BlockedCannotRenew ==
  \A r \in Req : req[r].barred /\ req[r].op \in {"login", "refresh"} => req[r].new = None

\* The same for every way to open a session.  test_integration_blocking.py:6
\* says "User cannot login"; verify_mfa does not read is_blocked.
BlockedCannotLogin == \A r \in Req : req[r].barred => req[r].new = None

\* While an account has its second factor on, a password alone opens no
\* session: the MFA branch of login returns a challenge instead.
SecondFactorRequired ==
  \A r \in Req : req[r].guarded /\ req[r].op = "login" => req[r].new = None

\* A login whose refreshes come one at a time has at most one live session
\* row, whatever else is in flight, its own logouts included: refresh_tokens
\* rotates, "delete old session, create new" (auth_service.py:140).
OneLivePerLogin ==
  \A t, u \in rows : root[t] = root[u] /\ root[t] \in Careful => t = u

\* Every request that was started is answered: waiting for a session row's
\* lock never lasts for ever.
EveryRequestAnswered == \A r \in Req : req[r].at # "idle" ~> req[r].at = "idle"

\* The live token of a login.
LiveToken(c) ==
  IF \E t \in rows : root[t] = c THEN CHOOSE t \in rows : root[t] = c ELSE None

\* Logins with a refresh that has found its row and is not answered yet.
Renewing == {c \in Careful : \E r \in Req :
               req[r].op = "refresh" /\ req[r].at # "read" /\ root[req[r].tok] = c}

Chain == INSTANCE SessionChain
           WITH current <- [c \in Token |-> IF c \in Careful THEN LiveToken(c) ELSE None],
                renewing <- Renewing,
                used <- {t \in Issued : root[t] \in Careful}

\* The careful logins are the abstract chains of tokens, although the logout
\* (stores/auth.ts, handleLogout) does not wait for a refresh: opened once, one
\* live token, and closed by a logout for good unless a refresh had found the
\* row before it (refresh_tokens, logout_user).
ChainRefinement == Chain!Spec

Table == INSTANCE SessionTable WITH live <- rows

\* All logins, careful or not, and the requests that renew or end them: a token
\* is bound to the user who logged in, through every renewal, and one that was
\* replaced or logged out never has a row again (refresh_tokens, logout_user).
TableRefinement == Table!Spec
=============================================================================
