----------------------------- MODULE LoginGuard -----------------------------
(***************************************************************************)
(* What stands between a guesser and one account: the per-address counter  *)
(* in Redis (backend/app/core/rate_limit.py) and the failure count and     *)
(* lockout in the account's row (authenticate_user in auth_service.py),    *)
(* as the login handler of auth.py drives them.                            *)
(*                                                                         *)
(* Time passes in ticks.  Deadlines are kept as the ticks left: ttl for    *)
(* the Redis key of an address, lockLeft for locked_until.                 *)
(***************************************************************************)
EXTENDS Integers

CONSTANTS
  Ip,           \* client addresses
  Req,          \* request slots
  MaxRequests,  \* attempts an address has per window (5)
  Window,       \* ticks of a window (300 s)
  MaxFailed,    \* failures before the account is locked (MAX_FAILED_ATTEMPTS, 5)
  Lockout       \* ticks of a lockout (LOCKOUT_MINUTES, 30 min)

ASSUME BoundsAssumption == {MaxRequests, Window, MaxFailed, Lockout} \subseteq Nat \ {0}

VARIABLES
  hits,      \* the counter of every address, 0 when its key does not exist
  ttl,       \* ticks the key has left, 0 when no expiry is set
  failed,    \* failed_login_count, committed
  lockLeft,  \* ticks until locked_until, committed; 0 when not locked
  req,       \* the login requests in flight
  recent,    \* history: the age in ticks, up to Window, of every address's last attempts let through
  owed       \* history: the account's last wrong answers, as lockout counts them

vars == <<hits, ttl, failed, lockLeft, req, recent, owed>>
row == <<failed, lockLeft>>
history == <<recent, owed>>

\* How many of them are kept, the newest first: one more than may be younger
\* than Window.
Kept == 1 .. 2 * MaxRequests + 1

\* hot: on arrival the lockout was due.  failed and lock: the change the
\* request has flushed and not committed.
Idle == [at |-> "idle", ip |-> "none", good |-> FALSE, hot |-> FALSE, failed |-> 0, lock |-> 0]
Places == {"idle", "count", "expire", "read", "flush", "reject", "grant"}

Goto(r, at) == req' = [req EXCEPT ![r].at = at]
Answer(r) == req' = [req EXCEPT ![r] = Idle]

Arrive(r, ip, good) ==
  /\ req[r] = Idle
  /\ req' = [req EXCEPT ![r] = [Idle EXCEPT !.at = "count", !.ip = ip, !.good = good,
                                            !.hot = owed.left > 0]]
  /\ UNCHANGED <<hits, ttl, row, history>>

-----------------------------------------------------------------------------
(* The counter.  Only "= 1" and "> MaxRequests" are asked of it, so it is    *)
(* counted up to MaxRequests + 1 and no further.                             *)

Bumped(n) == IF n > MaxRequests THEN n ELSE n + 1

Pass(ip) ==
  recent' = [recent EXCEPT ![ip] = [k \in Kept |-> IF k = 1 THEN 0 ELSE recent[ip][k - 1]]]

\* Faulty variants: the limit is off by one; the window restarts on every attempt.
CountOffByOne(r) ==
  LET ip == req[r].ip
      current == Bumped(hits[ip])
  IN /\ req[r].at = "count"
     /\ hits' = [hits EXCEPT ![ip] = current]
     /\ Goto(r, IF current = 1 THEN "expire" ELSE "read")
     /\ Pass(ip)
     /\ UNCHANGED <<ttl, row, owed>>

CountRearming(r) ==
  LET ip == req[r].ip IN
  /\ req[r].at = "count"
  /\ hits' = [hits EXCEPT ![ip] = Bumped(@)]
  /\ Goto(r, "expire")
  /\ UNCHANGED <<ttl, row, history>>

Count(r) ==
  LET ip == req[r].ip
      current == Bumped(hits[ip])
  IN /\ req[r].at = "count"
     /\ hits' = [hits EXCEPT ![ip] = current]
     /\ \/ current > MaxRequests /\ Answer(r) /\ UNCHANGED recent
        \/ current <= MaxRequests /\ Goto(r, IF current = 1 THEN "expire" ELSE "read") /\ Pass(ip)
     /\ UNCHANGED <<ttl, row, owed>>

\* EXPIRE, a second round trip after INCR.
Expire(r) ==
  /\ req[r].at = "expire"
  /\ ttl' = [ttl EXCEPT ![req[r].ip] = Window]
  /\ Goto(r, "read")
  /\ UNCHANGED <<hits, row, history>>

-----------------------------------------------------------------------------
(* The account.  A wrong password is flushed to the row and then answered    *)
(* with a 401, which makes get_db roll the transaction back.                 *)

\* The row is read, its lockout is compared with the clock, and the password
\* is verified.  A right password finds nothing to reset: see failed below.
Read(r) ==
  /\ req[r].at = "read"
  /\ IF lockLeft > 0
     THEN Answer(r)
     ELSE IF req[r].good
     THEN req' = [req EXCEPT ![r].at = "grant", ![r].failed = 0]
     ELSE IF failed + 1 >= MaxFailed
     THEN req' = [req EXCEPT ![r].at = "flush", ![r].failed = 0, ![r].lock = Lockout]
     ELSE req' = [req EXCEPT ![r].at = "flush", ![r].failed = failed + 1]
  /\ UNCHANGED <<hits, ttl, row, history>>

\* The UPDATE of a wrong answer waits for the row's lock.
Flush(r) ==
  /\ req[r].at = "flush"
  /\ \A q \in Req : req[q].at # "reject"
  /\ Goto(r, "reject")
  /\ UNCHANGED <<hits, ttl, row, history>>

\* The 401 drops the update.
Reject(r) ==
  /\ req[r].at = "reject"
  /\ owed' = IF owed.streak + 1 = MaxFailed THEN [streak |-> 0, left |-> Lockout]
             ELSE [owed EXCEPT !.streak = @ + 1]
  /\ Answer(r)
  /\ UNCHANGED <<hits, ttl, row, recent>>

\* A right answer commits failed_login_count = 0 and locked_until = NULL.
Grant(r) ==
  /\ req[r].at = "grant"
  /\ failed' = 0 /\ lockLeft' = 0
  /\ owed' = [streak |-> 0, left |-> 0]
  /\ Answer(r)
  /\ UNCHANGED <<hits, ttl, recent>>

\* Redis or the process fails: what Redis was told stays, the rest is undone.
Fail(r) ==
  /\ req[r].at # "idle"
  /\ Answer(r)
  /\ UNCHANGED <<hits, ttl, row, history>>

-----------------------------------------------------------------------------

Less(n) == IF n = 0 THEN 0 ELSE n - 1
More(age) == IF age < Window THEN age + 1 ELSE Window

Tick ==
  /\ hits' = [ip \in Ip |-> IF ttl[ip] = 1 THEN 0 ELSE hits[ip]]
  /\ ttl' = [ip \in Ip |-> Less(ttl[ip])]
  /\ lockLeft' = Less(lockLeft)
  /\ recent' = [ip \in Ip |-> [k \in Kept |-> More(recent[ip][k])]]
  /\ owed' = [owed EXCEPT !.left = Less(@)]
  /\ UNCHANGED <<failed, req>>

Init ==
  /\ hits = [ip \in Ip |-> 0]
  /\ ttl = [ip \in Ip |-> 0]
  /\ failed = 0 /\ lockLeft = 0
  /\ req = [r \in Req |-> Idle]
  /\ recent = [ip \in Ip |-> [k \in Kept |-> Window]]
  /\ owed = [streak |-> 0, left |-> 0]

Step(r) == Count(r) \/ Expire(r) \/ Read(r) \/ Flush(r) \/ Reject(r) \/ Grant(r)

Next ==
  \/ \E r \in Req : Step(r) \/ Fail(r)
  \/ \E r \in Req, ip \in Ip, good \in BOOLEAN : Arrive(r, ip, good)
  \/ Tick

Spec == Init /\ [][Next]_vars

\* Time passes, and a started request goes on.
FairSpec == Spec /\ WF_vars(Tick) /\ \A r \in Req : WF_vars(Step(r))

-----------------------------------------------------------------------------

TypeOK ==
  /\ hits \in [Ip -> 0 .. MaxRequests + 1]
  /\ ttl \in [Ip -> 0 .. Window]
  /\ failed \in 0 .. MaxFailed - 1
  /\ lockLeft \in 0 .. Lockout
  /\ req \in [Req -> [at : Places, ip : Ip \cup {"none"}, good : BOOLEAN, hot : BOOLEAN,
                      failed : 0 .. MaxFailed - 1, lock : {0, Lockout}]]
  /\ recent \in [Ip -> [Kept -> 0 .. Window]]
  /\ owed \in [streak : 0 .. MaxFailed - 1, left : 0 .. Lockout]

\* An address gets through at most its limit within one tick, and at most twice
\* the limit within any Window ticks, the attempts of one counting window and
\* those of the next: the attempt before those is Window old
\* (check_rate_limit's INCR, EXPIRE and comparison, however they interleave).
AttemptsBounded ==
  \A ip \in Ip : recent[ip][MaxRequests + 1] > 0 /\ recent[ip][2 * MaxRequests + 1] = Window

\* No attempt prolongs a window: the key's expiry is set when it has none
\* (the count that reads 1, rate_limit.py:11).
WindowArmedOnce == [][\A ip \in Ip : ttl'[ip] > ttl[ip] => ttl[ip] = 0]_vars

\* A handler died between INCR and EXPIRE: nobody will ever set the key's
\* expiry, and the address stays refused.
Stranded(ip) ==
  /\ hits[ip] > 0 /\ ttl[ip] = 0
  /\ \A r \in Req : ~(req[r].at = "expire" /\ req[r].ip = ip)

\* An address that has used up its window gets another one, "5 attempts per
\* 5 minutes" (rate_limit.py:21), however often it tries meanwhile, unless a
\* handler died between the two commands.
WindowReopens == \A ip \in Ip : hits[ip] > MaxRequests ~> hits[ip] = 0 \/ Stranded(ip)

\* After MaxFailed wrong answers in a row the account lets nobody in for the
\* lockout time, not even with the right password (test_auth.py:335).
LockoutEnforced == \A r \in Req : req[r].hot => req[r].at # "grant"
=============================================================================
