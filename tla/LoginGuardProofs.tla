--------------------------- MODULE LoginGuardProofs ---------------------------
(***************************************************************************)
(* Proofs about the login guard, for any addresses, requests, limits and   *)
(* windows: its counters stay within their bounds, an address gets at most *)
(* twice its limit through in a window's time, and a window once begun is  *)
(* not prolonged.                                                          *)
(***************************************************************************)
EXTENDS LoginGuard, TLAPS

Request == [at : Places, ip : Ip \cup {"none"}, good : BOOLEAN, hot : BOOLEAN,
            failed : 0 .. MaxFailed - 1, lock : {0, Lockout}]
Stretch == [Kept -> 0 .. Window]

\* What a counter of n attempts with left ticks to go says of the attempts let
\* through, the youngest first.  Those after the first n were made before the
\* key's last expiry was set, and not in this tick; those after another full
\* window are as old as can be told.
Held(n) == IF n > MaxRequests THEN MaxRequests ELSE n
Spread(n, left, ages) ==
  \A k \in Kept :
    /\ k > Held(n) => ages[k] > 0
    /\ k > Held(n) + MaxRequests => ages[k] = Window
    /\ left > 0 /\ k > Held(n) => ages[k] >= Window - left

\* Who is about to set a key's expiry: one handler at most, and the key has none.
Arming == {r \in Req : req[r].at = "expire"}

Inv ==
  /\ TypeOK
  /\ \A r \in Req : req[r].at # "idle" => req[r].ip \in Ip
  /\ \A ip \in Ip : Spread(hits[ip], ttl[ip], recent[ip])
  /\ \A ip \in Ip : ttl[ip] > 0 => hits[ip] > 0
  /\ \A r \in Arming : ttl[req[r].ip] = 0 /\ hits[req[r].ip] > 0
  /\ \A r, q \in Arming : req[r].ip = req[q].ip => r = q

LEMMA Bounds == /\ MaxRequests \in Nat \ {0} /\ Window \in Nat \ {0}
                /\ MaxFailed \in Nat \ {0} /\ Lockout \in Nat \ {0}
BY BoundsAssumption

LEMMA IdleRequest == Idle \in Request /\ Idle.at = "idle"
BY Bounds DEF Idle, Request, Places

-----------------------------------------------------------------------------
(* The attempts that a counter stands for.                                  *)

LEMMA KeptOnes ==
  /\ MaxRequests + 1 \in Kept /\ 2 * MaxRequests + 1 \in Kept /\ Kept \subseteq Nat \ {0}
  /\ \A k \in Kept : k # 1 => k - 1 \in Kept
<1>1. PICK m \in Nat \ {0} : m = MaxRequests
  BY Bounds
<1>2. Kept = 1 .. 2 * m + 1
  BY <1>1 DEF Kept
<1>3. m + 1 \in Kept /\ 2 * m + 1 \in Kept
  BY <1>2
<1>4. QED
  BY <1>1, <1>2, <1>3

LEMMA StartSpread ==
  [k \in Kept |-> Window] \in Stretch /\ Spread(0, 0, [k \in Kept |-> Window])
BY Bounds DEF Stretch, Spread

LEMMA SpreadBounded ==
  ASSUME NEW n \in 0 .. MaxRequests + 1, NEW left, NEW ages, Spread(n, left, ages)
  PROVE  ages[MaxRequests + 1] > 0 /\ ages[2 * MaxRequests + 1] = Window
<1>1. PICK m \in Nat \ {0} : m = MaxRequests
  BY Bounds
<1>2. Held(n) \in 0 .. m
  BY <1>1 DEF Held
<1>3. m + 1 > Held(n) /\ 2 * m + 1 > Held(n) + m
  BY <1>2
<1>4. QED
  BY <1>1, <1>3, KeptOnes DEF Spread

LEMMA PassSpread ==
  ASSUME NEW n \in 0 .. MaxRequests - 1, NEW left \in 0 .. Window, NEW ages \in Stretch,
         Spread(n, left, ages),
         NEW later, later = [k \in Kept |-> IF k = 1 THEN 0 ELSE ages[k - 1]]
  PROVE  later \in Stretch /\ Spread(n + 1, left, later)
<1>1. \A k \in Kept : k = 1 \/ (k - 1 \in Kept /\ later[k] = ages[k - 1] /\ later[k] \in 0 .. Window)
  BY KeptOnes DEF Stretch
<1>2. later[1] = 0 /\ 1 \in Kept
  BY Bounds DEF Kept
<1>3. later \in Stretch
  BY <1>1, <1>2, Bounds DEF Stretch
<1>4. Held(n + 1) = n + 1 /\ Held(n) = n
  BY Bounds DEF Held
<1>5. ASSUME NEW k \in Kept
      PROVE  /\ k > n + 1 => later[k] > 0
             /\ k > n + 1 + MaxRequests => later[k] = Window
             /\ left > 0 /\ k > n + 1 => later[k] >= Window - left
  <2>1. CASE k = 1
    BY <2>1, Bounds
  <2>2. CASE k # 1
    <3>1. PICK j \in Kept : j = k - 1 /\ later[k] = ages[j] /\ j \in Nat /\ k \in Nat
      BY <1>1, <2>2, KeptOnes
    <3>2. /\ j > n => ages[j] > 0
          /\ j > n + MaxRequests => ages[j] = Window
          /\ left > 0 /\ j > n => ages[j] >= Window - left
      BY <1>4 DEF Spread
    <3>3. /\ k > n + 1 => j > n
          /\ k > n + 1 + MaxRequests => j > n + MaxRequests
      BY <3>1, Bounds
    <3>4. QED
      BY <3>1, <3>2, <3>3
  <2>3. QED
    BY <2>1, <2>2
<1>6. QED
  BY <1>3, <1>4, <1>5 DEF Spread

LEMMA RefuseSpread ==
  ASSUME NEW n \in 0 .. MaxRequests + 1, Bumped(n) > MaxRequests, NEW left, NEW ages, Spread(n, left, ages)
  PROVE  Spread(Bumped(n), left, ages)
<1>1. Held(Bumped(n)) = Held(n)
  BY Bounds DEF Held, Bumped
<1>2. QED
  BY <1>1 DEF Spread

LEMMA ArmSpread ==
  ASSUME NEW n, NEW left, NEW ages \in Stretch, Spread(n, left, ages) PROVE Spread(n, Window, ages)
<1>1. \A k \in Kept : ages[k] >= Window - Window
  BY Bounds DEF Stretch
<1>2. QED
  BY <1>1 DEF Spread

LEMMA TickSpread ==
  ASSUME NEW n \in 0 .. MaxRequests + 1, NEW left \in 0 .. Window, NEW ages \in Stretch,
         Spread(n, left, ages),
         NEW later, later = [k \in Kept |-> More(ages[k])]
  PROVE  later \in Stretch /\ Spread(IF left = 1 THEN 0 ELSE n, Less(left), later)
<1>1. \A k \in Kept : /\ ages[k] \in 0 .. Window /\ later[k] \in 0 .. Window /\ later[k] > 0
                      /\ later[k] = IF ages[k] < Window THEN ages[k] + 1 ELSE Window
  BY Bounds DEF Stretch, More
<1>2. later \in Stretch
  BY <1>1 DEF Stretch
<1>3. Held(n) \in 0 .. MaxRequests /\ Held(0) = 0
  BY Bounds DEF Held
<1>4. CASE left = 1
  <2>1. Less(left) = 0
    BY <1>4 DEF Less
  <2>2. ASSUME NEW k \in Kept, k > MaxRequests PROVE later[k] = Window
    <3>1. k \in Nat /\ k > Held(n)
      BY <1>3, <2>2, KeptOnes, Bounds
    <3>2. ages[k] >= Window - 1
      BY <1>4, <3>1 DEF Spread
    <3>3. QED
      BY <1>1, <3>2, Bounds
  <2>3. Spread(0, 0, later)
    BY <1>1, <1>3, <2>2, Bounds DEF Spread
  <2>4. QED
    BY <1>2, <1>4, <2>1, <2>3
<1>5. CASE left # 1
  <2>1. Less(left) = IF left = 0 THEN 0 ELSE left - 1
    BY DEF Less
  <2>2. \A k \in Kept : k > Held(n) + MaxRequests => later[k] = Window
    BY <1>1, Bounds DEF Spread
  <2>3. ASSUME Less(left) > 0, NEW k \in Kept, k > Held(n) PROVE later[k] >= Window - Less(left)
    <3>1. left > 0 /\ Less(left) = left - 1
      BY <2>1, <2>3
    <3>2. ages[k] >= Window - left
      BY <2>3, <3>1 DEF Spread
    <3>3. QED
      BY <1>1, <3>1, <3>2, Bounds
  <2>4. Spread(n, Less(left), later)
    BY <1>1, <2>2, <2>3 DEF Spread
  <2>5. QED
    BY <1>2, <1>5, <2>4
<1>6. QED
  BY <1>4, <1>5

-----------------------------------------------------------------------------

LEMMA InitInv == Init => Inv
<1> SUFFICES ASSUME Init PROVE Inv
  OBVIOUS
<1>1. req \in [Req -> Request] /\ \A r \in Req : req[r].at = "idle"
  BY IdleRequest DEF Init
<1>2. recent \in [Ip -> Stretch] /\ \A ip \in Ip : recent[ip] = [k \in Kept |-> Window]
  BY StartSpread DEF Init
<1>3. \A ip \in Ip : Spread(hits[ip], ttl[ip], recent[ip])
  BY <1>2, StartSpread DEF Init
<1>4. TypeOK
  BY <1>1, <1>2, Bounds DEF Init, TypeOK, Request, Stretch
<1>5. Arming = {}
  BY <1>1 DEF Arming
<1>6. \A ip \in Ip : ttl[ip] = 0
  BY DEF Init
<1>7. QED
  BY <1>1, <1>3, <1>4, <1>5, <1>6 DEF Inv

\* A step of one request that leaves the counters alone.
LEMMA ReplaceRequest ==
  ASSUME Inv, NEW r \in Req, NEW q \in Request, q.at # "idle" => q.ip \in Ip, q.at # "expire",
         req' = [req EXCEPT ![r] = q], UNCHANGED <<hits, ttl, recent>>,
         failed' \in 0 .. MaxFailed - 1, lockLeft' \in 0 .. Lockout,
         owed' \in [streak : 0 .. MaxFailed - 1, left : 0 .. Lockout]
  PROVE  Inv'
<1>1. req' \in [Req -> Request] /\ \A p \in Req : req'[p] = IF p = r THEN q ELSE req[p]
  BY DEF Inv, TypeOK, Request
<1>2. TypeOK'
  BY <1>1 DEF Inv, TypeOK, Request
<1>3. Arming' \subseteq Arming /\ \A p \in Arming' : req'[p] = req[p]
  BY <1>1 DEF Arming
<1>4. QED
  BY <1>1, <1>2, <1>3 DEF Inv

LEMMA ArriveInv ==
  ASSUME Inv, NEW r \in Req, NEW ip \in Ip, NEW good \in BOOLEAN, Arrive(r, ip, good) PROVE Inv'
<1> DEFINE due == owed.left > 0
           q(hot) == [Idle EXCEPT !.at = "count", !.ip = ip, !.good = good, !.hot = hot]
<1>1. PICK hot \in BOOLEAN : hot = due
  <2> HIDE DEF due
  <2>1. CASE due
    <3>1. TRUE = due
      BY <2>1
    <3>2. QED
      BY <3>1
  <2>2. CASE ~due
    <3>1. FALSE = due
      BY <2>2
    <3>2. QED
      BY <3>1
  <2>3. QED
    BY <2>1, <2>2
<1>2. req' = [req EXCEPT ![r] = q(hot)]
  BY <1>1, Zenon DEF Arrive
<1>3. q(hot) \in Request /\ q(hot).ip = ip /\ q(hot).at = "count"
  BY IdleRequest DEF Idle, Request, Places
<1> HIDE DEF q
<1>4. QED
  BY <1>2, <1>3, ReplaceRequest DEF Arrive, Inv, TypeOK, row, history

LEMMA GotoInv ==
  ASSUME Inv, NEW r \in Req, req[r].at # "idle", NEW at \in Places \ {"expire"}, Goto(r, at),
         UNCHANGED <<hits, ttl, row, history>>
  PROVE  Inv'
<1>1. req[r] \in Request /\ req[r].ip \in Ip
  BY DEF Inv, TypeOK, Request
<1>2. PICK q \in Request : q = [req[r] EXCEPT !.at = at] /\ q.ip = req[r].ip /\ q.at = at
  <2>1. /\ [req[r] EXCEPT !.at = at] \in Request /\ [req[r] EXCEPT !.at = at].ip = req[r].ip
        /\ [req[r] EXCEPT !.at = at].at = at
    BY <1>1 DEF Request
  <2>2. QED
    BY <2>1, Zenon
<1>3. req' = [req EXCEPT ![r] = q]
  BY <1>2 DEF Goto, Inv, TypeOK
<1>4. QED
  BY <1>1, <1>2, <1>3, ReplaceRequest DEF Inv, TypeOK, row, history

LEMMA AnswerInv ==
  ASSUME Inv, NEW r \in Req, Answer(r), UNCHANGED <<hits, recent, ttl>>,
         failed' \in 0 .. MaxFailed - 1, lockLeft' \in 0 .. Lockout,
         owed' \in [streak : 0 .. MaxFailed - 1, left : 0 .. Lockout]
  PROVE  Inv'
BY IdleRequest, ReplaceRequest DEF Answer, Inv, TypeOK

-----------------------------------------------------------------------------

\* An attempt refused or let through: what changes is the counter, the attempts
\* of one address, and the request, which may have an expiry to set.
LEMMA CountInv == ASSUME Inv, NEW r \in Req, Count(r) PROVE Inv'
<1> DEFINE ip == req[r].ip
           current == Bumped(hits[ip])
<1>1. /\ ip \in Ip /\ hits[ip] \in 0 .. MaxRequests + 1 /\ ttl[ip] \in 0 .. Window
      /\ req[r] \in Request /\ recent[ip] \in Stretch /\ recent \in [Ip -> Stretch]
      /\ req \in [Req -> Request] /\ hits \in [Ip -> 0 .. MaxRequests + 1]
  BY DEF Inv, TypeOK, Count, Request, Stretch
<1>2. /\ current \in 0 .. MaxRequests + 1 /\ current > 0
      /\ current <= MaxRequests => current = hits[ip] + 1 /\ hits[ip] \in 0 .. MaxRequests - 1
  BY <1>1, Bounds DEF Bumped
<1>3. hits' = [hits EXCEPT ![ip] = current] /\ UNCHANGED <<ttl, row, owed>> /\ req[r].at = "count"
  BY DEF Count
<1>4. Spread(hits[ip], ttl[ip], recent[ip])
  BY <1>1 DEF Inv
<1> HIDE DEF current
<1>5. hits' \in [Ip -> 0 .. MaxRequests + 1] /\ \A i \in Ip : hits'[i] = IF i = ip THEN current ELSE hits[i]
  BY <1>1, <1>2, <1>3
<1>6. \A i \in Ip : hits[i] > 0 => hits'[i] > 0
  BY <1>2, <1>5
<1>7. CASE current > MaxRequests /\ Answer(r) /\ UNCHANGED recent
  <2>1. req' \in [Req -> Request] /\ \A p \in Req : req'[p].at # "idle" => req'[p] = req[p]
    BY <1>1, <1>7, IdleRequest DEF Answer
  <2>2. TypeOK'
    BY <1>3, <1>5, <1>7, <2>1 DEF Inv, TypeOK, Request, row
  <2>3. Arming' \subseteq Arming /\ \A p \in Arming' : req'[p] = req[p] /\ p \in Req
    BY <2>1 DEF Arming
  <2>4. Spread(current, ttl[ip], recent[ip])
    BY <1>1, <1>4, <1>7, RefuseSpread DEF current
  <2>5. \A i \in Ip : Spread(hits'[i], ttl'[i], recent'[i])
    BY <1>3, <1>5, <1>7, <2>4 DEF Inv
  <2>6. \A p \in Req : req'[p].at # "idle" => req'[p].ip \in Ip
    BY <2>1 DEF Inv
  <2>7. \A i \in Ip : ttl'[i] > 0 => hits'[i] > 0
    BY <1>3, <1>6 DEF Inv
  <2>8. \A p \in Arming' : ttl'[req'[p].ip] = 0 /\ hits'[req'[p].ip] > 0
    <3>1. \A p \in Arming : req[p].ip \in Ip
      BY DEF Arming, Inv
    <3>2. QED
      BY <1>3, <1>6, <2>3, <3>1 DEF Inv
  <2>9. \A p, q \in Arming' : req'[p].ip = req'[q].ip => p = q
    BY <2>3 DEF Inv
  <2>10. QED
    BY <2>2, <2>5, <2>6, <2>7, <2>8, <2>9 DEF Inv
<1>8. CASE current <= MaxRequests /\ Pass(ip) /\ Goto(r, IF current = 1 THEN "expire" ELSE "read")
  <2>1. PICK at \in {"expire", "read"} : Goto(r, at) /\ (at = "expire" => current = 1)
    BY <1>8
  <2>2. PICK q \in Request : q = [req[r] EXCEPT !.at = at] /\ q.ip = ip /\ q.at = at
    <3>1. /\ [req[r] EXCEPT !.at = at] \in Request /\ [req[r] EXCEPT !.at = at].ip = ip
          /\ [req[r] EXCEPT !.at = at].at = at
      BY <1>1 DEF Request, Places
    <3>2. QED
      BY <3>1, Zenon
  <2>3. req' \in [Req -> Request] /\ \A p \in Req : req'[p] = IF p = r THEN q ELSE req[p]
    BY <1>1, <2>1, <2>2 DEF Goto
  <2>4. PICK later : later = [k \in Kept |-> IF k = 1 THEN 0 ELSE recent[ip][k - 1]]
    OBVIOUS
  <2>5. later \in Stretch /\ Spread(current, ttl[ip], later)
    <3>1. PICK n \in 0 .. MaxRequests - 1 : n = hits[ip] /\ current = n + 1
      BY <1>2, <1>8
    <3>2. later \in Stretch /\ Spread(n + 1, ttl[ip], later)
      BY <1>1, <1>4, <2>4, <3>1, PassSpread
    <3>3. QED
      BY <3>1, <3>2
  <2>6. recent' = [recent EXCEPT ![ip] = later]
    BY <1>8, <2>4 DEF Pass
  <2>7. recent' \in [Ip -> Stretch] /\ \A i \in Ip : recent'[i] = IF i = ip THEN later ELSE recent[i]
    BY <1>1, <2>5, <2>6
  <2>8. TypeOK'
    BY <1>3, <1>5, <2>3, <2>7 DEF Inv, TypeOK, Request, row, Stretch
  <2>9. \A i \in Ip : Spread(hits'[i], ttl'[i], recent'[i])
    BY <1>3, <1>5, <2>5, <2>7 DEF Inv
  <2>10. \A p \in Req : req'[p].at # "idle" => req'[p].ip \in Ip
    BY <1>1, <2>2, <2>3 DEF Inv
  <2>11. \A i \in Ip : ttl'[i] > 0 => hits'[i] > 0
    BY <1>3, <1>6 DEF Inv
  <2>12. Arming' \subseteq Arming \cup {r} /\ \A p \in Arming' \ {r} : req'[p] = req[p] /\ p \in Req
    BY <2>3 DEF Arming
  <2>13. r \in Arming' => hits[ip] = 0 /\ ttl[ip] = 0 /\ req'[r].ip = ip /\ hits'[ip] > 0
    <3>1. r \in Arming' => current = 1
      BY <2>1, <2>2, <2>3 DEF Arming
    <3>2. r \in Arming' => hits[ip] = 0
      BY <1>1, <1>2, <1>8, <3>1
    <3>3. hits[ip] = 0 => ttl[ip] = 0
      BY <1>1, Bounds DEF Inv
    <3>4. QED
      BY <1>1, <1>2, <1>5, <2>2, <2>3, <3>2, <3>3
  <2>14. \A p \in Arming' \ {r} : req[p].ip \in Ip /\ hits[req[p].ip] > 0 /\ ttl[req[p].ip] = 0
    BY <2>12 DEF Arming, Inv
  <2>15. \A p \in Arming' : ttl'[req'[p].ip] = 0 /\ hits'[req'[p].ip] > 0
    BY <1>3, <1>6, <2>12, <2>13, <2>14
  <2>16. \A p, o \in Arming' : req'[p].ip = req'[o].ip => p = o
    <3>1. \A p, o \in Arming' \ {r} : req'[p].ip = req'[o].ip => p = o
      BY <2>12 DEF Inv
    <3>2. \A p \in Arming' \ {r} : r \in Arming' => req'[p].ip # req'[r].ip
      BY <1>1, <2>12, <2>13, <2>14
    <3>3. QED
      BY <3>1, <3>2
  <2>17. QED
    BY <2>8, <2>9, <2>10, <2>11, <2>15, <2>16 DEF Inv
<1>9. QED
  BY <1>7, <1>8 DEF Count, current

LEMMA ReadInv == ASSUME Inv, NEW r \in Req, Read(r) PROVE Inv'
<1>1. req[r] \in Request /\ req[r].ip \in Ip /\ failed \in 0 .. MaxFailed - 1
  BY DEF Inv, TypeOK, Read, Request
<1>0. 0 \in 0 .. MaxFailed - 1 /\ Lockout \in {0, Lockout}
  BY Bounds
<1>2. UNCHANGED <<hits, ttl, row, recent, owed>>
  BY DEF Read, history
<1>3. ASSUME NEW q \in Request, q.ip = req[r].ip, q.at \in {"grant", "flush"},
             req' = [req EXCEPT ![r] = q]
      PROVE  Inv'
  BY <1>1, <1>2, <1>3, ReplaceRequest DEF Inv, TypeOK, row
<1>4. CASE Answer(r)
  BY <1>2, <1>4, AnswerInv DEF Inv, TypeOK, row
<1>5. CASE req' = [req EXCEPT ![r].at = "grant", ![r].failed = 0]
  <2>1. [req[r] EXCEPT !.at = "grant", !.failed = 0] \in Request
    BY <1>1, <1>0 DEF Request, Places
  <2>2. /\ [req[r] EXCEPT !.at = "grant", !.failed = 0].ip = req[r].ip
        /\ [req[r] EXCEPT !.at = "grant", !.failed = 0].at = "grant"
    BY <1>1 DEF Request
  <2>3. QED
    BY <1>3, <1>5, <2>1, <2>2 DEF Inv, TypeOK
<1>6. CASE req' = [req EXCEPT ![r].at = "flush", ![r].failed = 0, ![r].lock = Lockout]
  <2>1. [req[r] EXCEPT !.at = "flush", !.failed = 0, !.lock = Lockout] \in Request
    BY <1>1, <1>0 DEF Request, Places
  <2>2. /\ [req[r] EXCEPT !.at = "flush", !.failed = 0, !.lock = Lockout].ip = req[r].ip
        /\ [req[r] EXCEPT !.at = "flush", !.failed = 0, !.lock = Lockout].at = "flush"
    BY <1>1 DEF Request
  <2>3. QED
    BY <1>3, <1>6, <2>1, <2>2 DEF Inv, TypeOK
<1>7. CASE req' = [req EXCEPT ![r].at = "flush", ![r].failed = failed + 1] /\ ~(failed + 1 >= MaxFailed)
  <2>1. failed + 1 \in 0 .. MaxFailed - 1
    BY <1>1, <1>7, Bounds
  <2>2. [req[r] EXCEPT !.at = "flush", !.failed = failed + 1] \in Request
    BY <1>1, <2>1 DEF Request, Places
  <2>3. /\ [req[r] EXCEPT !.at = "flush", !.failed = failed + 1].ip = req[r].ip
        /\ [req[r] EXCEPT !.at = "flush", !.failed = failed + 1].at = "flush"
    BY <1>1 DEF Request
  <2>4. QED
    BY <1>3, <1>7, <2>2, <2>3 DEF Inv, TypeOK
<1>8. QED
  BY <1>4, <1>5, <1>6, <1>7 DEF Read

LEMMA OtherStepsInv ==
  ASSUME Inv, NEW r \in Req
  PROVE  /\ Expire(r) \/ Flush(r) => Inv'
         /\ Reject(r) \/ Grant(r) \/ Fail(r) => Inv'
<1>1. ASSUME Expire(r) PROVE Inv'
  <2>1. /\ req[r] \in Request /\ req[r].ip \in Ip /\ r \in Arming
        /\ req \in [Req -> Request] /\ ttl \in [Ip -> 0 .. Window]
    BY <1>1 DEF Expire, Inv, TypeOK, Request, Arming
  <2>2. PICK q \in Request : q = [req[r] EXCEPT !.at = "read"] /\ q.ip = req[r].ip /\ q.at = "read"
    <3>1. /\ [req[r] EXCEPT !.at = "read"] \in Request /\ [req[r] EXCEPT !.at = "read"].ip = req[r].ip
          /\ [req[r] EXCEPT !.at = "read"].at = "read"
      BY <2>1 DEF Request, Places
    <3>2. QED
      BY <3>1, Zenon
  <2>3. /\ req' \in [Req -> Request] /\ \A p \in Req : req'[p] = IF p = r THEN q ELSE req[p]
        /\ UNCHANGED <<hits, row, history>>
    BY <1>1, <2>1, <2>2 DEF Expire, Goto
  <2>4. /\ ttl' \in [Ip -> 0 .. Window]
        /\ \A i \in Ip : ttl'[i] = IF i = req[r].ip THEN Window ELSE ttl[i]
    BY <1>1, <2>1, Bounds DEF Expire
  <2>5. TypeOK'
    BY <2>3, <2>4 DEF Inv, TypeOK, Request, row, history
  <2>6. \A i \in Ip : Spread(hits[i], ttl'[i], recent[i])
    <3>1. \A i \in Ip : recent[i] \in Stretch /\ Spread(hits[i], ttl[i], recent[i])
      BY DEF Inv, TypeOK, Stretch
    <3>2. \A i \in Ip : Spread(hits[i], Window, recent[i])
      BY <3>1, ArmSpread
    <3>3. QED
      BY <2>4, <3>1, <3>2
  <2>7. Arming' = Arming \ {r} /\ \A p \in Arming' : req'[p] = req[p] /\ req[p].ip \in Ip
    BY <2>2, <2>3 DEF Arming, Inv
  <2>8. \A p \in Arming' : req[p].ip # req[r].ip
    BY <2>1, <2>7 DEF Inv
  <2>9. \A p \in Arming' : ttl'[req'[p].ip] = 0 /\ hits'[req'[p].ip] > 0
    BY <2>3, <2>4, <2>7, <2>8 DEF Inv
  <2>10. \A i \in Ip : ttl'[i] > 0 => hits'[i] > 0
    BY <2>1, <2>3, <2>4 DEF Inv
  <2>11. \A p \in Req : req'[p].at # "idle" => req'[p].ip \in Ip
    BY <2>1, <2>2, <2>3 DEF Inv
  <2>12. QED
    BY <2>3, <2>5, <2>6, <2>7, <2>9, <2>10, <2>11 DEF Inv, history
<1>2. ASSUME Flush(r) PROVE Inv'
  BY <1>2, GotoInv DEF Flush, Places, history, Inv, TypeOK
<1>3. ASSUME Reject(r) PROVE Inv'
  <2>1. owed' \in [streak : 0 .. MaxFailed - 1, left : 0 .. Lockout]
    <3>1. owed.streak \in 0 .. MaxFailed - 1 /\ owed.left \in 0 .. Lockout
      BY DEF Inv, TypeOK
    <3>2. CASE owed.streak + 1 = MaxFailed
      BY <1>3, <3>2, Bounds DEF Reject
    <3>3. CASE owed.streak + 1 # MaxFailed
      <4>1. owed.streak + 1 \in 0 .. MaxFailed - 1
        BY <3>1, <3>3, Bounds
      <4>2. [owed EXCEPT !.streak = owed.streak + 1] \in [streak : 0 .. MaxFailed - 1, left : 0 .. Lockout]
        BY <4>1 DEF Inv, TypeOK
      <4>3. QED
        BY <1>3, <3>3, <4>2 DEF Reject
    <3>4. QED
      BY <3>2, <3>3
  <2>2. QED
    BY <1>3, <2>1, AnswerInv DEF Reject, row, Inv, TypeOK
<1>4. ASSUME Grant(r) PROVE Inv'
  <2>1. /\ owed' \in [streak : 0 .. MaxFailed - 1, left : 0 .. Lockout]
        /\ failed' \in 0 .. MaxFailed - 1 /\ lockLeft' \in 0 .. Lockout
    BY <1>4, Bounds DEF Grant
  <2>2. QED
    BY <1>4, <2>1, AnswerInv DEF Grant
<1>5. ASSUME Fail(r) PROVE Inv'
  BY <1>5, AnswerInv DEF Fail, row, history, Inv, TypeOK
<1>6. QED
  BY <1>1, <1>2, <1>3, <1>4, <1>5

LEMMA TickInv == ASSUME Inv, Tick PROVE Inv'
<1>1. \A n \in Nat : Less(n) \in Nat /\ Less(n) <= n
  BY DEF Less
<1>2. \A ip \in Ip : /\ ttl[ip] \in 0 .. Window /\ hits[ip] \in 0 .. MaxRequests + 1 /\ recent[ip] \in Stretch
                     /\ Spread(hits[ip], ttl[ip], recent[ip]) /\ (ttl[ip] > 0 => hits[ip] > 0)
  BY DEF Inv, TypeOK, Stretch
<1>3. \A ip \in Ip : /\ hits'[ip] = IF ttl[ip] = 1 THEN 0 ELSE hits[ip]
                     /\ ttl'[ip] = Less(ttl[ip])
                     /\ recent'[ip] = [k \in Kept |-> More(recent[ip][k])]
  BY DEF Tick
<1>4. ASSUME NEW ip \in Ip
      PROVE  recent'[ip] \in Stretch /\ Spread(hits'[ip], ttl'[ip], recent'[ip])
  <2>1. PICK n \in 0 .. MaxRequests + 1 : n = hits[ip]
    BY <1>2
  <2>2. PICK left \in 0 .. Window : left = ttl[ip]
    BY <1>2
  <2>3. PICK ages \in Stretch : ages = recent[ip]
    BY <1>2
  <2>4. PICK later : later = [k \in Kept |-> More(ages[k])]
    OBVIOUS
  <2>5. later \in Stretch /\ Spread(IF left = 1 THEN 0 ELSE n, Less(left), later)
    BY <1>2, <2>1, <2>2, <2>3, <2>4, TickSpread
  <2>6. QED
    BY <1>3, <2>1, <2>2, <2>3, <2>4, <2>5
<1>5. recent' \in [Ip -> Stretch]
  BY <1>3, <1>4 DEF Tick
<1>6. ttl' \in [Ip -> 0 .. Window] /\ lockLeft' \in 0 .. Lockout
  BY <1>1, Bounds DEF Tick, Inv, TypeOK
<1>7. hits' \in [Ip -> 0 .. MaxRequests + 1]
  BY Bounds DEF Tick, Inv, TypeOK
<1>8. owed' \in [streak : 0 .. MaxFailed - 1, left : 0 .. Lockout]
  <2>1. Less(owed.left) \in 0 .. Lockout
    BY <1>1, Bounds DEF Inv, TypeOK
  <2>2. QED
    BY <2>1 DEF Tick, Inv, TypeOK
<1>9. TypeOK'
  BY <1>5, <1>6, <1>7, <1>8 DEF Tick, Inv, TypeOK, Stretch
<1>10. ASSUME NEW ip \in Ip, ttl'[ip] > 0 PROVE hits'[ip] > 0
  <2>1. ttl'[ip] = IF ttl[ip] = 0 THEN 0 ELSE ttl[ip] - 1
    BY <1>3 DEF Less
  <2>2. ttl[ip] > 0 /\ ttl[ip] # 1
    BY <1>2, <1>10, <2>1
  <2>3. QED
    BY <1>2, <1>3, <2>2
<1>11. Arming' = Arming /\ req' = req
  BY DEF Tick, Arming
<1>12. ASSUME NEW r \in Arming PROVE ttl'[req[r].ip] = 0 /\ hits'[req[r].ip] > 0
  <2>1. PICK ip \in Ip : ip = req[r].ip /\ ttl[ip] = 0 /\ hits[ip] > 0
    BY DEF Arming, Inv
  <2>2. hits'[ip] = IF ttl[ip] = 1 THEN 0 ELSE hits[ip]
    BY <1>3
  <2>3. ttl'[ip] = IF ttl[ip] = 0 THEN 0 ELSE ttl[ip] - 1
    BY <1>3 DEF Less
  <2>4. QED
    BY <2>1, <2>2, <2>3
<1>13. QED
  BY <1>4, <1>9, <1>10, <1>11, <1>12 DEF Inv

LEMMA NextInv == ASSUME Inv, [Next]_vars PROVE Inv'
<1>1. CASE UNCHANGED vars
  BY <1>1 DEF vars, row, history, Inv, TypeOK, Arming
<1>2. QED
  BY <1>1, ArriveInv, CountInv, ReadInv, OtherStepsInv, TickInv DEF Next, Step

LEMMA Invariant == Spec => []Inv
<1>1. Init => Inv
  BY InitInv
<1>2. Inv /\ [Next]_vars => Inv'
  BY NextInv
<1>3. QED
  BY <1>1, <1>2, PTL DEF Spec

\* The counters of the guard keep their bounds (rate_limit.py,
\* auth_service.py): the committed failures stay below the lockout's number.
THEOREM TypeCorrect == Spec => []TypeOK
<1>1. Inv => TypeOK
  BY DEF Inv
<1>2. QED
  BY <1>1, Invariant, PTL

\* However requests, failures and the clock interleave, an address gets at most
\* its limit through in a tick and at most twice the limit in a window's time
\* (check_rate_limit, rate_limit.py:6).
THEOREM AttemptsTheorem == Spec => []AttemptsBounded
<1>1. Inv => AttemptsBounded
  <2> SUFFICES ASSUME Inv, NEW ip \in Ip
               PROVE  recent[ip][MaxRequests + 1] > 0 /\ recent[ip][2 * MaxRequests + 1] = Window
    BY DEF AttemptsBounded
  <2>1. hits[ip] \in 0 .. MaxRequests + 1 /\ Spread(hits[ip], ttl[ip], recent[ip])
    BY DEF Inv, TypeOK
  <2>2. QED
    BY <2>1, SpreadBounded
<1>2. QED
  BY <1>1, Invariant, PTL

\* No attempt prolongs a window: a key's expiry is set once, when it has none
\* (the count that reads 1, rate_limit.py:11).
THEOREM ArmedOnceTheorem == Spec => WindowArmedOnce
<1>1. Inv /\ [Next]_vars => [\A ip \in Ip : ttl'[ip] > ttl[ip] => ttl[ip] = 0]_vars
  <2> SUFFICES ASSUME Inv, Next, NEW ip \in Ip, ttl'[ip] > ttl[ip] PROVE ttl[ip] = 0
    BY DEF vars
  <2>1. ttl[ip] \in 0 .. Window
    BY DEF Inv, TypeOK
  <2>2. CASE Tick
    BY <2>1, <2>2 DEF Tick, Less
  <2>3. CASE ttl' = ttl
    BY <2>1, <2>3
  <2>4. ASSUME NEW r \in Req, Expire(r) PROVE ttl[ip] = 0
    <3>1. r \in Arming /\ ttl' = [ttl EXCEPT ![req[r].ip] = Window] /\ ttl \in [Ip -> 0 .. Window]
      BY <2>4 DEF Expire, Arming, Inv, TypeOK
    <3>2. ip = req[r].ip
      BY <2>1, <3>1
    <3>3. QED
      BY <3>1, <3>2 DEF Inv
  <2>5. \A r \in Req, good \in BOOLEAN, i \in Ip :
          Arrive(r, i, good) \/ Count(r) \/ Read(r) \/ Flush(r) \/ Reject(r) \/ Grant(r) \/ Fail(r)
              => ttl' = ttl
    BY DEF Arrive, Count, Read, Flush, Reject, Grant, Fail
  <2>6. QED
    BY <2>2, <2>3, <2>4, <2>5 DEF Next, Step
<1>2. QED
  BY <1>1, Invariant, PTL DEF Spec, WindowArmedOnce
=============================================================================
