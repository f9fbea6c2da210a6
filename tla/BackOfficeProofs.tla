--------------------------- MODULE BackOfficeProofs ---------------------------
(***************************************************************************)
(* Proofs about what goes on behind the portal: stored passwords are       *)
(* rotated in time, for any intervals and speed of the job; no login's     *)
(* risk ever sets off the alarm; the answers of the audit API hold together, *)
(* whatever rows come in between its queries; passwords have the strength  *)
(* that is promised, for any length; and no message ends without a reason. *)
(***************************************************************************)
EXTENDS BackOffice, FiniteSetTheorems, TLAPS

Run == [at : {"waiting", "running", "over"}, todo : SUBSET Credential,
        since : UNION {[S -> Nat] : S \in SUBSET Credential}, spent : Nat]

VaultTypes ==
  /\ clock \in 0 .. Day - 1 /\ there \in [Credential -> {"new", "stored", "gone"}]
  /\ age \in [Credential -> Nat] /\ missed \in [Credential -> Nat] /\ run \in Run

\* Where the day's run is on the clock.
RunInTime ==
  /\ run.at = "waiting" => clock <= StartSlack
  /\ run.at = "running" => run.spent <= RunTime /\ run.spent <= clock /\ clock <= StartSlack + run.spent
  /\ run.at # "running" => run.todo = {} /\ DOMAIN run.since = {} /\ run.spent = 0
  /\ \A c \in DOMAIN run.since : c \in Stored /\ run.since[c] <= run.spent
  /\ \A c \in run.todo \cup DOMAIN run.since : Interval[c] > 0

Base(c) == (Interval[c] + missed[c]) * Day

\* A credential may be a day over its interval while today's run has yet to
\* commit what it does about it.
Ahead(c) == run.at = "waiting" \/ c \in run.todo \cup DOMAIN run.since
Aged(c) ==
  /\ there[c] # "stored" \/ Interval[c] = 0 => age[c] = 0
  /\ age[c] <= Base(c) + clock + (IF Ahead(c) THEN Day ELSE 0)

VaultInv == VaultTypes /\ RunInTime /\ \A c \in Credential : Aged(c)

-----------------------------------------------------------------------------
(* Arithmetic.                                                              *)

LEMMA DayOnes == Day \in Nat \ {0} /\ StartSlack \in Nat /\ RunTime \in Nat /\ StartSlack + RunTime < Day
BY RotationAssumption

LEMMA NotDue == ASSUME NEW a \in Nat, NEW n \in Nat, ~(a \div Day >= n) PROVE a < n * Day
<1>1. PICK q \in Int : q = a \div Day
  BY DayOnes
<1>2. a < (q + 1) * Day
  BY <1>1, DayOnes
<1>3. q + 1 <= n
  BY <1>1
<1>4. (q + 1) * Day <= n * Day
  BY <1>3, DayOnes
<1>5. QED
  BY <1>2, <1>4, DayOnes

LEMMA BaseOnes ==
  ASSUME VaultTypes, NEW c \in Credential
  PROVE  /\ Base(c) \in Nat
         /\ (Interval[c] + (missed[c] + 1)) * Day = Base(c) + Day
         /\ (Interval[c] + 1 + missed[c]) * Day = Base(c) + Day
         /\ (Interval[c] + 0) * Day \in Nat
<1>1. Interval[c] \in Nat /\ missed[c] \in Nat
  BY RotationAssumption DEF VaultTypes
<1>2. QED
  BY <1>1, DayOnes DEF Base

LEMMA NoRunOnes == NoRun \in Run /\ DOMAIN NoRun.since = {}
BY DEF NoRun, Run

-----------------------------------------------------------------------------
(* The steps of the rotation.                                               *)

LEMMA RotationInitInv == RotationInit => VaultInv
<1> SUFFICES ASSUME RotationInit PROVE VaultInv
  OBVIOUS
<1>1. VaultTypes
  BY NoRunOnes, DayOnes DEF RotationInit, VaultTypes
<1>2. RunInTime
  BY NoRunOnes, DayOnes DEF RotationInit, RunInTime, NoRun
<1>3. \A c \in Credential : Aged(c)
  BY <1>1, BaseOnes, DayOnes DEF RotationInit, Aged, VaultTypes
<1>4. QED
  BY <1>1, <1>2, <1>3 DEF VaultInv

\* Steps that leave the clock and the run alone.
LEMMA StoreInv ==
  ASSUME VaultInv, NEW c \in Credential, StoreCredential(c) \/ DropCredential(c) PROVE VaultInv'
<1>1. UNCHANGED <<clock, run>>
  BY DEF StoreCredential, DropCredential
<1>2. VaultTypes'
  BY DEF StoreCredential, DropCredential, VaultInv, VaultTypes
<1>3. RunInTime'
  BY <1>1 DEF StoreCredential, DropCredential, VaultInv, VaultTypes, RunInTime, Stored
<1>4. ASSUME NEW d \in Credential PROVE Aged(d)'
  <2>1. Aged(d) /\ (Ahead(d))' = Ahead(d)
    BY <1>1 DEF VaultInv, Ahead
  <2>2. CASE age'[d] = age[d] /\ missed'[d] = missed[d] /\ (there'[d] = there[d] \/ age[d] = 0)
    BY <1>1, <2>1, <2>2 DEF Aged, Base, Ahead
  <2>3. CASE age'[d] = 0
    <3>1. missed'[d] \in Nat /\ Interval[d] \in Nat /\ clock' \in Nat
      BY <1>2, DayOnes, RotationAssumption DEF VaultTypes
    <3>2. Base(d)' \in Nat
      BY <3>1, DayOnes DEF Base
    <3>3. QED
      BY <2>3, <3>1, <3>2, DayOnes DEF Aged
  <2>4. QED
    BY <2>1, <2>2, <2>3 DEF StoreCredential, DropCredential, VaultInv, VaultTypes, Aged
<1>5. QED
  BY <1>2, <1>3, <1>4 DEF VaultInv

LEMMA StartRunInv == ASSUME VaultInv, StartRun PROVE VaultInv'
<1>1. /\ run' = [run EXCEPT !.at = "running", !.todo = Due] /\ run.at = "waiting"
      /\ UNCHANGED <<clock, there, age, failures, missed>>
  BY DEF StartRun
<1>2. Due \subseteq Credential /\ \A c \in Due : c \in Stored /\ Interval[c] > 0
  BY DEF Due, Stored
<1>3. /\ run' \in Run /\ run'.at = "running" /\ run'.todo = Due
      /\ run'.since = run.since /\ run'.spent = run.spent
  BY <1>1, <1>2 DEF VaultInv, VaultTypes, Run
<1>4. VaultTypes'
  BY <1>1, <1>3 DEF VaultInv, VaultTypes
<1>5. RunInTime'
  BY <1>1, <1>2, <1>3, DayOnes DEF VaultInv, VaultTypes, RunInTime, Stored
<1>6. ASSUME NEW c \in Credential PROVE Aged(c)'
  <2>1. Aged(c) /\ age[c] \in Nat /\ Base(c) \in Nat /\ Interval[c] \in Nat /\ missed[c] \in Nat
    BY BaseOnes, RotationAssumption DEF VaultInv, VaultTypes
  <2>2. CASE c \in Due
    BY <1>1, <1>3, <2>1, <2>2 DEF Aged, Ahead, Base
  <2>3. CASE c \notin Due
    <3>1. age[c] <= Base(c)
      <4>1. CASE there[c] # "stored" \/ Interval[c] = 0
        BY <2>1, <4>1 DEF Aged
      <4>2. CASE there[c] = "stored" /\ Interval[c] # 0
        <5>1. ~(age[c] \div Day >= Interval[c])
          BY <2>1, <2>3, <4>2 DEF Due, Stored
        <5>2. age[c] < Interval[c] * Day
          BY <2>1, <5>1, NotDue
        <5>3. Interval[c] * Day <= Base(c)
          BY <2>1, DayOnes DEF Base
        <5>4. QED
          BY <2>1, <5>2, <5>3, DayOnes
      <4>3. QED
        BY <4>1, <4>2
    <3>2. age[c] <= Base(c) + clock
      BY <2>1, <3>1 DEF VaultInv, VaultTypes
    <3>3. ~Ahead(c)'
      BY <1>1, <1>3, <2>3 DEF Ahead, VaultInv, RunInTime
    <3>4. Base(c)' = Base(c) /\ clock' = clock /\ age' = age /\ there' = there
      BY <1>1 DEF Base
    <3>5. clock \in Nat
      BY DayOnes DEF VaultInv, VaultTypes
    <3>6. QED
      BY <2>1, <3>2, <3>3, <3>4, <3>5 DEF Aged
  <2>4. QED
    BY <2>2, <2>3
<1>7. QED
  BY <1>4, <1>5, <1>6 DEF VaultInv

LEMMA RotateInv == ASSUME VaultInv, NEW c \in Credential, Rotate(c) PROVE VaultInv'
<1> DEFINE since == [d \in DOMAIN run.since \cup {c} |-> IF d = c THEN 0 ELSE run.since[d]]
<1>1. /\ run' = [run EXCEPT !.todo = run.todo \ {c}, !.since = since]
      /\ run.at = "running" /\ c \in run.todo /\ c \in Stored
      /\ UNCHANGED <<clock, there, age, failures, missed>>
  BY DEF Rotate
<1>2. /\ DOMAIN since = DOMAIN run.since \cup {c} /\ DOMAIN since \subseteq Credential
      /\ since \in [DOMAIN since -> Nat]
  BY DEF VaultInv, VaultTypes, Run
<1> HIDE DEF since
<1>a. since \in UNION {[S -> Nat] : S \in SUBSET Credential} /\ run \in Run
  BY <1>2 DEF VaultInv, VaultTypes
<1>3. /\ run' \in Run /\ run'.at = "running" /\ run'.todo = run.todo \ {c}
      /\ run'.since = since /\ run'.spent = run.spent
  BY <1>1, <1>a DEF Run
<1>4. VaultTypes'
  BY <1>1, <1>3 DEF VaultInv, VaultTypes
<1>5. RunInTime'
  <2>1. \A d \in DOMAIN since : d \in Stored /\ since[d] <= run.spent /\ Interval[d] > 0
    BY <1>1, <1>2 DEF VaultInv, VaultTypes, Run, RunInTime, since
  <2>2. QED
    BY <1>1, <1>2, <1>3, <2>1 DEF VaultInv, RunInTime, Stored
<1>6. ASSUME NEW d \in Credential PROVE Aged(d)'
  <2>1. Aged(d) /\ (Ahead(d)' <=> Ahead(d))
    BY <1>1, <1>2, <1>3 DEF VaultInv, Ahead
  <2>2. QED
    BY <1>1, <2>1 DEF Aged, Base
<1>7. QED
  BY <1>4, <1>5, <1>6 DEF VaultInv

LEMMA CommitRunInv == ASSUME VaultInv, CommitRun PROVE VaultInv'
<1>1. /\ age' = [c \in Credential |-> IF c \in DOMAIN run.since THEN run.since[c] ELSE age[c]]
      /\ missed' = [c \in Credential |-> IF c \in DOMAIN run.since THEN 0 ELSE missed[c]]
      /\ run' = [NoRun EXCEPT !.at = "over"] /\ run.at = "running" /\ run.todo = {}
      /\ UNCHANGED <<clock, there, failures>>
  BY DEF CommitRun
<1>2. /\ run' \in Run /\ run'.at = "over" /\ run'.todo = {} /\ DOMAIN run'.since = {}
      /\ run'.spent = 0
  BY <1>1, NoRunOnes DEF NoRun, Run
<1>3. \A c \in DOMAIN run.since : run.since[c] \in Nat /\ run.since[c] <= clock /\ c \in Stored
                                    /\ Interval[c] > 0
  BY <1>1, DayOnes DEF VaultInv, VaultTypes, RunInTime, Run
<1>4. VaultTypes'
  BY <1>1, <1>2, <1>3 DEF VaultInv, VaultTypes
<1>5. RunInTime'
  BY <1>2 DEF RunInTime
<1>6. ASSUME NEW c \in Credential PROVE Aged(c)'
  <2>1. ~Ahead(c)' /\ clock' = clock /\ clock \in Nat
    BY <1>1, <1>2, DayOnes DEF Ahead, VaultInv, VaultTypes
  <2>2. CASE c \in DOMAIN run.since
    <3>1. age'[c] = run.since[c] /\ missed'[c] = 0 /\ Interval[c] \in Nat /\ there'[c] = "stored"
      BY <1>1, <1>3, <2>2, RotationAssumption DEF Stored
    <3>2. Base(c)' \in Nat
      BY <3>1, DayOnes DEF Base
    <3>3. QED
      BY <1>3, <2>1, <2>2, <3>1, <3>2 DEF Aged
  <2>3. CASE c \notin DOMAIN run.since
    <3>1. age'[c] = age[c] /\ missed'[c] = missed[c] /\ there'[c] = there[c] /\ Aged(c) /\ ~Ahead(c)
      BY <1>1, <2>3 DEF VaultInv, Ahead
    <3>2. Base(c)' = Base(c)
      BY <3>1 DEF Base
    <3>3. QED
      BY <2>1, <3>1, <3>2 DEF Aged
  <2>4. QED
    BY <2>2, <2>3
<1>7. QED
  BY <1>4, <1>5, <1>6 DEF VaultInv

LEMMA FailRunInv == ASSUME VaultInv, FailRun PROVE VaultInv'
<1>1. /\ missed' = [c \in Credential |-> IF c \in Stored THEN missed[c] + 1 ELSE 0]
      /\ run' = [NoRun EXCEPT !.at = "over"] /\ UNCHANGED <<clock, there, age>>
  BY DEF FailRun
<1>2. /\ run' \in Run /\ run'.at = "over" /\ run'.todo = {} /\ DOMAIN run'.since = {}
      /\ run'.spent = 0
  BY <1>1, NoRunOnes DEF NoRun, Run
<1>3. VaultTypes'
  BY <1>1, <1>2 DEF VaultInv, VaultTypes
<1>4. RunInTime'
  BY <1>2 DEF RunInTime
<1>5. ASSUME NEW c \in Credential PROVE Aged(c)'
  <2>1. /\ ~Ahead(c)' /\ clock' = clock /\ clock \in Nat /\ age' = age /\ there' = there
        /\ age[c] \in Nat /\ Base(c) \in Nat /\ Interval[c] \in Nat /\ missed[c] \in Nat
    BY <1>1, <1>2, DayOnes, BaseOnes, RotationAssumption DEF Ahead, VaultInv, VaultTypes
  <2>2. Aged(c)
    BY DEF VaultInv
  <2>3. CASE c \in Stored
    <3>1. Base(c)' = Base(c) + Day
      BY <1>1, <2>3, BaseOnes DEF Base, VaultInv
    <3>2. QED
      BY <2>1, <2>2, <3>1, DayOnes DEF Aged
  <2>4. CASE c \notin Stored
    <3>1. Base(c)' = (Interval[c] + 0) * Day /\ Base(c)' \in Nat
      BY <1>1, <2>1, <2>4, DayOnes DEF Base
    <3>2. QED
      BY <2>1, <2>2, <2>4, <3>1 DEF Aged, Stored
  <2>5. QED
    BY <2>3, <2>4
<1>6. QED
  BY <1>3, <1>4, <1>5 DEF VaultInv

LEMMA TimePassesInv == ASSUME VaultInv, TimePasses PROVE VaultInv'
<1>1. /\ clock' = (clock + 1) % Day /\ UNCHANGED <<there, failures, missed>>
      /\ age' = [c \in Credential |-> IF c \in Stored /\ Interval[c] > 0 THEN age[c] + 1 ELSE 0]
      /\ ~(run.at = "waiting" /\ clock = StartSlack) /\ ~(run.at = "running" /\ run.spent = RunTime)
  BY DEF TimePasses
<1>2. clock \in 0 .. Day - 1 /\ run \in Run
  BY DEF VaultInv, VaultTypes
<1>3. clock' = IF clock = Day - 1 THEN 0 ELSE clock + 1
  <2>1. CASE clock = Day - 1
    BY <1>1, <2>1, DayOnes
  <2>2. CASE clock # Day - 1
    BY <1>1, <1>2, <2>2, DayOnes
  <2>3. QED
    BY <2>1, <2>2
<1>4. clock' = 0 => run.at = "over"
  BY <1>1, <1>2, <1>3, DayOnes DEF VaultInv, RunInTime, Run
<1>5. \A c \in Credential : Base(c)' = Base(c) /\ Base(c) \in Nat
  BY <1>1, BaseOnes DEF Base, VaultInv
<1>6. CASE clock' = 0
  <2>1. run' = NoRun /\ clock = Day - 1 /\ run.at = "over"
    BY <1>2, <1>3, <1>4, <1>6, DayOnes DEF TimePasses
  <2>2. VaultTypes'
    BY <1>1, <1>6, <2>1, NoRunOnes, DayOnes DEF VaultInv, VaultTypes
  <2>3. RunInTime'
    BY <1>6, <2>1, NoRunOnes, DayOnes DEF RunInTime, NoRun
  <2>4. ASSUME NEW c \in Credential PROVE Aged(c)'
    <3>1. Aged(c) /\ ~Ahead(c) /\ Ahead(c)'
      BY <2>1 DEF VaultInv, RunInTime, Ahead, NoRun
    <3>2. age[c] \in Nat /\ age'[c] = IF c \in Stored /\ Interval[c] > 0 THEN age[c] + 1 ELSE 0
      BY <1>1 DEF VaultInv, VaultTypes
    <3>3. Interval[c] \in Nat
      BY RotationAssumption
    <3>4. age[c] <= Base(c) + (Day - 1)
      BY <1>5, <2>1, <3>1, <3>2, DayOnes DEF Aged
    <3>5. age'[c] <= Base(c) + Day
      BY <1>5, <3>2, <3>4, DayOnes
    <3>6. (there'[c] # "stored" \/ Interval[c] = 0) => age'[c] = 0
      BY <1>1, <3>2, <3>3 DEF Stored
    <3>7. QED
      BY <1>5, <1>6, <3>1, <3>5, <3>6, DayOnes DEF Aged
  <2>5. QED
    BY <2>2, <2>3, <2>4 DEF VaultInv
<1>7. CASE clock' # 0
  <2> DEFINE since == [c \in DOMAIN run.since |-> run.since[c] + 1]
             spent == IF run.at = "running" THEN run.spent + 1 ELSE 0
  <2>1. clock' = clock + 1 /\ run' = [run EXCEPT !.since = since, !.spent = spent]
    BY <1>3, <1>7 DEF TimePasses
  <2>2. /\ DOMAIN since = DOMAIN run.since /\ DOMAIN since \subseteq Credential
        /\ since \in [DOMAIN since -> Nat] /\ spent \in Nat
    BY <1>2 DEF Run
  <2>3. \A c \in DOMAIN since : since[c] = run.since[c] + 1 /\ run.since[c] \in Nat
    BY <1>2 DEF Run
  <2> HIDE DEF since
  <2>4. since \in UNION {[S -> Nat] : S \in SUBSET Credential}
    BY <2>2
  <2>5. /\ run' \in Run /\ run'.at = run.at /\ run'.todo = run.todo /\ run'.since = since
        /\ run'.spent = spent
    BY <1>2, <2>1, <2>2, <2>4 DEF Run
  <2>6. VaultTypes'
    BY <1>1, <1>2, <1>3, <2>5, DayOnes DEF VaultInv, VaultTypes
  <2>7. RunInTime'
    <3>1. run.spent \in Nat /\ run.at \in {"waiting", "running", "over"}
      BY <1>2 DEF Run
    <3>2. \A c \in DOMAIN since : c \in Stored /\ since[c] <= spent /\ Interval[c] > 0
      BY <2>2, <2>3, <3>1 DEF VaultInv, RunInTime
    <3>3. /\ run.at = "waiting" => clock' <= StartSlack
          /\ run.at = "running" => spent <= RunTime /\ spent <= clock' /\ clock' <= StartSlack + spent
      BY <1>1, <1>2, <2>1, <3>1, DayOnes DEF VaultInv, RunInTime
    <3>4. QED
      BY <1>1, <2>2, <2>5, <3>2, <3>3 DEF VaultInv, RunInTime, Stored
  <2>8. ASSUME NEW c \in Credential PROVE Aged(c)'
    <3>1. Aged(c) /\ (Ahead(c)' <=> Ahead(c))
      BY <2>2, <2>5 DEF VaultInv, Ahead
    <3>2. age[c] \in Nat /\ age'[c] = IF c \in Stored /\ Interval[c] > 0 THEN age[c] + 1 ELSE 0
      BY <1>1 DEF VaultInv, VaultTypes
    <3>3. Interval[c] \in Nat
      BY RotationAssumption
    <3>4. QED
      BY <1>1, <1>2, <1>5, <2>1, <3>1, <3>2, <3>3, DayOnes DEF Aged, Stored
  <2>9. QED
    BY <2>6, <2>7, <2>8 DEF VaultInv
<1>8. QED
  BY <1>6, <1>7

LEMMA RotationNextInv == ASSUME VaultInv, [RotationNext]_vault PROVE VaultInv'
<1>1. CASE UNCHANGED vault
  BY <1>1 DEF vault, VaultInv, VaultTypes, RunInTime, Aged, Ahead, Base, Stored
<1>2. QED
  BY <1>1, TimePassesInv, StartRunInv, CommitRunInv, FailRunInv, StoreInv, RotateInv DEF RotationNext

LEMMA InvRotated == VaultInv => RotatedInTime
<1> SUFFICES ASSUME VaultInv, NEW c \in Credential
             PROVE  age[c] <= (Interval[c] + 1 + missed[c]) * Day + StartSlack + RunTime
  BY DEF RotatedInTime, Stored
<1>1. Aged(c) /\ age[c] \in Nat /\ clock \in 0 .. Day - 1
  BY DEF VaultInv, VaultTypes
<1>2. (Interval[c] + 1 + missed[c]) * Day = Base(c) + Day /\ Base(c) \in Nat
  BY BaseOnes DEF VaultInv
<1>3. Ahead(c) => clock <= StartSlack + RunTime
  BY <1>1, DayOnes DEF VaultInv, VaultTypes, Run, RunInTime, Ahead
<1>4. QED
  BY <1>1, <1>2, <1>3, DayOnes DEF Aged

-----------------------------------------------------------------------------
(* The risk of a login.                                                     *)

Whats == {"login", "refused", "failed", "other"}
Row == [what : Whats, ip : Ip, browser : Browser \cup {"none"}, agent : {"none"}]

Bearable == 0 .. 65
Writing == [at : {"none", "idle", "scored", "logged"}, row : Nat, what : Whats \cup {"none"},
            ip : Ip, browser : Browser \cup {"none"}, agent : {"none"}, risk : Bearable,
            new : SUBSET Factors]

\* No committed row is a failed login, and none has a browser.
RiskInv ==
  /\ rows \in Seq(Row) /\ shown \subseteq DOMAIN rows
  /\ \A n \in shown : rows[n].what # "failed"
  /\ writer \in [Writer -> Writing]
  /\ \A w \in Writer : writer[w].at # "idle" => writer[w].what \in Whats
  /\ \A w \in Writer :
       writer[w].at = "logged" => /\ writer[w].row \in DOMAIN rows
                                  /\ rows[writer[w].row].what = writer[w].what

\* With no failure and no browser known, the rest adds up to 65 at most.
LEMMA RiskBounded ==
  ASSUME NEW knownIps, NEW ip, NEW agent, NEW utc \in Nat
  PROVE  RiskOf(knownIps, {}, 0, ip, agent, utc) \in Bearable
<1> DEFINE a == Points(knownIps # {} /\ ip \notin knownIps, 20)
           b == Points(ip = "abroad", 30)
           c == Points(Night(utc), 15)
           d == Points(agent # "none" /\ {} # {} /\ agent \notin {}, 15)
           e == Points(0 >= 3, 20)
<1>1. a \in {0, 20} /\ b \in {0, 30} /\ c \in {0, 15}
  BY DEF Points
<1>2. d = 0 /\ e = 0
  BY DEF Points
<1>3. RiskOf(knownIps, {}, 0, ip, agent, utc) =
        IF ip = "none" THEN 0 ELSE IF a + b + c + d + e > 100 THEN 100 ELSE a + b + c + d + e
  BY DEF RiskOf
<1> HIDE DEF a, b, c, d, e
<1>4. QED
  BY <1>1, <1>2, <1>3 DEF Bearable

LEMMA NothingKnown == ASSUME RiskInv PROVE Agents = {} /\ Failures = 0
<1>1. Agents = {}
  <2>1. \A n \in shown : rows[n] \in Row
    BY DEF RiskInv
  <2>2. \A n \in shown : rows[n].agent = "none"
    BY <2>1 DEF Row
  <2>3. QED
    BY <2>2 DEF Agents, Successes
<1>2. {n \in shown : rows[n].what = "failed"} = {}
  BY DEF RiskInv
<1>3. QED
  BY <1>1, <1>2, FS_EmptySet DEF Failures

LEMMA AttemptInv ==
  ASSUME RiskInv, NEW w \in Writer, NEW ip \in Address, NEW browser \in Browser, NEW utc \in Hour,
         NEW blocked \in BOOLEAN, Attempt(w, ip, browser, utc, blocked)
  PROVE  RiskInv'
<1> DEFINE risk == RiskOf(Ips, Agents, Failures, ip, browser, utc)
           what == IF blocked \/ risk >= RISK_THRESHOLD THEN "refused" ELSE "login"
<1>1. risk \in Bearable
  <2>1. risk = RiskOf(Ips, {}, 0, ip, browser, utc)
    BY NothingKnown
  <2>2. utc \in Nat
    BY LoginAssumption
  <2>3. QED
    BY <2>1, <2>2, RiskBounded
<1>2. what \in {"refused", "login"}
  OBVIOUS
<1>3. ip \in Ip /\ NewOf(ip, browser, utc) \in SUBSET Factors
  BY LoginAssumption DEF NewOf
<1> DEFINE new == [at |-> "scored", row |-> 0, ip |-> ip, browser |-> browser, agent |-> "none",
                   risk |-> risk, new |-> NewOf(ip, browser, utc), what |-> what]
<1>4. new \in Writing /\ new.at = "scored" /\ new.what \in Whats
  BY <1>1, <1>2, <1>3 DEF Writing, Whats
<1>5. writer' = [writer EXCEPT ![w] = new] /\ UNCHANGED <<rows, shown>>
  BY DEF Attempt
<1> HIDE DEF new
<1>6. QED
  BY <1>4, <1>5 DEF RiskInv

LEMMA NoWriterOnes == NoWriter \in Writing /\ NoWriter.at = "idle"
<1>1. "none" \in Ip /\ 0 \in Bearable
  BY DEF Ip, Bearable
<1>2. QED
  BY <1>1 DEF NoWriter, Writing

LEMMA EventInv ==
  ASSUME RiskInv, NEW w \in Writer, NEW what \in {"failed", "other"}, Event(w, what) PROVE RiskInv'
<1> DEFINE new == [NoWriter EXCEPT !.at = "scored", !.what = what]
<1>1. what \in Whats
  BY DEF Whats
<1>5. new \in Writing /\ new.at = "scored" /\ new.what \in Whats
  BY <1>1, NoWriterOnes DEF Writing
<1>2. writer' = [writer EXCEPT ![w] = new] /\ UNCHANGED <<rows, shown>>
  BY DEF Event
<1> HIDE DEF new
<1>3. QED
  BY <1>2, <1>5 DEF RiskInv

LEMMA LogEventInv == ASSUME RiskInv, NEW w \in Writer, LogEvent(w) PROVE RiskInv'
<1> DEFINE row == [what |-> writer[w].what, ip |-> writer[w].ip, browser |-> writer[w].browser,
                   agent |-> writer[w].agent]
<1>1. writer[w] \in Writing /\ writer[w].what \in Whats
  BY DEF RiskInv, LogEvent
<1>2. row \in Row /\ row.what = writer[w].what
  BY <1>1 DEF Row, Writing
<1>3. PICK n \in Nat : n = Len(rows) + 1
  BY DEF RiskInv
<1> DEFINE new == [writer[w] EXCEPT !.at = "logged", !.row = n]
<1>4. new \in Writing /\ new.what = writer[w].what /\ new.row = n
  BY <1>1 DEF Writing
<1>5. rows' = Append(rows, row) /\ shown' = shown /\ writer' = [writer EXCEPT ![w] = new]
  BY <1>3 DEF LogEvent, RiskInv
<1> HIDE DEF row, new
<1>6. /\ rows' \in Seq(Row) /\ n \in DOMAIN rows' /\ rows'[n] = row
      /\ \A k \in DOMAIN rows : k \in DOMAIN rows' /\ rows'[k] = rows[k]
  BY <1>2, <1>3, <1>5 DEF RiskInv
<1>7. /\ writer' \in [Writer -> Writing] /\ writer'[w] = new
      /\ \A v \in Writer \ {w} : writer'[v] = writer[v]
  BY <1>4, <1>5 DEF RiskInv
<1>8. \A k \in shown' : k \in DOMAIN rows' /\ rows'[k].what # "failed"
  BY <1>5, <1>6 DEF RiskInv
<1>9. \A v \in Writer : writer'[v].at # "idle" => writer'[v].what \in Whats
  BY <1>1, <1>4, <1>7 DEF RiskInv
<1>10. ASSUME NEW v \in Writer, writer'[v].at = "logged"
       PROVE  writer'[v].row \in DOMAIN rows' /\ rows'[writer'[v].row].what = writer'[v].what
  <2>1. CASE v = w
    BY <1>2, <1>4, <1>6, <1>7, <2>1
  <2>2. CASE v # w
    BY <1>6, <1>7, <1>10, <2>2 DEF RiskInv
  <2>3. QED
    BY <2>1, <2>2
<1>11. QED
  BY <1>6, <1>7, <1>8, <1>9, <1>10 DEF RiskInv

LEMMA CommitEventInv == ASSUME RiskInv, NEW w \in Writer, CommitEvent(w) PROVE RiskInv'
<1>1. /\ writer' = [writer EXCEPT ![w] = NoWriter] /\ rows' = rows /\ shown' = shown \cup {writer[w].row}
      /\ writer[w].row \in DOMAIN rows /\ rows[writer[w].row].what # "failed"
  BY DEF CommitEvent, RiskInv
<1>4. QED
  BY <1>1, NoWriterOnes DEF RiskInv

LEMMA UndoEventInv == ASSUME RiskInv, NEW w \in Writer, UndoEvent(w) PROVE RiskInv'
<1>1. writer' = [writer EXCEPT ![w] = NoWriter] /\ UNCHANGED <<rows, shown>>
  BY DEF UndoEvent
<1>4. QED
  BY <1>1, NoWriterOnes DEF RiskInv

-----------------------------------------------------------------------------
(* The audit log while rows come in.                                        *)

LEMMA FiniteRows ==
  ASSUME NEW log \in Seq(Row), NEW seen \in SUBSET (DOMAIN log)
  PROVE  /\ seen \in SUBSET Nat /\ IsFiniteSet(seen)
         /\ \A S \in SUBSET seen : IsFiniteSet(S) /\ Cardinality(S) \in Nat
<1>1. PICK k \in Nat : DOMAIN log = 1 .. k
  OBVIOUS
<1>2. seen \in SUBSET (1 .. k)
  BY <1>1
<1>3. IsFiniteSet(1 .. k)
  BY FS_Interval
<1>4. IsFiniteSet(seen)
  BY <1>2, <1>3, FS_Subset
<1>5. ASSUME NEW S \in SUBSET seen PROVE IsFiniteSet(S) /\ Cardinality(S) \in Nat
  <2>1. IsFiniteSet(S)
    BY <1>4, FS_Subset
  <2>2. QED
    BY <2>1, FS_CardinalityType
<1>6. QED
  BY <1>2, <1>4, <1>5

LEMMA ShownOnes ==
  ASSUME RiskInv
  PROVE  /\ shown \subseteq Nat /\ IsFiniteSet(shown)
         /\ \A S \in SUBSET shown : IsFiniteSet(S) /\ Cardinality(S) \in Nat
BY FiniteRows DEF RiskInv

LEMMA ShownLater ==
  ASSUME RiskInv'
  PROVE  /\ shown' \subseteq Nat /\ IsFiniteSet(shown')
         /\ \A S \in SUBSET shown' : IsFiniteSet(S) /\ Cardinality(S) \in Nat
BY FiniteRows DEF RiskInv

LEMMA NewerOnes ==
  ASSUME RiskInv, NEW n
  PROVE  /\ Newer(n) \in Nat
         /\ n \in shown => Newer(n) < Cardinality(shown)
         /\ \A m \in shown : n \in shown /\ m # n => Newer(m) # Newer(n)
<1> DEFINE Above(k) == {m \in shown : m > k}
<1>1. \A k : Above(k) \in SUBSET shown
  OBVIOUS
<1>2. \A k : Newer(k) = Cardinality(Above(k)) /\ Newer(k) \in Nat /\ IsFiniteSet(Above(k))
  BY <1>1, ShownOnes DEF Newer
<1>3. \A k \in shown : k \in Nat /\ k \notin Above(k)
  BY ShownOnes
<1>4. n \in shown => Newer(n) < Cardinality(shown)
  <2>1. Above(n) \in SUBSET shown /\ IsFiniteSet(shown) /\ Cardinality(shown) \in Nat
    BY <1>1, ShownOnes
  <2>2. Cardinality(Above(n)) <= Cardinality(shown)
        /\ (Cardinality(shown) = Cardinality(Above(n)) => shown = Above(n))
    BY <2>1, FS_Subset
  <2>3. QED
    BY <1>2, <1>3, <2>1, <2>2
<1>5. ASSUME NEW a \in shown, NEW b \in shown, a < b PROVE Newer(a) # Newer(b)
  <2>1. Above(b) \in SUBSET Above(a) /\ b \in Above(a) /\ b \notin Above(b)
    BY <1>3, <1>5
  <2>2. Cardinality(Above(a)) = Cardinality(Above(b)) => Above(a) = Above(b)
    BY <1>2, <2>1, FS_Subset
  <2>3. QED
    BY <1>2, <2>1, <2>2
<1>6. \A m \in shown : n \in shown /\ m # n => m < n \/ n < m
  BY <1>3
<1>7. QED
  BY <1>2, <1>4, <1>5, <1>6

\* No more rows lie on one page than a page has places.
LEMMA PageFull ==
  ASSUME RiskInv, Size \in Nat \ {0}, NEW items \in SUBSET {n \in shown : OnPage(n, 1)}
  PROVE  Cardinality(items) <= Size
<1> SUFFICES ASSUME ~(Cardinality(items) <= Size) PROVE FALSE
  OBVIOUS
<1> DEFINE f == [n \in items |-> Newer(n)]
           places == 0 .. Size - 1
<1>1. IsFiniteSet(items) /\ Cardinality(items) \in Nat /\ items \subseteq shown
  BY ShownOnes
<1>2. IsFiniteSet(places) /\ Cardinality(places) = Size
  BY FS_Interval
<1>3. f \in [items -> places]
  <2>1. \A n \in items : Newer(n) \in (1 - 1) * Size .. 1 * Size - 1
    BY DEF OnPage
  <2>2. (1 - 1) * Size = 0 /\ 1 * Size = Size
    OBVIOUS
  <2>3. QED
    BY <2>1, <2>2
<1>4. \A x \in items : f[x] = Newer(x)
  OBVIOUS
<1> HIDE DEF f, places
<1>5. \E x, y \in items : x # y /\ f[x] = f[y]
  BY <1>1, <1>2, <1>3, FS_PigeonHole
<1>6. QED
  BY <1>1, <1>4, <1>5, NewerOnes

\* What a writer does: rows are added, rows come into sight, none goes.
Grown ==
  /\ shown \subseteq shown' /\ UNCHANGED <<reader, stats>>
  /\ \A n \in DOMAIN rows : n \in DOMAIN rows' /\ rows'[n] = rows[n]

LEMMA WritersAdd == ASSUME RiskInv, Events PROVE Grown
<1>1. ASSUME NEW w \in Writer, NEW ip, NEW browser, NEW utc, NEW blocked,
             Attempt(w, ip, browser, utc, blocked)
      PROVE  Grown
  BY <1>1 DEF Attempt, Grown
<1>2. ASSUME NEW w \in Writer, NEW what, Event(w, what) PROVE Grown
  BY <1>2 DEF Event, Grown
<1>3. ASSUME NEW w \in Writer, LogEvent(w) PROVE Grown
  <2> DEFINE row == [what |-> writer[w].what, ip |-> writer[w].ip, browser |-> writer[w].browser,
                   agent |-> writer[w].agent]
  <2>1. rows' = Append(rows, row) /\ shown' = shown /\ UNCHANGED <<reader, stats>>
    BY <1>3 DEF LogEvent
  <2> HIDE DEF row
  <2>2. writer[w] \in Writing /\ writer[w].what \in Whats
    BY <1>3 DEF RiskInv, LogEvent
  <2>3. row \in Row
    BY <2>2 DEF Row, Writing, row
  <2>4. rows \in Seq(Row)
    BY DEF RiskInv
  <2>5. QED
    BY <2>1, <2>3, <2>4 DEF Grown
<1>4. ASSUME NEW w \in Writer, CommitEvent(w) \/ UndoEvent(w) PROVE Grown
  BY <1>4 DEF CommitEvent, UndoEvent, Grown
<1>5. QED
  BY <1>1, <1>2, <1>3, <1>4 DEF Events

LEMMA NewerGrows ==
  ASSUME RiskInv, RiskInv', Grown, NEW n
  PROVE  Newer(n) \in Nat /\ Newer(n)' \in Nat /\ Newer(n) <= Newer(n)'
<1> DEFINE Above == {m \in shown : m > n}
<1>1. Above \in SUBSET Above' /\ Above \in SUBSET shown /\ Above' \in SUBSET shown'
  BY DEF Grown
<1>2. IsFiniteSet(Above') /\ Cardinality(Above') \in Nat /\ Cardinality(Above) \in Nat
  BY <1>1, ShownOnes, ShownLater
<1>3. Cardinality(Above) <= Cardinality(Above')
  BY <1>1, <1>2, FS_Subset
<1>4. QED
  BY <1>2, <1>3 DEF Newer

-----------------------------------------------------------------------------
(* Listings, searches and exports.                                          *)

Reading == [at : {"idle", "count", "select", "over"}, mode : {"list", "search", "export"},
            page : Nat \ {0}, total : Nat, base : SUBSET Nat, start : SUBSET Nat, seen : SUBSET Nat,
            slid : BOOLEAN]

\* Everything a listing has not shown yet lies on the page asked for or after
\* it: rows that come in push the others away from the reader, never past him.
ReaderInv ==
  /\ reader \in Reading
  /\ reader.at # "idle" => reader.start \subseteq shown
  /\ reader.at \in {"count", "select"} =>
       /\ reader.mode # "list" => reader.page = 1
       /\ reader.mode = "list" =>
            \A n \in reader.start \ reader.seen : Newer(n) >= (reader.page - 1) * Size
  /\ reader.at = "select" => reader.total = Cardinality(reader.base)
  /\ ListComplete /\ NewestOnly

LEMMA SizeOnes == Size \in Nat \ {0}
BY TrailAssumption DEF Size

LEMMA ReaderInitInv == TrailInit => ReaderInv
<1> SUFFICES ASSUME TrailInit PROVE ReaderInv
  OBVIOUS
<1>1. reader = NoReader /\ NoReader \in Reading /\ NoReader.at = "idle"
  BY DEF TrailInit, NoReader, Reading
<1>2. QED
  BY <1>1 DEF ReaderInv, ListComplete, NewestOnly

\* The products of a page and its size.
LEMMA PageArithmetic ==
  ASSUME NEW s \in Nat \ {0}, NEW p \in Nat \ {0}
  PROVE  /\ (p - 1) * s \in Nat /\ p * s \in Nat /\ (p + 1 - 1) * s = p * s
         /\ p = 1 => (p - 1) * s = 0 /\ p * s = s
<1>1. p - 1 \in Nat /\ s \in Nat /\ p + 1 - 1 = p
  OBVIOUS
<1>2. QED
  BY <1>1

LEMMA ReaderGrown == ASSUME RiskInv, RiskInv', ReaderInv, Grown PROVE ReaderInv'
<1>1. reader' = reader /\ Size' = Size /\ Size \in Nat \ {0}
  BY SizeOnes DEF Grown, Size
<1>2. \A n \in reader.start : Newer(n) \in Nat /\ Newer(n)' \in Nat /\ Newer(n) <= Newer(n)'
  BY NewerGrows
<1>3. reader.at # "idle" => reader.start \subseteq shown /\ reader.start \subseteq shown'
  BY DEF ReaderInv, Grown
<1>4. reader.at # "idle" => \A n \in reader.start : rows'[n] = rows[n] /\ (Match(n)' <=> Match(n))
  BY <1>1, <1>3 DEF RiskInv, Grown, Match
<1>5. reader \in Reading
  BY DEF ReaderInv
<1>6. (reader.page - 1) * Size \in Nat
  BY <1>1, <1>5, PageArithmetic DEF Reading
<1>7. ASSUME reader.at \in {"count", "select"}, reader.mode = "list", NEW n \in reader.start \ reader.seen
      PROVE  Newer(n)' >= (reader.page - 1) * Size
  <2>1. Newer(n) >= (reader.page - 1) * Size
    BY <1>7 DEF ReaderInv
  <2>2. QED
    BY <1>2, <1>6, <2>1
<1>8. ListComplete'
  BY <1>1 DEF ReaderInv, ListComplete
<1>9. NewestOnly'
  <2> SUFFICES ASSUME reader.at = "over", reader.mode # "list", NEW n \in reader.start, Match(n)',
                      n \notin reader.seen
               PROVE  Newer(n)' >= Size
    BY <1>1 DEF NewestOnly
  <2>1. Match(n)
    BY <1>4
  <2>2. Newer(n) >= Size
    BY <2>1 DEF ReaderInv, NewestOnly
  <2>3. QED
    BY <1>1, <1>2, <2>2
<1>10. reader'.at \in {"count", "select"} =>
         /\ reader'.mode # "list" => reader'.page = 1
         /\ reader'.mode = "list" =>
              \A n \in reader'.start \ reader'.seen : Newer(n)' >= (reader'.page - 1) * Size'
  <2>1. reader.at \in {"count", "select"} => (reader.mode # "list" => reader.page = 1)
    BY DEF ReaderInv
  <2>2. QED
    BY <1>1, <1>7, <2>1
<1>11. reader'.at = "select" => reader'.total = Cardinality(reader'.base)
  BY <1>1 DEF ReaderInv
<1>12. QED
  BY <1>1, <1>3, <1>5, <1>8, <1>9, <1>10, <1>11 DEF ReaderInv

LEMMA AskInv == ASSUME RiskInv, ReaderInv, NEW mode \in {"list", "search", "export"}, Ask(mode)
                PROVE  ReaderInv'
<1>1. /\ reader' = [NoReader EXCEPT !.at = "count", !.mode = mode, !.start = shown]
      /\ UNCHANGED writing
  BY DEF Ask
<1>2. shown \in SUBSET Nat /\ shown' = shown
  BY <1>1, ShownOnes DEF writing
<1>3. NoReader \in Reading /\ NoReader.page = 1
  BY DEF NoReader, Reading
<1>4. /\ reader' \in Reading /\ reader'.at = "count" /\ reader'.mode = mode
      /\ reader'.start = shown /\ reader'.page = 1
  BY <1>1, <1>2, <1>3 DEF Reading
<1>5. \A n : Newer(n)' \in Nat
  BY <1>1, NewerOnes DEF writing, Newer
<1>6. (reader'.page - 1) * Size' = 0
  BY <1>4, TrailAssumption DEF Size
<1>7. QED
  BY <1>2, <1>4, <1>5, <1>6 DEF ReaderInv, ListComplete, NewestOnly

LEMMA CountRowsInv == ASSUME RiskInv, ReaderInv, CountRows PROVE ReaderInv'
<1>1. /\ reader' = [reader EXCEPT !.at = "select", !.total = Cardinality(shown), !.base = shown]
      /\ reader.at = "count" /\ UNCHANGED <<rows, shown>>
  BY DEF CountRows, writing
<1>2. shown \in SUBSET Nat /\ Cardinality(shown) \in Nat
  BY ShownOnes
<1>3. /\ reader' \in Reading /\ reader'.at = "select" /\ reader'.mode = reader.mode
      /\ reader'.start = reader.start /\ reader'.page = reader.page /\ reader'.seen = reader.seen
      /\ reader'.total = Cardinality(shown) /\ reader'.base = shown
  BY <1>1, <1>2 DEF ReaderInv, Reading
<1>4. Size' = Size /\ \A n : Newer(n)' = Newer(n)
  BY <1>1, <1>3 DEF Size, Newer
<1>5. /\ reader.start \subseteq shown
      /\ reader.mode # "list" => reader.page = 1
      /\ reader.mode = "list" => \A n \in reader.start \ reader.seen : Newer(n) >= (reader.page - 1) * Size
  BY <1>1 DEF ReaderInv
<1>6. QED
  BY <1>1, <1>3, <1>4, <1>5 DEF ReaderInv, ListComplete, NewestOnly

\* A page that is not the last leaves what comes after it; the last one leaves
\* nothing, when no row came in since the count.
LEMMA SelectPageInv == ASSUME RiskInv, ReaderInv, SelectPage PROVE ReaderInv'
<1> DEFINE items == {n \in shown : OnPage(n, reader.page) /\ Match(n)}
           total == IF reader.mode = "search" THEN Cardinality(items) ELSE reader.total
           onward == reader.mode # "export" /\ reader.page * Size < total
<1>1. /\ reader.at = "select" /\ UNCHANGED <<rows, shown>>
      /\ reader' = IF onward
                   THEN [reader EXCEPT !.at = "count", !.page = @ + 1, !.seen = @ \cup items, !.base = {}]
                   ELSE [reader EXCEPT !.at = "over", !.seen = @ \cup items, !.base = {},
                                       !.slid = shown # reader.base]
  BY DEF SelectPage, writing
<1>2. /\ reader \in Reading /\ reader.page \in Nat \ {0} /\ reader.total = Cardinality(reader.base)
      /\ reader.mode \in {"list", "search", "export"} /\ reader.start \subseteq shown
      /\ items \in SUBSET Nat /\ Size \in Nat \ {0} /\ items \subseteq shown
  BY <1>1, SizeOnes, ShownOnes DEF ReaderInv, Reading
<1>3. PICK b \in BOOLEAN : b <=> shown # reader.base
  OBVIOUS
<1>4. /\ reader'.mode = reader.mode /\ reader'.start = reader.start /\ reader'.seen = reader.seen \cup items
      /\ onward => reader'.at = "count" /\ reader'.page = reader.page + 1
      /\ ~onward => reader'.at = "over" /\ reader'.slid = b
      /\ reader' \in Reading
  <2>1. CASE onward
    <3>1. reader' = [reader EXCEPT !.at = "count", !.page = @ + 1, !.seen = @ \cup items, !.base = {}]
      BY <1>1, <2>1
    <3> HIDE DEF items, onward
    <3>2. reader.page + 1 \in Nat \ {0}
      BY <1>2
    <3>3. reader.seen \cup items \in SUBSET Nat
      BY <1>2 DEF Reading
    <3>4. QED
      BY <1>2, <2>1, <3>1, <3>2, <3>3 DEF Reading
  <2>2. CASE ~onward
    <3>1. reader' = [reader EXCEPT !.at = "over", !.seen = @ \cup items, !.base = {}, !.slid = b]
      BY <1>1, <1>3, <2>2
    <3> HIDE DEF items, onward
    <3>2. reader.seen \cup items \in SUBSET Nat
      BY <1>2 DEF Reading
    <3>3. QED
      BY <1>2, <2>2, <3>1, <3>2 DEF Reading
  <2>3. QED
    BY <2>1, <2>2
<1>5. Size' = Size /\ \A n : Newer(n)' = Newer(n) /\ (Match(n)' <=> Match(n)) /\ Newer(n) \in Nat
  BY <1>1, <1>4, NewerOnes DEF Size, Newer, Match
<1>6. /\ (reader.page - 1) * Size \in Nat /\ reader.page * Size \in Nat
      /\ (reader.page + 1 - 1) * Size = reader.page * Size
      /\ reader.page = 1 => (reader.page - 1) * Size = 0 /\ reader.page * Size = Size
  BY <1>2, PageArithmetic
<1>7. ASSUME reader.mode = "list", NEW n \in reader.start \ (reader.seen \cup items)
      PROVE  Newer(n) >= reader.page * Size
  <2>1. n \in shown /\ Newer(n) \in Nat /\ Newer(n) >= (reader.page - 1) * Size
    BY <1>1, <1>2, <1>5, <1>7 DEF ReaderInv
  <2>2. ~OnPage(n, reader.page)
    BY <1>7, <2>1 DEF Match
  <2>3. QED
    BY <1>6, <2>1, <2>2 DEF OnPage
<1>8. reader.mode # "list" => reader.page = 1 /\ ~onward
  <2>1. CASE reader.mode = "search"
    <3>1. reader.page = 1
      BY <1>1, <2>1 DEF ReaderInv
    <3>2. items \in SUBSET {n \in shown : OnPage(n, 1)}
      BY <3>1
    <3>3. Cardinality(items) <= Size /\ Cardinality(items) \in Nat
      BY <1>2, <3>2, PageFull, ShownOnes
    <3>4. total = Cardinality(items) /\ reader.page * Size = Size
      BY <1>6, <2>1, <3>1
    <3> HIDE DEF total, items
    <3>5. QED
      BY <1>2, <3>1, <3>3, <3>4
  <2>2. CASE reader.mode = "export"
    BY <1>1, <2>2 DEF ReaderInv
  <2>3. QED
    BY <1>2, <2>1, <2>2
<1>9. ListComplete'
  <2> SUFFICES ASSUME ~onward, reader.mode = "list", ~b, NEW n \in reader.start,
                      n \notin reader.seen \cup items
               PROVE  FALSE
    BY <1>4 DEF ListComplete
  <2>1. n \in shown /\ reader.base = shown
    BY <1>2, <1>3
  <2>2. total = Cardinality(shown) /\ Cardinality(shown) \in Nat
    BY <1>2, <2>1, ShownOnes
  <2>3. Newer(n) >= reader.page * Size /\ Newer(n) < Cardinality(shown) /\ Newer(n) \in Nat
    BY <1>7, <2>1, NewerOnes
  <2> HIDE DEF total
  <2>4. QED
    BY <1>6, <2>2, <2>3
<1>10. NewestOnly'
  <2> SUFFICES ASSUME reader.mode # "list", NEW n \in reader.start, Match(n), n \notin items
               PROVE  Newer(n) >= Size
    BY <1>4, <1>5 DEF NewestOnly
  <2>1. n \in shown /\ reader.page = 1 /\ Newer(n) \in Nat
    BY <1>2, <1>5, <1>8
  <2>2. ~OnPage(n, reader.page)
    BY <2>1
  <2>3. QED
    BY <1>2, <1>6, <2>1, <2>2 DEF OnPage
<1>11. reader'.at \in {"count", "select"} =>
         /\ reader'.mode # "list" => reader'.page = 1
         /\ reader'.mode = "list" =>
              \A n \in reader'.start \ reader'.seen : Newer(n)' >= (reader'.page - 1) * Size'
  <2>1. CASE onward
    <3>1. reader.mode = "list" /\ reader'.page = reader.page + 1
      BY <1>4, <1>8, <2>1
    <3>2. (reader'.page - 1) * Size' = reader.page * Size
      <4>1. reader'.page - 1 = reader.page
        BY <1>2, <3>1
      <4>2. QED
        BY <1>5, <4>1
    <3>3. reader'.start \ reader'.seen = reader.start \ (reader.seen \cup items)
      BY <1>4
    <3>4. QED
      BY <1>4, <1>5, <1>7, <3>1, <3>2, <3>3
  <2>2. CASE ~onward
    BY <1>4, <2>2
  <2>3. QED
    BY <2>1, <2>2
<1>12. QED
  BY <1>1, <1>2, <1>4, <1>9, <1>10, <1>11 DEF ReaderInv

-----------------------------------------------------------------------------
(* The statistics.                                                          *)

Counting == [at : {"idle", "trends", "distribution", "over"}, now : Nat, query : Nat, logins : Nat, all : Nat]

First == stats.now - Days * DayLength
DayStart(first, day) == first + day * DayLength

\* The rows in sight that the queries so far were about: all logins of the days
\* that are through, and the successful ones of a day that is half through.
Past(log, seen, first, query) ==
  {n \in seen :
     /\ n >= first /\ log[n].what \in {"login", "refused"}
     /\ \/ n < DayStart(first, query \div 2)
        \/ query % 2 = 1 /\ n < DayStart(first, query \div 2 + 1) /\ log[n].what = "login"}
Period(log, seen, first) == {n \in seen : n >= first /\ log[n].what \in {"login", "refused"}}

StatsInv ==
  /\ stats \in Counting
  /\ stats.at = "trends" => stats.logins <= Cardinality(Past(rows, shown, First, stats.query))
  /\ stats.at = "distribution" => stats.logins <= Cardinality(Period(rows, shown, First))
  /\ TrendsCovered

LEMMA StatsInitInv == TrailInit => StatsInv
<1> SUFFICES ASSUME TrailInit PROVE StatsInv
  OBVIOUS
<1>1. stats = NoStats /\ NoStats \in Counting /\ NoStats.at = "idle"
  BY DEF TrailInit, NoStats, Counting
<1>2. QED
  BY <1>1 DEF StatsInv, TrendsCovered

LEMMA StatsGrown == ASSUME RiskInv, RiskInv', StatsInv, Grown PROVE StatsInv'
<1>1. stats' = stats /\ First' = First
  BY DEF Grown, First
<1>2. \A n \in shown : n \in shown' /\ rows'[n] = rows[n]
  BY DEF Grown, RiskInv
<1>3. PICK query : query = stats.query
  OBVIOUS
<1>4. PICK first : first = First
  OBVIOUS
<1> DEFINE past == Past(rows, shown, first, query)
           pastLater == Past(rows', shown', first, query)
           period == Period(rows, shown, first)
           periodLater == Period(rows', shown', first)
<1>5. past \in SUBSET pastLater /\ past \in SUBSET shown /\ pastLater \in SUBSET shown'
  BY <1>2 DEF Past
<1>6. period \in SUBSET periodLater /\ period \in SUBSET shown /\ periodLater \in SUBSET shown'
  BY <1>2 DEF Period
<1> HIDE DEF past, pastLater, period, periodLater
<1>7. /\ IsFiniteSet(pastLater) /\ IsFiniteSet(periodLater)
      /\ {Cardinality(past), Cardinality(pastLater)} \subseteq Nat
      /\ {Cardinality(period), Cardinality(periodLater)} \subseteq Nat
  BY <1>5, <1>6, ShownOnes, ShownLater
<1>8. Cardinality(past) <= Cardinality(pastLater) /\ Cardinality(period) <= Cardinality(periodLater)
  BY <1>5, <1>6, <1>7, FS_Subset
<1>9. stats.logins \in Nat
  BY DEF StatsInv, Counting
<1>10. /\ stats.at = "trends" => stats.logins <= Cardinality(past)
       /\ stats.at = "distribution" => stats.logins <= Cardinality(period)
  BY <1>3, <1>4 DEF StatsInv, past, period
<1>11. /\ stats.at = "trends" => stats.logins <= Cardinality(pastLater)
       /\ stats.at = "distribution" => stats.logins <= Cardinality(periodLater)
  BY <1>7, <1>8, <1>9, <1>10
<1>12. /\ pastLater = Past(rows', shown', First', stats'.query)
       /\ periodLater = Period(rows', shown', First')
  BY <1>1, <1>3, <1>4 DEF pastLater, periodLater
<1>13. QED
  BY <1>1, <1>11, <1>12 DEF StatsInv, TrendsCovered

LEMMA StartStatsInv == ASSUME RiskInv, StatsInv, StartStats PROVE StatsInv'
<1>1. PICK now \in Nat : now = Len(rows) + 1
  BY DEF RiskInv
<1>2. stats' = [NoStats EXCEPT !.at = "trends", !.now = now] /\ UNCHANGED <<rows, shown>>
  BY <1>1 DEF StartStats, writing
<1>3. NoStats \in Counting /\ NoStats.logins = 0
  BY DEF NoStats, Counting
<1>4. stats' \in Counting /\ stats'.at = "trends" /\ stats'.logins = 0
  BY <1>2, <1>3 DEF Counting
<1>5. Past(rows', shown', First', stats'.query) \in SUBSET shown
  BY <1>2 DEF Past
<1>6. Cardinality(Past(rows', shown', First', stats'.query)) \in Nat
  BY <1>5, ShownOnes
<1>7. QED
  BY <1>4, <1>6 DEF StatsInv, TrendsCovered

\* Where the queries are: two of them to a day.
LEMMA QueryDay ==
  ASSUME NEW query \in Nat
  PROVE  /\ query \div 2 \in Nat
         /\ query % 2 = 0 => (query + 1) % 2 = 1 /\ (query + 1) \div 2 = query \div 2
         /\ query % 2 = 1 => (query + 1) % 2 = 0 /\ (query + 1) \div 2 = query \div 2 + 1
         /\ query % 2 \in {0, 1}
OBVIOUS

LEMMA DayOnce ==
  ASSUME StatsInv, NEW day \in Nat
  PROVE  /\ First \in Int /\ DayStart(First, day) \in Int /\ DayStart(First, day) >= First
         /\ DayStart(First, day + 1) = DayStart(First, day) + DayLength /\ DayLength \in Nat \ {0}
         /\ Window(day) = DayStart(First, day) .. DayStart(First, day + 1) - 1
<1>1. stats.now \in Nat /\ Days \in Nat /\ DayLength \in Nat \ {0}
  BY TrailAssumption DEF StatsInv, Counting
<1>2. /\ Days * DayLength \in Nat /\ day * DayLength \in Nat
      /\ (day + 1) * DayLength = day * DayLength + DayLength
  BY <1>1
<1>3. First \in Int
  BY <1>1, <1>2 DEF First
<1>4. /\ DayStart(First, day + 1) = DayStart(First, day) + DayLength
      /\ DayStart(First, day) \in Int /\ DayStart(First, day) >= First
  BY <1>1, <1>2, <1>3 DEF DayStart
<1>5. Window(day) = DayStart(First, day) .. DayStart(First, day) + DayLength - 1
  BY DEF Window, DayStart, First
<1>6. QED
  BY <1>1, <1>3, <1>4, <1>5

\* A query counts rows no query before it has counted.
LEMMA TrendQueryInv == ASSUME RiskInv, StatsInv, TrendQuery PROVE StatsInv'
<1> DEFINE q == stats.query
           what == IF q % 2 = 0 THEN "login" ELSE "refused"
           before == Past(rows, shown, First, q)
           after == Past(rows, shown, First, q + 1)
           period == Period(rows, shown, First)
           counted == {n \in shown \cap Window(q \div 2) : rows[n].what = what}
<1>1. /\ stats.at = "trends" /\ UNCHANGED <<rows, shown>>
      /\ stats' = [stats EXCEPT !.logins = @ + Cardinality(counted), !.query = @ + 1,
                                !.at = IF stats.query + 1 = 2 * Days THEN "distribution" ELSE @]
  BY DEF TrendQuery, writing
<1>2. stats \in Counting /\ q \in Nat /\ stats.logins \in Nat /\ shown \in SUBSET Nat
  BY ShownOnes DEF StatsInv, Counting
<1>3. /\ \A S \in SUBSET shown : IsFiniteSet(S) /\ Cardinality(S) \in Nat
      /\ counted \in SUBSET shown /\ before \in SUBSET shown /\ after \in SUBSET shown
      /\ period \in SUBSET shown
  BY ShownOnes DEF Past, Period
<1>4. PICK c \in Nat : c = Cardinality(counted)
  BY <1>3
<1>5. /\ stats' \in Counting /\ stats'.logins = stats.logins + c /\ stats'.query = q + 1
      /\ stats'.at \in {"trends", "distribution"} /\ stats'.now = stats.now
  <2>1. stats.logins + c \in Nat /\ q + 1 \in Nat
    BY <1>2
  <2>2. PICK at \in {"trends", "distribution"} :
          at = IF stats.query + 1 = 2 * Days THEN "distribution" ELSE stats.at
    BY <1>1
  <2>3. stats' = [stats EXCEPT !.logins = @ + c, !.query = @ + 1, !.at = at]
    BY <1>1, <1>4, <2>2
  <2> HIDE DEF counted
  <2>4. QED
    BY <1>2, <2>1, <2>3 DEF Counting
<1>6. First' = First /\ rows' = rows /\ shown' = shown
  BY <1>1, <1>5 DEF First
<1>7. PICK d \in Nat : d = q \div 2
  BY <1>2, QueryDay
<1>8. /\ First \in Int /\ DayStart(First, d) \in Int /\ DayStart(First, d) >= First
      /\ DayStart(First, d + 1) = DayStart(First, d) + DayLength /\ DayLength \in Nat \ {0}
      /\ Window(d) = DayStart(First, d) .. DayStart(First, d + 1) - 1
  BY DayOnce
<1>9. /\ q % 2 = 0 => (q + 1) % 2 = 1 /\ (q + 1) \div 2 = d
      /\ q % 2 = 1 => (q + 1) % 2 = 0 /\ (q + 1) \div 2 = d + 1
      /\ q % 2 \in {0, 1}
  BY <1>2, <1>7, QueryDay
<1>10. \A n \in counted : /\ n \in shown /\ n \in Int /\ rows[n].what = what
                          /\ n >= DayStart(First, d) /\ n < DayStart(First, d + 1)
  BY <1>2, <1>7, <1>8
<1>11. counted \cap before = {}
  <2> SUFFICES ASSUME NEW n \in counted, n \in before PROVE FALSE
    OBVIOUS
  <2>1. q % 2 = 1 /\ rows[n].what = "login"
    BY <1>7, <1>8, <1>10 DEF Past
  <2>2. QED
    BY <1>10, <2>1
<1>12. counted \cup before \in SUBSET after
  <2>1. ASSUME NEW n \in counted PROVE n \in after
    <3>1. /\ n \in shown /\ n \in Int /\ n >= DayStart(First, d) /\ n < DayStart(First, d + 1)
          /\ rows[n].what = what /\ n >= First
      BY <1>8, <1>10
    <3> HIDE DEF counted
    <3>2. QED
      BY <1>9, <3>1 DEF Past
  <2>2. ASSUME NEW n \in before PROVE n \in after
    <3>1. n \in shown /\ n >= First /\ rows[n].what \in {"login", "refused"}
      BY DEF Past
    <3>2. n \in Int
      BY <1>2, <3>1
    <3>3. n < DayStart(First, d) \/ (q % 2 = 1 /\ n < DayStart(First, d + 1))
      BY <1>7 DEF Past
    <3>4. n < DayStart(First, d) => n < DayStart(First, d + 1)
      BY <1>8, <3>2
    <3>5. QED
      BY <1>9, <3>1, <3>3, <3>4 DEF Past
  <2> HIDE DEF counted
  <2>3. QED
    BY <2>1, <2>2
<1>13. c + Cardinality(before) <= Cardinality(after)
  <2> HIDE DEF counted
  <2>1. IsFiniteSet(counted) /\ IsFiniteSet(before) /\ IsFiniteSet(after)
    BY <1>3
  <2>2. Cardinality(counted \cup before) = Cardinality(counted) + Cardinality(before) - Cardinality({})
    BY <1>11, <2>1, FS_Union
  <2>3. Cardinality({}) = 0
    BY FS_EmptySet
  <2>4. Cardinality(counted \cup before) <= Cardinality(after)
    BY <1>12, <2>1, FS_Subset
  <2>5. Cardinality(before) \in Nat /\ Cardinality(after) \in Nat
    BY <1>3
  <2>6. QED
    BY <1>4, <2>2, <2>3, <2>4, <2>5
<1>14. /\ stats'.logins <= Cardinality(after) /\ Cardinality(after) \in Nat
       /\ Cardinality(after) <= Cardinality(period) /\ Cardinality(period) \in Nat
  <2>1. stats.logins <= Cardinality(before) /\ Cardinality(before) \in Nat /\ Cardinality(after) \in Nat
    BY <1>1, <1>3 DEF StatsInv
  <2>2. after \in SUBSET period /\ IsFiniteSet(period)
    BY <1>3 DEF Past, Period
  <2>3. Cardinality(after) <= Cardinality(period)
    BY <2>2, FS_Subset
  <2>4. Cardinality(period) \in Nat
    BY <1>3
  <2>5. QED
    BY <1>2, <1>5, <1>13, <2>1, <2>3, <2>4
<1>15. stats'.logins \in Nat
  BY <1>2, <1>5
<1>16. QED
  BY <1>5, <1>6, <1>14, <1>15 DEF StatsInv, TrendsCovered

LEMMA DistributionQueryInv == ASSUME RiskInv, StatsInv, DistributionQuery PROVE StatsInv'
<1>1. /\ stats.at = "distribution" /\ UNCHANGED <<rows, shown>>
      /\ stats' = [stats EXCEPT !.at = "over", !.all = Cardinality(Period(rows, shown, First))]
  BY DEF DistributionQuery, writing, Period, First
<1>2. Cardinality(Period(rows, shown, First)) \in Nat
  <2>1. Period(rows, shown, First) \in SUBSET shown
    BY DEF Period
  <2>2. QED
    BY <2>1, ShownOnes
<1>3. /\ stats' \in Counting /\ stats'.at = "over" /\ stats'.logins = stats.logins
      /\ stats'.all = Cardinality(Period(rows, shown, First))
  BY <1>1, <1>2 DEF StatsInv, Counting
<1>4. QED
  BY <1>1, <1>3 DEF StatsInv, TrendsCovered

-----------------------------------------------------------------------------
(* The messages.                                                            *)

Kinds == {"none", "email", "sms"}
MailPlaces == {"none", "queued", "sending", "done", "abandoned", "disabled", "refused", "failed", "lost"}
Letter == [kind : Kinds, at : MailPlaces, tries : 0 .. MaxRetries + 1, copies : Nat]

\* A message in the queue has an attempt left; one being sent has not arrived
\* with this attempt; and where a message ends, it had a reason to.
Posted(it) ==
  /\ it.copies <= it.tries
  /\ it.at \in {"none", "queued"} => it.tries <= MaxRetries
  /\ it.at = "sending" => it.copies < it.tries
  /\ it.at = "done" => it.copies > 0
  /\ it.at = "abandoned" => it.tries = MaxRetries + 1
  /\ it.at = "disabled" => ~EmailEnabled
  /\ it.at = "refused" => it.kind = "sms"
MailInv == mail \in [Message -> Letter] /\ \A m \in Message : Posted(mail[m])

LEMMA RetriesOnes == MaxRetries \in Nat
BY MailAssumption

LEMMA MailInitInv == MailInit => MailInv
<1>1. Unposted \in Letter
  BY RetriesOnes DEF Unposted, Letter, Kinds, MailPlaces
<1>2. QED
  BY <1>1, RetriesOnes DEF MailInit, MailInv, Posted, Unposted

\* A step moves one message.
LEMMA ReplaceLetter ==
  ASSUME MailInv, NEW m \in Message, NEW it \in Letter, mail' = [mail EXCEPT ![m] = it],
         Posted(it)
  PROVE  MailInv'
BY DEF MailInv

LEMMA PostInv == ASSUME MailInv, NEW m \in Message, NEW kind \in {"email", "sms"}, Post(m, kind)
                 PROVE  MailInv'
<1> DEFINE it == [mail[m] EXCEPT !.kind = kind, !.at = "queued"]
<1>1. mail[m] \in Letter /\ Posted(mail[m]) /\ mail[m] = Unposted
  BY DEF MailInv, Post
<1>2. mail' = [mail EXCEPT ![m] = it]
  BY DEF Post, MailInv
<1>3. mail[m].tries = 0 /\ mail[m].copies = 0
  BY <1>1 DEF Unposted
<1>4. it \in Letter /\ it.at = "queued" /\ it.tries = mail[m].tries /\ it.copies = mail[m].copies
  BY <1>1 DEF Letter, Kinds, MailPlaces
<1> HIDE DEF it
<1>5. 0 <= MaxRetries
  BY RetriesOnes
<1>6. Posted(it)
  BY <1>3, <1>4, <1>5 DEF Posted
<1>7. QED
  BY <1>2, <1>4, <1>6, ReplaceLetter

LEMMA TakeInv == ASSUME MailInv, NEW m \in Message, Take(m) PROVE MailInv'
<1>1. mail[m] \in Letter /\ Posted(mail[m]) /\ mail[m].at = "queued"
  BY DEF MailInv, Take
<1>2. /\ mail[m].tries \in Nat /\ mail[m].tries <= MaxRetries
      /\ mail[m].copies \in Nat /\ mail[m].copies <= mail[m].tries
  BY <1>1 DEF Posted, Letter
<1>3. CASE mail[m].kind = "email" /\ ~EmailEnabled
  <2> DEFINE it == [mail[m] EXCEPT !.at = "disabled"]
  <2>1. mail' = [mail EXCEPT ![m] = it]
    BY <1>3 DEF Take, MailInv
  <2>2. /\ it \in Letter /\ it.at = "disabled" /\ it.tries = mail[m].tries
        /\ it.copies = mail[m].copies
    BY <1>1 DEF Letter, MailPlaces
  <2> HIDE DEF it
  <2>3. Posted(it)
    BY <1>2, <1>3, <2>2 DEF Posted
  <2>4. QED
    BY <2>1, <2>2, <2>3, ReplaceLetter
<1>4. CASE ~(mail[m].kind = "email" /\ ~EmailEnabled)
  <2> DEFINE it == [mail[m] EXCEPT !.at = "sending", !.tries = mail[m].tries + 1]
  <2>1. mail' = [mail EXCEPT ![m] = it]
    BY <1>4 DEF Take, MailInv
  <2>2. mail[m].tries + 1 \in 0 .. MaxRetries + 1
    BY <1>2, RetriesOnes
  <2>3. /\ it \in Letter /\ it.at = "sending" /\ it.tries = mail[m].tries + 1
        /\ it.copies = mail[m].copies
    BY <1>1, <2>2 DEF Letter, MailPlaces
  <2> HIDE DEF it
  <2>4. Posted(it)
    BY <1>2, <2>3 DEF Posted
  <2>5. QED
    BY <2>1, <2>3, <2>4, ReplaceLetter
<1>5. QED
  BY <1>3, <1>4

\* What an attempt can come to.
LEMMA AttemptOnes ==
  ASSUME MailInv, NEW m \in Message, mail[m].at = "sending",
         NEW at \in {"done", "queued", "abandoned", "refused", "failed", "lost"}, NEW copy \in {0, 1},
         mail' = [mail EXCEPT ![m].at = at, ![m].copies = @ + copy],
         at = "done" => copy = 1, at = "queued" => mail[m].tries <= MaxRetries,
         at = "abandoned" => ~(mail[m].tries <= MaxRetries), at = "refused" => mail[m].kind = "sms"
  PROVE  MailInv'
<1> DEFINE it == [mail[m] EXCEPT !.at = at, !.copies = mail[m].copies + copy]
<1>1. mail[m] \in Letter /\ Posted(mail[m])
  BY DEF MailInv
<1>2. /\ mail[m].tries \in 0 .. MaxRetries + 1 /\ mail[m].copies \in Nat
      /\ mail[m].copies < mail[m].tries
  BY <1>1 DEF Posted, Letter
<1>3. mail' = [mail EXCEPT ![m] = it]
  BY DEF MailInv
<1>4. mail[m].copies + copy \in Nat /\ mail[m].copies + copy <= mail[m].tries
  BY <1>2, RetriesOnes
<1>5. /\ it \in Letter /\ it.at = at /\ it.tries = mail[m].tries /\ it.kind = mail[m].kind
      /\ it.copies = mail[m].copies + copy
  BY <1>1, <1>4 DEF Letter, MailPlaces
<1> HIDE DEF it
<1>6. at = "abandoned" => mail[m].tries = MaxRetries + 1
  BY <1>2, RetriesOnes
<1>7. at = "done" => mail[m].copies + copy > 0
  BY <1>2
<1>8. Posted(it)
  BY <1>4, <1>5, <1>6, <1>7 DEF Posted
<1>9. QED
  BY <1>3, <1>5, <1>8, ReplaceLetter

LEMMA WorkerInv == ASSUME MailInv, NEW m \in Message, Worker(m) PROVE MailInv'
<1>1. mail[m] \in Letter /\ mail \in [Message -> Letter]
  BY DEF MailInv
<1>2. CASE Sent(m)
  BY <1>2, AttemptOnes DEF Sent
<1>3. CASE Retry(m)
  <2>1. PICK copy \in {0, 1} :
          mail' = [mail EXCEPT ![m].at = IF mail[m].tries <= MaxRetries THEN "queued" ELSE "abandoned",
                               ![m].copies = @ + copy]
    BY <1>3 DEF Retry
  <2>2. PICK at \in {"queued", "abandoned"} :
          at = IF mail[m].tries <= MaxRetries THEN "queued" ELSE "abandoned"
    OBVIOUS
  <2>3. mail' = [mail EXCEPT ![m].at = at, ![m].copies = @ + copy]
    BY <2>1, <2>2
  <2>4. QED
    BY <1>3, <2>2, <2>3, AttemptOnes DEF Retry
<1>4. ASSUME NEW at \in {"refused", "lost"}, mail' = [mail EXCEPT ![m].at = at]
      PROVE  mail' = [mail EXCEPT ![m].at = at, ![m].copies = @ + 0]
  <2>1. mail[m].copies + 0 = mail[m].copies /\ mail[m] = [mail[m] EXCEPT !.copies = mail[m].copies]
    BY <1>1 DEF Letter
  <2>2. [mail[m] EXCEPT !.at = at] = [mail[m] EXCEPT !.at = at, !.copies = mail[m].copies + 0]
    BY <1>1, <2>1 DEF Letter
  <2>3. QED
    BY <1>1, <1>4, <2>2
<1>5. CASE SmsRefused(m)
  BY <1>4, <1>5, AttemptOnes DEF SmsRefused
<1>6. CASE WorkerDies(m)
  BY <1>4, <1>6, AttemptOnes DEF WorkerDies
<1>7. CASE Raise(m)
  <2>1. PICK copy \in {0, 1} : mail' = [mail EXCEPT ![m].at = "failed", ![m].copies = @ + copy]
    BY <1>7 DEF Raise
  <2>2. QED
    BY <1>7, <2>1, AttemptOnes DEF Raise
<1>8. QED
  BY <1>2, <1>3, <1>5, <1>6, <1>7, TakeInv DEF Worker

LEMMA MailNextInv == ASSUME MailInv, [MailNext]_mail PROVE MailInv'
<1>1. CASE UNCHANGED mail
  BY <1>1 DEF MailInv, Posted
<1>2. QED
  BY <1>1, PostInv, WorkerInv DEF MailNext

-----------------------------------------------------------------------------
(* The passwords.                                                           *)

LEMMA Shapes ==
  ASSUME NEW lengths, NEW has, NEW p \in Password(lengths, has)
  PROVE  /\ p.length \in lengths /\ p.has \in has /\ p.pair \in BOOLEAN /\ p.triple \in BOOLEAN
         /\ p.run \in BOOLEAN
BY DEF Password

LEMMA Penalties ==
  ASSUME NEW lengths, NEW has, NEW p \in Password(lengths, has)
  PROVE  Penalty(p) \in {0, 5, 10}
<1>1. (IF p.triple THEN 5 ELSE 0) \in {0, 5} /\ (IF p.run THEN 5 ELSE 0) \in {0, 5}
  OBVIOUS
<1>2. QED
  BY <1>1 DEF Penalty

\* Sixteen characters and four classes outweigh every penalty: 98 less 10, or
\* less 15 when a character also stands next to itself.
LEMMA FullStrength ==
  ASSUME NEW n \in 16 .. 128, NEW p \in Password({n}, {Classes}) PROVE Level(p) = 4
<1>1. p.length = n /\ p.has = Classes /\ Penalty(p) \in {0, 5, 10}
  BY Shapes, Penalties
<1>2. LengthScore(p.length) = 30
  BY <1>1 DEF LengthScore
<1>3. Types(p.has) = 4 /\ CharsetSize(p.has) = 94
  BY <1>1 DEF Types, CharsetSize, Weigh, Classes
<1>4. Log2(94) = 6554
  BY DEF Log2
<1>5. n * 6554 >= 104864
  OBVIOUS
<1>6. (n * 6554) \div 4000 > 25
  BY <1>5
<1>7. EntropyScore(p.length, p.has) = 25
  BY <1>1, <1>3, <1>4, <1>6 DEF EntropyScore
<1>8. (IF p.pair THEN 0 ELSE 5) \in {0, 5}
  OBVIOUS
<1>9. Bonus(p) \in {10, 15}
  BY <1>1, <1>3, <1>8 DEF Bonus
<1>10. PICK s \in Int : s = Strength(p) /\ s >= 80
  BY <1>1, <1>2, <1>3, <1>7, <1>9 DEF Strength
<1>11. QED
  BY <1>10 DEF Level

\* With a single class, digits, sixteen characters still score 13 for their
\* entropy: 40 with every penalty.
LEMMA LeastStrength == ASSUME NEW p \in Temporary PROVE Level(p) >= 2
<1>1. /\ p.length = 16 /\ p.has \in (SUBSET Classes) \ {{}} /\ Penalty(p) \in {0, 5, 10}
  BY Shapes, Penalties DEF Temporary
<1>2. LengthScore(p.length) = 30
  BY <1>1 DEF LengthScore
<1>3. Types(p.has) \in 1 .. 4 /\ CharsetSize(p.has) \in {10, 26, 32, 36, 42, 52, 58, 62, 68, 84, 94}
  <2>1. \E c \in Classes : c \in p.has
    BY <1>1
  <2>2. QED
    BY <2>1 DEF Types, CharsetSize, Weigh, Classes
<1>4. Log2(CharsetSize(p.has)) \in {3321, 4700, 5000, 5169, 5392, 5700, 5857, 5954, 6087, 6392, 6554}
  BY <1>3 DEF Log2
<1>5. EntropyScore(p.length, p.has) \in 13 .. 25
  <2>1. \A l \in {3321, 4700, 5000, 5169, 5392, 5700, 5857, 5954, 6087, 6392, 6554} :
          (16 * l) \div 4000 \in 13 .. 26
    OBVIOUS
  <2>2. (p.length * Log2(CharsetSize(p.has))) \div 4000 \in 13 .. 26
    BY <1>1, <1>4, <2>1
  <2>3. QED
    BY <2>2 DEF EntropyScore
<1>6. Bonus(p) \in {0, 5, 10, 15}
  <2>1. (IF p.pair THEN 0 ELSE 5) \in {0, 5}
    OBVIOUS
  <2>2. (IF p.length >= 12 /\ Types(p.has) >= 3 THEN 5 ELSE 0) \in {0, 5}
    OBVIOUS
  <2>3. (IF p.length >= 16 /\ Types(p.has) >= 4 THEN 5 ELSE 0) \in {0, 5}
    OBVIOUS
  <2>4. QED
    BY <2>1, <2>2, <2>3 DEF Bonus
<1>7. PICK s \in Int : s = Strength(p) /\ s >= 40
  BY <1>1, <1>2, <1>3, <1>5, <1>6 DEF Strength
<1>8. QED
  BY <1>7 DEF Level

LEMMA PasswordStep == ASSUME GeneratedStrong, PasswordNext PROVE GeneratedStrong'
<1>1. CASE GiveTemporary
  <2>1. PICK out \in Temporary :
          answer' = [way |-> "temporary", asked |-> Classes, plain |-> TRUE, out |-> out]
    BY <1>1 DEF GiveTemporary
  <2>2. Level(out) >= 2
    BY LeastStrength
  <2>3. answer'.way = "temporary" /\ answer'.out = out
    BY <2>1
  <2>4. QED
    BY <2>2, <2>3 DEF GeneratedStrong
<1>2. CASE RotationPassword
  <2>1. PICK out \in Generated(20, Classes, FALSE, FALSE) :
          answer' = [way |-> "rotation", asked |-> Classes, plain |-> TRUE, out |-> out]
    BY <1>2 DEF RotationPassword
  <2>2. out \in Password({20}, {Classes})
    BY DEF Generated, Struck, Password, Classes
  <2>3. Level(out) = 4
    <3>1. 20 \in 16 .. 128
      OBVIOUS
    <3>2. QED
      BY <2>2, <3>1, FullStrength
  <2>4. answer'.way = "rotation" /\ answer'.out = out
    BY <2>1
  <2>5. QED
    BY <2>3, <2>4 DEF GeneratedStrong
<1>3. ASSUME NEW length \in Lengths, NEW asked \in SUBSET Classes, NEW similar \in BOOLEAN,
             NEW ambiguous \in BOOLEAN, Generate(length, asked, similar, ambiguous)
      PROVE  GeneratedStrong'
  <2>1. PICK out \in Generated(length, asked, similar, ambiguous) :
          answer' = [way |-> "generated", asked |-> asked, plain |-> ~similar /\ ~ambiguous, out |-> out]
    BY <1>3 DEF Generate
  <2>2. answer'.way = "generated" /\ answer'.asked = asked /\ answer'.out = out
    BY <2>1
  <2>3. CASE similar \/ ambiguous
    <3>1. ~answer'.plain
      BY <2>1, <2>3
    <3>2. QED
      BY <2>2, <3>1 DEF GeneratedStrong
  <2>4. CASE ~similar /\ ~ambiguous
    <3>1. out \in Password({length}, {asked})
      BY <2>4 DEF Generated, Struck, Password
    <3>2. out.has = asked /\ out.length = length
      BY <3>1, Shapes
    <3>3. ASSUME asked = Classes, length >= 16 PROVE Level(out) = 4
      <4>1. length \in 16 .. 128
        BY <3>3, LengthsAssumption
      <4>2. QED
        BY <3>1, <3>3, <4>1, FullStrength
    <3>4. QED
      BY <2>2, <3>2, <3>3 DEF GeneratedStrong
  <2>5. QED
    BY <2>3, <2>4
<1>4. QED
  <2>1. \A more \in SUBSET {"upper", "digit", "special"} : more \cup {"lower"} \in SUBSET Classes
    BY DEF Classes
  <2>2. QED
    BY <1>1, <1>2, <1>3, <2>1 DEF PasswordNext

-----------------------------------------------------------------------------

Inv == VaultInv /\ RiskInv /\ ReaderInv /\ StatsInv /\ MailInv /\ GeneratedStrong

LEMMA InitInv == Init => Inv
<1> SUFFICES ASSUME Init PROVE Inv
  OBVIOUS
<1>1. RiskInv
  BY NoWriterOnes DEF Init, TrailInit, RiskInv
<1>2. GeneratedStrong
  BY DEF Init, GeneratedStrong, Nothing
<1>3. QED
  BY <1>1, <1>2, RotationInitInv, ReaderInitInv, StatsInitInv, MailInitInv DEF Init, Inv

LEMMA NextVaultInv == ASSUME VaultInv, [Next]_vars PROVE VaultInv'
<1>1. [RotationNext]_vault
  BY DEF Next, vars
<1>2. QED
  BY <1>1, RotationNextInv

LEMMA NextRiskInv == ASSUME RiskInv, [Next]_vars PROVE RiskInv'
<1>1. CASE UNCHANGED writing
  BY <1>1 DEF writing, RiskInv
<1>2. CASE Events
  BY <1>2, AttemptInv, EventInv, LogEventInv, CommitEventInv, UndoEventInv DEF Events
<1>3. Reads \/ Statistics => UNCHANGED writing
  BY DEF Reads, Ask, CountRows, SelectPage, Statistics, StartStats, TrendQuery, DistributionQuery
<1>4. UNCHANGED vars \/ UNCHANGED trail => UNCHANGED writing
  BY DEF vars, trail, writing
<1>5. QED
  BY <1>1, <1>2, <1>3, <1>4 DEF Next

LEMMA NextAuditInv ==
  ASSUME RiskInv, RiskInv', ReaderInv, StatsInv, [Next]_vars PROVE ReaderInv' /\ StatsInv'
<1>1. CASE UNCHANGED trail
  BY <1>1, ReaderGrown, StatsGrown DEF trail, Grown
<1>2. CASE Events
  BY <1>2, WritersAdd, ReaderGrown, StatsGrown
<1>3. CASE Reads
  <2>1. ReaderInv'
    BY <1>3, AskInv, CountRowsInv, SelectPageInv DEF Reads
  <2>2. UNCHANGED <<rows, shown>> /\ stats' = stats
    BY <1>3 DEF Reads, Ask, CountRows, SelectPage, writing
  <2>3. First' = First
    BY <2>2 DEF First
  <2>4. StatsInv'
    BY <2>2, <2>3 DEF StatsInv, TrendsCovered
  <2>5. QED
    BY <2>1, <2>4
<1>4. CASE Statistics
  <2>1. StatsInv'
    BY <1>4, StartStatsInv, TrendQueryInv, DistributionQueryInv DEF Statistics
  <2>2. UNCHANGED <<rows, shown>> /\ reader' = reader
    BY <1>4 DEF Statistics, StartStats, TrendQuery, DistributionQuery, writing
  <2>3. Size' = Size /\ \A n : Newer(n)' = Newer(n) /\ (Match(n)' <=> Match(n))
    BY <2>2 DEF Size, Newer, Match
  <2>4. ReaderInv'
    BY <2>2, <2>3 DEF ReaderInv, ListComplete, NewestOnly
  <2>5. QED
    BY <2>1, <2>4
<1>5. QED
  BY <1>1, <1>2, <1>3, <1>4 DEF Next, vars

LEMMA NextMailInv == ASSUME MailInv, [Next]_vars PROVE MailInv'
<1>1. [MailNext]_mail
  BY DEF Next, vars
<1>2. QED
  BY <1>1, MailNextInv

LEMMA NextPasswords == ASSUME GeneratedStrong, [Next]_vars PROVE GeneratedStrong'
<1>1. CASE answer' = answer
  BY <1>1 DEF GeneratedStrong
<1>2. QED
  BY <1>1, PasswordStep DEF Next, vars

LEMMA Invariant == FairSpec => []Inv
<1>1. Init => Inv
  BY InitInv
<1>2. Inv /\ [Next]_vars => Inv'
  <2> SUFFICES ASSUME Inv, [Next]_vars PROVE Inv'
    OBVIOUS
  <2>1. RiskInv'
    BY NextRiskInv DEF Inv
  <2>2. QED
    BY <2>1, NextVaultInv, NextAuditInv, NextMailInv, NextPasswords DEF Inv
<1>3. QED
  BY <1>1, <1>2, PTL DEF FairSpec

\* A stored password is changed within its interval and a day, and a day for
\* every run that failed or was missed (password_rotation.py).
THEOREM RotationTheorem == FairSpec => []RotatedInTime
<1>1. Inv => RotatedInTime
  BY InvRotated DEF Inv
<1>2. QED
  BY <1>1, Invariant, PTL

\* The alarm of process_anomaly never goes off: no login's risk is above 65,
\* whatever logins, addresses, browsers and hours there are, because a wrong
\* password leaves no row and a right one no user_agent (auth.py:121, :165).
THEOREM RiskTheorem == FairSpec => [](\A w \in Writer : writer[w].risk <= 65)
<1> DEFINE Low == \A w \in Writer : writer[w].risk <= 65
<1>1. Inv => Low
  <2> SUFFICES ASSUME RiskInv, NEW w \in Writer PROVE writer[w].risk <= 65
    BY DEF Inv
  <2>1. writer[w].risk \in Bearable
    BY DEF RiskInv, Writing
  <2>2. QED
    BY <2>1 DEF Bearable
<1> HIDE DEF Low
<1>2. FairSpec => []Low
  BY <1>1, Invariant, PTL
<1>3. QED
  BY <1>2 DEF Low

\* The answers of the audit API, taken in several queries while rows come in,
\* hold together (get_audit_logs, get_audit_stats), for any size of a page and
\* of an export and any period.
THEOREM AuditTheorem == FairSpec => []AuditAnswersHold
<1>1. Inv => AuditAnswersHold
  BY DEF Inv, ReaderInv, StatsInv, AuditAnswersHold
<1>2. QED
  BY <1>1, Invariant, PTL

\* Passwords are as strong as promised (password_generator.py,
\* password_validator.py), for every length the API accepts.
THEOREM PasswordTheorem == FairSpec => []GeneratedStrong
<1>1. Inv => GeneratedStrong
  BY DEF Inv
<1>2. QED
  BY <1>1, Invariant, PTL

\* A message that is neither in the queue nor being sent has ended as it
\* should, and none arrives more often than it is tried, at most max_retries
\* times and once (notification_tasks.py): what is left to MailSettles is that
\* every message ends.
THEOREM MailTheorem ==
  FairSpec => [](\A m \in Message :
                   /\ mail[m].at \in {"none", "queued", "sending"} \/ Settled(m)
                   /\ mail[m].copies <= mail[m].tries /\ mail[m].tries <= MaxRetries + 1)
<1> DEFINE Ended == \A m \in Message :
                      /\ mail[m].at \in {"none", "queued", "sending"} \/ Settled(m)
                      /\ mail[m].copies <= mail[m].tries /\ mail[m].tries <= MaxRetries + 1
<1>1. Inv => Ended
  <2> SUFFICES ASSUME MailInv, NEW m \in Message
               PROVE  /\ mail[m].at \in {"none", "queued", "sending"} \/ Settled(m)
                      /\ mail[m].copies <= mail[m].tries /\ mail[m].tries <= MaxRetries + 1
    BY DEF Inv
  <2>1. mail[m] \in Letter /\ Posted(mail[m])
    BY DEF MailInv
  <2>2. mail[m].copies <= mail[m].tries /\ mail[m].tries <= MaxRetries + 1
    BY <2>1, RetriesOnes DEF Letter, Posted
  <2>3. mail[m].at = "done" => mail[m].copies \in 1 .. MaxRetries + 1
    BY <2>1, <2>2, RetriesOnes DEF Letter, Posted
  <2>4. QED
    BY <2>1, <2>2, <2>3 DEF Letter, MailPlaces, Posted, Settled
<1> HIDE DEF Ended
<1>2. FairSpec => []Ended
  BY <1>1, Invariant, PTL
<1>3. QED
  BY <1>2 DEF Ended
=============================================================================
