---------------------------- MODULE VaultRotation ----------------------------
(***************************************************************************)
(* The nightly change of the stored passwords of legacy applications       *)
(* (backend/app/tasks/password_rotation.py, celery_app.py,                 *)
(* services/vault_service.py): one transaction over all credentials that   *)
(* are due, by the age each had when the job looked at the clock.          *)
(*                                                                         *)
(* Time is counted in ticks; the clock starts the job at tick 0 of a day.  *)
(***************************************************************************)
EXTENDS Integers, FiniteSets

CONSTANTS
  Credential,
  Interval,    \* rotation_interval_days by credential, 0 for none
  Day,         \* ticks of a day
  StartSlack,  \* the job starts this late at most
  RunTime,     \* ticks a run takes at most
  MaxFailures  \* bound on the runs that fail or are missed

ASSUME RotationAssumption ==
  /\ Interval \in [Credential -> Nat]
  /\ {StartSlack, RunTime, MaxFailures} \subseteq Nat
  /\ Day \in Nat /\ StartSlack + RunTime < Day

VARIABLES
  clock,    \* ticks since the day's 3:00
  there,    \* whether a credential is yet to be stored, is stored, or was deleted
  age,      \* ticks since last_rotated_at, or since created_at
  run,      \* the day's run
  failures, \* runs that failed or were missed
  missed    \* history: those of them since the credential was last changed

vault == <<clock, there, age, run, failures, missed>>

Stored == {c \in Credential : there[c] = "stored"}
\* since: for the credentials changed and not yet committed, the ticks since
NoRun == [at |-> "waiting", todo |-> {}, since |-> << >>, spent |-> 0]

RotationInit ==
  /\ clock = 0 /\ there = [c \in Credential |-> "new"] /\ age = [c \in Credential |-> 0]
  /\ run = NoRun /\ failures = 0 /\ missed = [c \in Credential |-> 0]

\* store_credential, and the end of the credential with its application.  A
\* row the run has updated is locked.
StoreCredential(c) ==
  /\ there[c] = "new" /\ there' = [there EXCEPT ![c] = "stored"]
  /\ UNCHANGED <<clock, age, run, failures, missed>>

DropCredential(c) ==
  /\ there[c] = "stored" /\ c \notin DOMAIN run.since
  /\ there' = [there EXCEPT ![c] = "gone"] /\ age' = [age EXCEPT ![c] = 0]
  /\ missed' = [missed EXCEPT ![c] = 0]
  /\ UNCHANGED <<clock, run, failures>>

TimePasses ==
  /\ ~(run.at = "waiting" /\ clock = StartSlack)
  /\ ~(run.at = "running" /\ run.spent = RunTime)
  /\ clock' = (clock + 1) % Day
  /\ age' = [c \in Credential |-> IF c \in Stored /\ Interval[c] > 0 THEN age[c] + 1 ELSE 0]
  /\ run' = IF clock' = 0 THEN NoRun
            ELSE [run EXCEPT !.since = [c \in DOMAIN run.since |-> run.since[c] + 1],
                             !.spent = IF run.at = "running" THEN @ + 1 ELSE 0]
  /\ UNCHANGED <<there, failures, missed>>

\* Faulty variant: the day a credential reaches its interval is not yet enough.
DueAfter == {c \in Stored : Interval[c] > 0 /\ age[c] \div Day > Interval[c]}

\* days_since, in whole days.
Due == {c \in Stored : Interval[c] > 0 /\ age[c] \div Day >= Interval[c]}

StartRun ==
  /\ run.at = "waiting" /\ clock <= StartSlack
  /\ run' = [run EXCEPT !.at = "running", !.todo = Due]
  /\ UNCHANGED <<clock, there, age, failures, missed>>

\* update_credential_password
Rotate(c) ==
  /\ run.at = "running" /\ c \in run.todo \cap Stored
  /\ run' = [run EXCEPT !.todo = @ \ {c},
                        !.since = [d \in DOMAIN @ \cup {c} |-> IF d = c THEN 0 ELSE @[d]]]
  /\ UNCHANGED <<clock, there, age, failures, missed>>

CommitRun ==
  /\ run.at = "running" /\ run.todo = {}
  /\ age' = [c \in Credential |-> IF c \in DOMAIN run.since THEN run.since[c] ELSE age[c]]
  /\ missed' = [c \in Credential |-> IF c \in DOMAIN run.since THEN 0 ELSE missed[c]]
  /\ run' = [NoRun EXCEPT !.at = "over"]
  /\ UNCHANGED <<clock, there, failures>>

\* Nobody runs the job today, an exception rolls all of it back, or a
\* credential it had loaded is gone.
FailRun ==
  /\ run.at \in {"waiting", "running"}
  /\ failures < MaxFailures \/ run.todo \ Stored # {}
  /\ failures' = IF run.todo \subseteq Stored THEN failures + 1 ELSE failures
  /\ missed' = [c \in Credential |-> IF c \in Stored THEN missed[c] + 1 ELSE 0]
  /\ run' = [NoRun EXCEPT !.at = "over"]
  /\ UNCHANGED <<clock, there, age>>

RotationNext ==
  \/ TimePasses \/ StartRun \/ CommitRun \/ FailRun
  \/ \E c \in Credential : StoreCredential(c) \/ DropCredential(c) \/ Rotate(c)

-----------------------------------------------------------------------------

\* A stored password is changed within its interval and one day, and a day
\* more for every run since that failed or was missed: one credential that
\* disappears under a run undoes the night's work for all.  It takes the
\* extra day because last_rotated_at is later than the start of its run, so
\* that on the day itself the age is short of a whole day.
RotatedInTime ==
  \A c \in Stored :
    age[c] <= (Interval[c] + 1 + missed[c]) * Day + StartSlack + RunTime
=============================================================================
