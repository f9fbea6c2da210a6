------------------------------ MODULE MailQueue ------------------------------
(***************************************************************************)
(* The messages the backend hands to Celery, and the worker that sends     *)
(* them and sends them again (backend/app/tasks/notification_tasks.py).    *)
(* Celery's default acknowledges a task when a worker takes it.            *)
(***************************************************************************)
EXTENDS Integers

CONSTANTS
  Message,
  EmailEnabled,  \* settings.EMAIL_ENABLED
  MaxRetries     \* max_retries of both tasks

ASSUME MailAssumption == EmailEnabled \in BOOLEAN /\ MaxRetries \in Nat

VARIABLE mail  \* the messages: their kind, where they are, attempts, copies that arrived

Unposted == [kind |-> "none", at |-> "none", tries |-> 0, copies |-> 0]

MailInit == mail = [m \in Message |-> Unposted]

\* send_email_notification.delay, send_sms_via_smsc.delay.
Post(m, kind) ==
  /\ mail[m] = Unposted
  /\ mail' = [mail EXCEPT ![m].kind = kind, ![m].at = "queued"]

Take(m) ==
  /\ mail[m].at = "queued"
  /\ mail' = IF mail[m].kind = "email" /\ ~EmailEnabled
             THEN [mail EXCEPT ![m].at = "disabled"]
             ELSE [mail EXCEPT ![m].at = "sending", ![m].tries = @ + 1]

Sent(m) ==
  /\ mail[m].at = "sending"
  /\ mail' = [mail EXCEPT ![m].at = "done", ![m].copies = @ + 1]

\* Faulty variant: one attempt less.
RetryShort(m) ==
  /\ mail[m].at = "sending"
  /\ \E copy \in {0, 1} :
       mail' = [mail EXCEPT ![m].at = IF mail[m].tries < MaxRetries THEN "queued" ELSE "abandoned",
                            ![m].copies = @ + copy]

\* An error of the server or the network (SMTPException, OSError, HTTPError),
\* before the message was accepted or after; self.retry.
Retry(m) ==
  /\ mail[m].at = "sending"
  /\ \E copy \in {0, 1} :
       mail' = [mail EXCEPT ![m].at = IF mail[m].tries <= MaxRetries THEN "queued" ELSE "abandoned",
                            ![m].copies = @ + copy]

\* Any other exception ends the task at this attempt: a mail that cannot be
\* encoded was not sent, an answer of SMSC that is no JSON comes after it took
\* the message or not.
Raise(m) ==
  /\ mail[m].at = "sending"
  /\ \E copy \in {0, 1} :
       /\ copy = 1 => mail[m].kind = "sms"
       /\ mail' = [mail EXCEPT ![m].at = "failed", ![m].copies = @ + copy]

\* SMSC's own error answer is final.
SmsRefused(m) ==
  /\ mail[m].at = "sending" /\ mail[m].kind = "sms"
  /\ mail' = [mail EXCEPT ![m].at = "refused"]

WorkerDies(m) ==
  /\ mail[m].at = "sending"
  /\ mail' = [mail EXCEPT ![m].at = "lost"]

Worker(m) == Take(m) \/ Sent(m) \/ Retry(m) \/ Raise(m) \/ SmsRefused(m) \/ WorkerDies(m)

MailNext == \E m \in Message : Worker(m) \/ \E kind \in {"email", "sms"} : Post(m, kind)

-----------------------------------------------------------------------------

\* A message that has been posted arrives, unless mail is switched off, every
\* one of MaxRetries + 1 attempts met an error of the server or the network, an
\* attempt met any other exception, SMSC refused the message, or the worker
\* that had it died; and no message arrives more often than it was tried
\* (send_email_notification, send_sms_via_smsc).
Settled(m) ==
  /\ mail[m].copies <= mail[m].tries
  /\ \/ mail[m].at = "done" /\ mail[m].copies \in 1 .. MaxRetries + 1
     \/ mail[m].at = "abandoned" /\ mail[m].tries = MaxRetries + 1
     \/ mail[m].at = "disabled" /\ ~EmailEnabled
     \/ mail[m].at = "refused" /\ mail[m].kind = "sms"
     \/ mail[m].at \in {"failed", "lost"}
MailSettles == \A m \in Message : mail[m].at = "queued" ~> Settled(m)
=============================================================================
