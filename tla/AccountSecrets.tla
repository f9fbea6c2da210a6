---------------------------- MODULE AccountSecrets ----------------------------
(***************************************************************************)
(* How an account's secrets change: the password, by its owner, by an      *)
(* administrator and by the link in a mail (backend/app/api/v1/users.py,   *)
(* auth.py, services/auth_service.py, user_service.py); and the second     *)
(* factor, in two steps over Redis (services/mfa_service.py).              *)
(*                                                                         *)
(* password, on and secret are columns of the users table; links and       *)
(* pending are Redis; outbox is what was handed to Celery, whose queue is  *)
(* MailQueue.  SQLAlchemy updates the columns a handler has changed, under *)
(* the row's lock from the flush to the commit.                            *)
(***************************************************************************)
EXTENDS Integers, FiniteSets

CONSTANTS
  User, Link, Secret, Req,
  None,
  MfaRequired,  \* settings.MFA_REQUIRED
  MaxEdits      \* bound on the password changes and administrative requests

ASSUME SecretsAssumption ==
  /\ None \notin User \cup Link \cup Secret /\ Link \cap Secret = {}
  /\ MfaRequired \in BOOLEAN /\ MaxEdits \in Nat

VARIABLES
  password,  \* by what the password in force was set
  on,        \* mfa_enabled
  secret,    \* mfa_secret
  links,     \* the reset links in Redis
  pending,   \* the secrets being enrolled, in Redis
  req,       \* the requests in flight
  outbox,    \* the mails handed to Celery: what about, and the link
  edits,     \* requests counted against MaxEdits
  told,      \* history: the links and secrets shown to a user
  changed,   \* history: the links that have set a password
  broken,    \* history: the links that have expired, or whose use failed
  crossed,   \* history: the secrets being confirmed when MFA was switched off
  forced     \* history: users whose switch an administrator moved last

users == <<password, on, secret>>
redis == <<links, pending>>
past == <<told, changed, broken, crossed, forced>>
vars == <<users, redis, req, outbox, edits, past>>

Ways == {"first", "link", "own", "temp"}
Request ==
  [op : {"none", "forgot", "reset", "own", "temp", "confirm", "disable", "switch on", "switch off"},
   at : {"idle", "store", "post", "get", "del", "pending", "unpend", "flush", "mail", "commit"},
   who : User \cup {None}, key : Link \cup Secret \cup {None}, had : BOOLEAN, late : BOOLEAN]
Idle == [op |-> "none", at |-> "idle", who |-> None, key |-> None, had |-> FALSE, late |-> FALSE]

Goto(r, at) == req' = [req EXCEPT ![r].at = at]
Answer(r) == req' = [req EXCEPT ![r] = Idle]
Come(r, request) == req[r] = Idle /\ req' = [req EXCEPT ![r] = request]

-----------------------------------------------------------------------------
(* The reset link.                                                          *)

Forgot(r, u) ==
  /\ Come(r, [Idle EXCEPT !.op = "forgot", !.at = "store", !.who = u])
  /\ UNCHANGED <<users, redis, outbox, edits, past>>

\* request_password_reset: SETEX under a token nobody has seen.  An older
\* link stays good.
StoreLink(r, l) ==
  /\ req[r].at = "store" /\ l \notin DOMAIN told
  /\ links' = [links EXCEPT ![l] = req[r].who]
  /\ told' = [k \in DOMAIN told \cup {l} |-> IF k = l THEN req[r].who ELSE told[k]]
  /\ req' = [req EXCEPT ![r].at = "post", ![r].key = l]
  /\ UNCHANGED <<users, pending, outbox, edits, changed, broken, crossed, forced>>

MailLink(r) ==
  /\ req[r].at = "post"
  /\ outbox' = outbox \cup {<<"asked", req[r].key>>}
  /\ Answer(r)
  /\ UNCHANGED <<users, redis, edits, past>>

UseLink(r, l) ==
  /\ l \in DOMAIN told
  /\ Come(r, [Idle EXCEPT !.op = "reset", !.at = "get", !.key = l, !.late = l \in changed])
  /\ UNCHANGED <<users, redis, outbox, edits, past>>

\* Faulty variant: the key is taken for the value.
ReadLinkKey(r) ==
  LET u == links[req[r].key] IN
  /\ req[r].at = "get"
  /\ IF u = None THEN Answer(r)
     ELSE req' = [req EXCEPT ![r].at = "del", ![r].who = req[r].key]
  /\ UNCHANGED <<users, redis, outbox, edits, past>>

ReadLink(r) ==
  LET u == links[req[r].key] IN
  /\ req[r].at = "get"
  /\ IF u = None THEN Answer(r)
     ELSE req' = [req EXCEPT ![r].at = "del", ![r].who = u]
  /\ UNCHANGED <<users, redis, outbox, edits, past>>

\* Faulty variant: the link is left to expire.
KeepLink(r) ==
  /\ req[r].at = "del"
  /\ Goto(r, "flush")
  /\ UNCHANGED <<users, redis, outbox, edits, past>>

DeleteLink(r) ==
  /\ req[r].at = "del"
  /\ links' = [links EXCEPT ![req[r].key] = None]
  /\ Goto(r, "flush")
  /\ UNCHANGED <<users, pending, outbox, edits, past>>

\* The mail is queued while the change is flushed and not committed.
MailChange(r) ==
  /\ req[r].at = "mail"
  /\ outbox' = outbox \cup {<<"changed", req[r].key>>}
  /\ Goto(r, "commit")
  /\ UNCHANGED <<users, redis, edits, past>>

-----------------------------------------------------------------------------
(* Other requests of the owner and of an administrator.                     *)

\* change_my_password compares with the hash loaded for the request.
ChangePassword(r, u, old) ==
  /\ old = password[u] /\ edits < MaxEdits /\ edits' = edits + 1
  /\ Come(r, [Idle EXCEPT !.op = "own", !.at = "flush", !.who = u])
  /\ UNCHANGED <<users, redis, outbox, past>>

\* reset_user_password sets a generated one and answers it.
GiveTemporary(r, u) ==
  /\ edits < MaxEdits /\ edits' = edits + 1
  /\ Come(r, [Idle EXCEPT !.op = "temp", !.at = "flush", !.who = u])
  /\ UNCHANGED <<users, redis, outbox, past>>

\* update_existing_user may carry mfa_enabled, and leaves the secret alone.
\* The value the row already has is no update.
SwitchFactor(r, u, op) ==
  /\ edits < MaxEdits /\ edits' = edits + 1
  /\ on[u] = (op = "switch off")
  /\ Come(r, [Idle EXCEPT !.op = op, !.at = "flush", !.who = u])
  /\ UNCHANGED <<users, redis, outbox, past>>

\* begin_totp_setup, whether or not a second factor is on.
Setup(u, s) ==
  /\ s \notin DOMAIN told
  /\ pending' = [pending EXCEPT ![u] = s]
  /\ told' = [k \in DOMAIN told \cup {s} |-> IF k = s THEN u ELSE told[k]]
  /\ UNCHANGED <<users, links, req, outbox, edits, changed, broken, crossed, forced>>

\* confirm_mfa with a code of s, which the user's authenticator has.
ConfirmSetup(r, u, s) ==
  /\ s \in DOMAIN told /\ told[s] = u
  /\ Come(r, [Idle EXCEPT !.op = "confirm", !.at = "pending", !.who = u, !.key = s,
                          !.had = on[u]])
  /\ UNCHANGED <<users, redis, outbox, edits, past>>

ReadPending(r) ==
  /\ req[r].at = "pending"
  /\ IF pending[req[r].who] = req[r].key THEN Goto(r, "unpend") ELSE Answer(r)
  /\ UNCHANGED <<users, redis, outbox, edits, past>>

\* Whatever is pending by now is deleted.
DeletePending(r) ==
  /\ req[r].at = "unpend"
  /\ pending' = [pending EXCEPT ![req[r].who] = None]
  /\ Goto(r, "flush")
  /\ UNCHANGED <<users, links, outbox, edits, past>>

\* disable_mfa with a code of the secret in force.  The setting is looked at last.
DisableFactor(r, u) ==
  /\ on[u] /\ secret[u] # None /\ ~MfaRequired
  /\ Come(r, [Idle EXCEPT !.op = "disable", !.at = "flush", !.who = u])
  /\ UNCHANGED <<users, redis, outbox, edits, past>>

-----------------------------------------------------------------------------
(* The row: flush, commit, failure.                                         *)

RowFree(u) == \A q \in Req : req[q].who = u => req[q].at \notin {"mail", "commit"}

\* Faulty variant: a reset commits before it queues its mail.
FlushSilent(r) ==
  /\ req[r].at = "flush" /\ RowFree(req[r].who)
  /\ Goto(r, "commit")
  /\ UNCHANGED <<users, redis, outbox, edits, past>>

Flush(r) ==
  /\ req[r].at = "flush" /\ RowFree(req[r].who)
  /\ Goto(r, IF req[r].op = "reset" THEN "mail" ELSE "commit")
  /\ UNCHANGED <<users, redis, outbox, edits, past>>

\* Faulty variant: a confirmation writes mfa_secret and leaves mfa_enabled.
SwitchedForgetful(q, u) ==
  CASE q.op \in {"disable", "switch off"} -> FALSE
    [] q.op = "switch on" -> TRUE
    [] OTHER -> on[u]

\* The value of mfa_enabled after a commit.  One that was TRUE when it was
\* loaded is not among the columns a confirmation changes.
Switched(q, u) ==
  CASE q.op = "switch on" \/ (q.op = "confirm" /\ ~q.had) -> TRUE
    [] q.op \in {"disable", "switch off"} -> FALSE
    [] OTHER -> on[u]

Confirming(u) ==
  {req[p].key : p \in {p \in Req : req[p].op = "confirm" /\ req[p].who = u /\ req[p].had}}

Commit(r) ==
  LET q == req[r] u == req[r].who IN
  /\ q.at = "commit"
  /\ on' = [on EXCEPT ![u] = Switched(q, u)]
  /\ secret' = [secret EXCEPT ![u] = CASE q.op = "confirm" -> q.key
                                       [] q.op = "disable" -> None
                                       [] OTHER -> @]
  /\ password' = [password EXCEPT ![u] = CASE q.op = "reset" -> "link"
                                           [] q.op \in {"own", "temp"} -> q.op
                                           [] OTHER -> @]
  /\ changed' = IF q.op = "reset" THEN changed \cup {q.key} ELSE changed
  /\ crossed' = IF q.op \in {"disable", "switch off"} THEN crossed \cup Confirming(u) ELSE crossed
  /\ forced' = CASE q.op \in {"switch on", "switch off"} -> forced \cup {u}
                 [] q.op \in {"confirm", "disable"} -> forced \ {u}
                 [] OTHER -> forced
  /\ Answer(r)
  /\ UNCHANGED <<redis, outbox, edits, told, broken>>

\* The database or the process fails: a flush is rolled back, Redis and the
\* queue keep what they were told.
Fail(r) ==
  /\ req[r].at # "idle"
  /\ Answer(r)
  /\ broken' = IF req[r].op = "reset" THEN broken \cup {req[r].key} ELSE broken
  /\ UNCHANGED <<users, redis, outbox, edits, told, changed, crossed, forced>>

LinkExpires(l) ==
  /\ links[l] # None
  /\ links' = [links EXCEPT ![l] = None]
  /\ broken' = broken \cup {l}
  /\ UNCHANGED <<users, pending, req, outbox, edits, told, changed, crossed, forced>>

PendingExpires(u) ==
  /\ pending[u] # None
  /\ pending' = [pending EXCEPT ![u] = None]
  /\ UNCHANGED <<users, links, req, outbox, edits, past>>

-----------------------------------------------------------------------------

Init ==
  /\ password = [u \in User |-> "first"] /\ on = [u \in User |-> FALSE]
  /\ secret = [u \in User |-> None]
  /\ links = [l \in Link |-> None] /\ pending = [u \in User |-> None]
  /\ req = [r \in Req |-> Idle] /\ outbox = {} /\ edits = 0
  /\ told = << >> /\ changed = {} /\ broken = {} /\ crossed = {} /\ forced = {}

Step(r) ==
  \/ \E l \in Link : StoreLink(r, l)
  \/ MailLink(r) \/ MailChange(r) \/ ReadLink(r) \/ DeleteLink(r)
  \/ ReadPending(r) \/ DeletePending(r) \/ Flush(r) \/ Commit(r)

Next ==
  \/ \E r \in Req :
       \/ \E u \in User :
            \/ Forgot(r, u) \/ GiveTemporary(r, u) \/ DisableFactor(r, u)
            \/ \E old \in Ways : ChangePassword(r, u, old)
            \/ \E op \in {"switch on", "switch off"} : SwitchFactor(r, u, op)
            \/ \E s \in Secret : ConfirmSetup(r, u, s)
       \/ \E l \in Link : UseLink(r, l)
       \/ Step(r) \/ Fail(r)
  \/ \E u \in User :
       \/ \E s \in Secret : Setup(u, s)
       \/ PendingExpires(u)
  \/ \E l \in Link : LinkExpires(l)

Spec == Init /\ [][Next]_vars

-----------------------------------------------------------------------------

TypeOK ==
  /\ password \in [User -> Ways] /\ on \in [User -> BOOLEAN]
  /\ secret \in [User -> Secret \cup {None}] /\ pending \in [User -> Secret \cup {None}]
  /\ links \in [Link -> User \cup {None}]
  /\ req \in [Req -> Request]
  /\ outbox \subseteq {"asked", "changed"} \X Link
  /\ edits \in 0 .. MaxEdits
  /\ changed \cup broken \subseteq Link /\ crossed \subseteq Secret /\ forced \subseteq User

\* A link keeps its word (reset_password, auth_service.py:195): it is gone
\* only after it has set the password, while it is in use, when it has
\* expired, or when a use of it failed, with or without the new password; and
\* a use that comes after the password was set does not set it again.
LinkKeepsItsWord ==
  /\ \A l \in Link \cap DOMAIN told :
       links[l] = None => \/ l \in changed \cup broken
                          \/ \E r \in Req : req[r].op = "reset" /\ req[r].key = l
  /\ \A r \in Req : req[r].late => req[r].at = "get"

\* Every password set by a link is announced: the mail is queued before the
\* commit that could fail (auth.py:301-306).
ChangeAnnounced == \A l \in changed : <<"changed", l>> \in outbox

\* The second factor is whole: it is on exactly when there is a secret, whose
\* code the owner has shown (confirm_mfa, disable_mfa), unless an
\* administrator was the last to move the switch.  The one other exception is
\* a secret that was being confirmed while the factor was switched off: it is
\* stored, and mfa_enabled stays off.
FactorWhole ==
  \A u \in User \ forced :
    /\ on[u] => secret[u] # None
    /\ secret[u] # None /\ ~on[u] => secret[u] \in crossed
=============================================================================
