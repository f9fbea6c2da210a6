# Verification of the IAM portal

TLA+ specifications of the IAM portal (`src/`), the TLC configurations that
check them on small instances, and TLAPS proofs of their main properties for
every instance. Line numbers refer to `src/backend/app/` unless a path says
otherwise.

## 1. The system and its parts

The portal is a FastAPI application (one uvicorn worker) over PostgreSQL
(SQLAlchemy, async) and Redis, with Celery for mail and nightly jobs, a Vue
client, and Electron demo applications that share a session file. Three facts
shape everything below.

* **One transaction per request.** `get_db` (`database.py:14`) commits when the
  handler returns and rolls back when it raises, an `HTTPException` included.
  Redis commands take effect at once and are never rolled back.
* **Every `await` is an interleaving point**, and PostgreSQL runs at READ
  COMMITTED. A handler decides on rows it read several awaits ago; a second
  SELECT of the same row returns the identity map's object and does not refresh
  it. Only changed columns are UPDATEd; a DELETE that matches no row is no
  error.
* **Two stores and a clock.** A login is spread over a signed token, a row and
  a Redis key, each with a lifetime of its own.

| Component | State | Operations | Talks to | Modelled by |
|---|---|---|---|---|
| Portal sessions and second factor (`api/v1/auth.py`, `services/auth_service.py`, `mfa_service.py`) | `sessions` rows, MFA challenges `mfa:*` in Redis, the user row's switches | login, verify-mfa, refresh, logout | guard, risk score, audit, mail | `PortalAuth` |
| Login rate limit and lockout (`core/rate_limit.py`, `authenticate_user`) | Redis counter per address, `failed_login_count`, `locked_until` | count, lock, reset | login handler | `LoginGuard` |
| OpenID grants (`api/v1/oidc.py`, `services/oidc_service.py`) | codes and refresh tokens with payloads in Redis | authorize, token (code, refresh), revoke | accounts, client registry | `OidcGrants` |
| OpenID access tokens (same files) | signed tokens, blocklist of `jti` in Redis | userinfo, revoke, end-session | clock | `OidcRevocation` |
| Single sign-on access and honeypots (`api/v1/sso.py`, `sso_service.py`, `honeypot_service.py`, `applications.py`) | SSO codes, applications, permission rows | authorize, check-access, verify; register, edit, delete | accounts, audit | `AccessControl` |
| Account administration (`api/v1/users.py`, `user_service.py`) | user row | create, update, block, unblock, reset-password | every other component | `AccessControl`, `AccountSecrets`, `PortalAuth` |
| Password reset link, own password, MFA enrolment (`auth_service.py`, `users.py`, `mfa_service.py`) | links and pending secrets in Redis, password and factor of the row | forgot, reset, change; setup, confirm, disable | mail | `AccountSecrets` |
| Risk score (`anomaly_service.py`) | none; reads the audit log | score, block above a threshold | login, audit log | `RiskScore`, `AuditTrail` |
| Audit log (`audit_service.py`, `api/v1/audit.py`) | rows | write, list, search, export, statistics | all handlers | `AuditTrail` |
| Password tools (`password_generator.py`, `password_validator.py`) | none, pure functions | generate, score | rotation, administration | `PasswordTools` |
| Credential rotation (`tasks/password_rotation.py`, `vault_service.py`) | stored credentials | nightly batch | generator | `VaultRotation` |
| Mail and notifications (`tasks/notification_tasks.py`, `notification_service.py`) | queued messages | post, send, retry | all handlers | `MailQueue` |
| Portal client (`src/frontend/src/api`, `stores`, `App.vue`) | its pair of tokens, one refresh in flight | login, refresh, logout, reload | portal API, shell | `DesktopSession` |
| Desktop applications (`src/demo-apps/shared`, `src/electron`) | session file, its temporary file, windows | load, save, clear, watch, evaluate | portal API | `DesktopSession` |
| Views, schemas, keys, seed, migrations, deployment | presentation, data declarations, cryptography | | | not modelled |

What makes each correct, and hard to test:

* **Sessions.** A used credential never works again; a block stops renewals; a
  password alone never opens a session while the second factor is on; a login
  has one live refresh token. All four are decided on values read before other
  requests ran.
* **Guard.** The counter is two Redis commands, the failure count is written in
  the transaction that reports the failure.
* **Grants.** A grant is used up by a GET and a DELETE; the payload is checked
  after the DELETE, the account after that.
* **Access tokens.** A blocklist key's lifetime is computed in whole seconds
  before it is sent, and compared with an expiry in whole seconds.
* **Access.** A launch is decided by a user, an application and a permission
  read one after the other; the honeypot's block is rolled back by its own 403.
* **Secrets.** A link lives in Redis and the password in a row; the factor is two
  columns, written by requests that compare with what they loaded.
* **The desktop.** Four copies of one pair of tokens (server, portal, file,
  application), each updated by another process, over requests that may be
  answered with an error, lost after they were carried out, or never answered.
* **Behind the portal.** Retries after an unknown outcome, one commit for a
  night's work, answers taken in several queries, and scores against thresholds.

`PROJECT.json` lists these hazards with their lines.

## 2. Modules

| Module | Role |
|---|---|
| `SessionChain` | abstract: a login opens a chain with one live token, refresh replaces it, logout closes it for good unless a renewal is under way |
| `SessionTable` | abstract: the sessions table as any holder of a token sees it |
| `PortalAuth` | sessions, second factor, refresh, logout and the account switches, one action per await |
| `PortalAuthProofs` | its theorems |
| `LoginGuard` | the address counter and the account's lockout, with the clock |
| `GrantBook` | abstract: grants redeemed at most once, for the same user and client |
| `OidcGrants` | codes and refresh tokens of the provider, one action per Redis or database call |
| `OidcGrantsProofs` | its theorems |
| `OidcRevocation` | access tokens, their expiry and the blocklist |
| `OidcRevocationProofs` | its theorems |
| `OidcProvider` | puts the provider's two halves together for one run |
| `AccessControl` | launches, SSO codes, honeypots, and the administration of accounts and applications |
| `AccountSecrets` | the reset link, the other changes of a password, the enrolment of the second factor |
| `DesktopSession` | portal, shell, session file and desktop applications over a server that rotates tokens and requests that may go wrong |
| `MailQueue`, `VaultRotation`, `RiskScore`, `AuditTrail`, `PasswordTools` | what works behind the portal; `AuditTrail` extends `RiskScore` |
| `BackOffice` | puts these five together for one run |
| `LoginGuardProofs`, `AccessControlProofs`, `AccountSecretsProofs`, `DesktopSessionProofs`, `BackOfficeProofs` | the theorems of the module they are named after |
| `...MC` | the symmetry sets of the TLC instances |

The modules of the server have the same shape. `req[r]` is one request in
flight: the operation, the place it is waiting at, what it has read and what it
has not committed. `Arrive` starts a request with anything a client may hold,
`Step(r)` is what the event loop does next, `Fail(r)` is an error or a lost
process at any place: the uncommitted part vanishes, what Redis was told stays.
The code's early returns are `Answer(r)`.

Definitions named as faulty variants (`RefreshReadNoRow`, `DeleteNothing`, ...)
are not part of any specification. Each is a plausible mistake in the definition
that follows it, and each property is violated when one of them is put in that
definition's place.

### PortalAuth

| TLA+ | Code |
|---|---|
| `blocked`, `mfaOn` | `users.is_blocked`; `mfa_enabled` with `mfa_secret` |
| `rows`, `expired`, `owner` | `sessions.refresh_token_hash`, the seven days, `user_id` |
| `root` | history: the token whose login a token descends from |
| `sidUser`, `sidLive` | MFA challenges and which are still in Redis |
| `spent` | history: credentials whose use was acknowledged |
| `LoginRead`, `LoginChallenge`, `OpenSession` | `login` (`auth.py:78-169`), `create_mfa_session`, `create_tokens_for_user` |
| `VerifyRead`, `VerifyCode`, `VerifyDiscard` | `verify_mfa` (`auth.py:172-221`) |
| `RefreshRead`, `RefreshUser`, `RefreshRotate` | `refresh_tokens` (`auth_service.py:114-144`) |
| `LogoutRead` | `logout_user` (`auth_service.py:147-154`) |
| `AccountRead` | `block_user`, `unblock_user`, `confirm_mfa`, `disable_mfa` |
| `Commit`, `Fail` | `get_db` (`database.py:14-21`) |

`login` answers with a challenge as soon as the row has the second factor, and
looks at `is_blocked` only afterwards; `LoginRead` has the same order. The block
by risk score between the two (`process_anomaly`) is left out: the weights of
`anomaly_service.py` add up to less than its threshold, which is
`RiskTheorem` of `BackOfficeProofs`.
`RefreshRotate` is the flush that inserts the new row and deletes the old one:
it waits for the old row's lock (`RowLocked`) and does not mind if the row has
gone. `late`, `barred` and `guarded` remember, for the properties, what was
committed when the request arrived.

`Careful` is a set of logins, named by their first token, whose client sends its
refreshes one at a time (`RefreshAlone`). That is what the web client does:
`src/frontend/src/api/index.ts:19-37` shares one refresh in flight, and nothing
more. Its logout (`stores/auth.ts:67-78`) is not coordinated with a refresh, so a
careful login's logouts come at any moment, several at once, and overlap with its
refresh. Other clients need not even share refreshes: logins outside `Careful`
interleave freely in every run.

### LoginGuard

`Count` is INCR and the comparison, `Expire` the second round trip; `Read`,
`Flush`, `Reject` and `Grant` are `authenticate_user` and the handler's answer.
Deadlines are ticks left. `hits` is only compared with 1 and `MaxRequests`, so it
stops at `MaxRequests + 1`. `recent` and `owed` are history: the ages of an
address's last `2 * MaxRequests + 1` attempts let through, the youngest first and
no age beyond `Window`, and the lockout the last wrong answers should have caused.
That at most twice the limit gets through in any window's length is then a
statement about one entry: the last of them is `Window` old.

### OidcGrants

`book` is the payload stored with a grant, `live` the keys present, `spent` the
grants whose use was answered. `Get` and `Delete` are the two awaits of
`consume_auth_code`, `consume_oidc_refresh_token` and `revoke_token`; an
exchange looks the client up before them, a refresh after them, and both load
the account before `Store`. `Careful` is the set of clients that present each
grant in one request at a time. Scopes, nonces and claims are data no property
distinguishes; `proof` stands for redirect URI and PKCE verifier together.
`CheckClient`'s refusal is a choice: which clients authenticate is data too.

### OidcRevocation

The clock runs in half seconds, so that a command may arrive in the middle of a
second. `exp` is the second a token names; `listed` the last half second of its
blocklist key; `left` the lifetime a revocation computed before its SETEX.
`calls` are its requests. `OidcProvider` puts this module beside `OidcGrants`:
they use different keys and no request touches both, so a behaviour follows one.

### AccessControl

| TLA+ | Code |
|---|---|
| `account`, `app`, `rows` | `users` (role, `is_active`, `is_blocked`), `applications` (`is_active`, `is_honeypot`), readable `role_permissions` |
| `codes`, `spent` | `sso_code:*` in Redis; history: codes whose acceptance was answered |
| `Launch`, `Able` | `get_current_user` (`deps.py:16`) for `authorize` and `check-access` |
| `CheckTrap`, `SpringTrap` | `check_honeypot` and the 403 that rolls its block back |
| `ReadApp`, `ReadPermission`, `StoreCode`, `GrantAccess` | `generate_auth_code`, `check_access` |
| `VerifyRead`, `VerifyDelete`, `Expire` | `verify_auth_code` and the 300 seconds of a code |
| `Manage`, `Write`, `CommitAccount`, `CommitApp` | `users.py:71-155`, `applications.py:58-144` |

A launch keeps the role it loaded (`role`), and remembers whether that role
could read the application then (`could`) and whether the application was plain
at some moment since (`plain`): the properties are about these. `rows` counts
the rows of a role for an application, because the list and the launch treat two
of them differently (`OneRow`); no request writes them, so `FirstRows` is any
table, and only the end of an application takes rows away. An administrator's
request names an account by a string: `exact` says that it is the spelling of
the caller's own id that `users.py:123` compares with. The account is looked up
by `uuid.UUID(user_id)` (`user_service.py:39`), which takes capitals, braces and
a missing dash, so a block of oneself under another spelling goes through. An
administrator's update is one value at a time. Audit rows, the alert and its
notifications are rolled back or committed with their request and have no state
here.

### AccountSecrets

`links` and `pending` are the Redis keys, `told` what was shown to whom, `outbox`
what was handed to Celery. A request waits at `flush` for the row's lock, holds
it up to the commit, and `Commit` writes the columns it has changed against what
it loaded (`had`): a confirmation that loaded `mfa_enabled` as on does not write
it. `SwitchFactor` is an administrator's update of `mfa_enabled`, which leaves
`mfa_secret` alone (`schemas/user.py:18`). In `PortalAuth` its effect is that of
the owner's switches.

### DesktopSession

A token stands for the pair of one answer of the server: `owner`, `live` (its
refresh half has a row) and `stale` (its access half has expired) are the
server's side, `mine` the portal's `localStorage`, `ipc` the orders to the shell,
`file` and `tmp` the disk, `app[i].tok` what an evaluation has loaded. The
server answers in one step (its own races are `PortalAuth`'s), the refresh cookie
equals the portal's stored token, a write of the temporary file is whole, and the
portal has one window.

| TLA+ | Code |
|---|---|
| `Login`, `StartRenewal` ... `Reload` | `stores/auth.ts`, `api/index.ts`, `App.vue` |
| `ShellWrite`, `ShellRename`, `ShellClear` | `electron/main.js` over `session-store.js` |
| `Start`, `Notice`, `Recheck` | the first evaluation, the watcher, the timer (`app-runtime.js:143-154`) |
| `FetchMe`, `Refresh`, `Write`, `Rename`, `Confirm`, `Wipe`, `CheckAccess` | `evaluate`, through `checkLaunch` and `resolveSession` |
| `Show`, `WindowUser` | the windows and their guards (`app-runtime.js:119-136`) |
| `Lose`, `Fail`, `Stall` | what else may come of a request (below) |

Each request of an application ends with the answer it asked for or with a
`Fault`. `Lose` is status 0, from `req.on('error')`: the server is shown as
unreachable, but for the request that confirms a rotation, which takes it for a
refusal. `Fail` is any other status, a 500, 502 or 429: `resolveSession` removes
the session for anything but a 200 (`iam-client.js:92`, `:103`, `:110`), and
check-access denies. `Stall` is a server that falls silent, before an answer or
in the middle of one: there is no timeout, so the promise never resolves, the
evaluation is `hung` and `reevaluating` drops every later one. In each case a
rotation that was asked for may have taken place. `MaxUpsets` bounds these
together with the blocks and role changes of a behaviour.

A window is opened only if the last result was of another kind
(`app-runtime.js:125`), and keeps whom it was opened for: `app[i].user`.

### Behind the portal

`BackOffice` chooses a `part` and lets only that one move, since the parts share
no state. `MailQueue` counts attempts and the copies that arrived; an error of
the server or the network is retried (`Retry`), any other exception ends the
task at once (`Raise`), and a worker that dies has acknowledged its task
already. `VaultRotation` counts time in ticks of a day, `age` by
`last_rotated_at`, and holds a run's changes apart (`since`) until its commit.
`AuditTrail` gives a row its place when it is flushed and shows it when it is
committed, so rows come into sight out of order; a login's `Attempt` computes
`RiskOf` over the committed rows, and remembers in `new` which of the documented
factors it has. `PasswordTools` takes a password as its length, its classes and
the repetitions the validator looks for; `Log2` is a table in thousandths that
gives the exact score for lengths up to 128.

## 3. What TLC checks

| Run | Instance | Shows |
|---|---|---|
| `portal_auth_races` | 1 user, 3 tokens, 1 challenge, 2 requests, one careful login | `SpentCredentialRefused`, `BlockedCannotRenew`, `SecondFactorRequired`, `OneLivePerLogin`, `ChainRefinement` |
| `portal_auth_live` | 2 users, 3 tokens, 1 challenge, 2 requests, fairness | `EveryRequestAnswered`, `TableRefinement` |
| `portal_auth_blocked_login` | 2 tokens | `BlockedCannotLogin` **fails** |
| `login_guard_window` | 1 address, 2 requests, limit 2, window of 3 ticks, fairness | `AttemptsBounded`, `WindowReopens`, `WindowArmedOnce` |
| `login_guard_lockout` | 2 addresses, lockout after 2 | `LockoutEnforced` **fails** |
| `oidc_provider` | 2 users, 2 clients (one careful), 3 grants, 3 requests; 1 access token, 3 requests, tokens of 2 s, 4 s of time | `TypeOK`, `SpentGrantRefused`, `GrantsStayBound`, `BlockedGetsNothing`, `CarefulSingleUse`, `BookRefinement`, `TokensTypeOK`, `RevokedUntilExpiry` |
| `oidc_grants_double` | 1 user, 1 client, 3 grants, 2 requests | `SingleUse` **fails** |
| `access_control` | 2 administrators, 1 account to create, a plain application, a honeypot, one to register; 1 code, 2 requests, 2 administrative requests; fairness | `TypeOK`, `RoleDecides`, `TrapNeverOpens`, `SpentCodeRefused`, `LastAdminLost`, `BlockClosesAccess` |
| `account_secrets` | 1 user, 1 link, 3 secrets, 2 requests, 1 password change or administrative request | `TypeOK`, `LinkKeepsItsWord`, `ChangeAnnounced`, `FactorWhole` |
| `desktop_session` | 2 users, 1 application, 2 logins, 1 expiry, 1 upset, 1 order to the shell; fairness | `TypeOK`, `WipeJustified`, `LoggedOutStays`, `SessionReachesApps`, `LogoutReachesApps`, `BlockReachesDesktop` |
| `back_office` | 2 messages; 3 credentials (every day, every second, never), days of 4 ticks, 2 failures; 2 writers, 3 rows, pages of 1; lengths 4 to 128; fairness of the worker | `RotatedInTime`, `AuditAnswersHold`, `GeneratedStrong`, `MailSettles` |
| `back_office_risk` | 2 addresses (one abroad), 2 browsers, day and night | `HighRiskAlerts` **fails** |

**Bounds.** The finite sets of tokens, challenges and grants are the bound on
how many can be minted; `TokenLeft`, `SidLeft` and `GrantLeft` let a request
arrive only while one is left for it, so that no request is stuck for want of a
model value. Two requests are enough for each race in the code (one reads,
another acts in between); three are used where a third party matters: a careless
client beside two careful ones, overlapping revocations beside the userinfo they
must stop. Three tokens give a login, its rotation and a successor; three grants
give a code, its refresh token and that token's successor, so every operation
meets used, unused and foreign credentials. `TokenLeft` keeps a token for every
refresh that may still need one, so `portal_auth_live` has a third: one for the
login, and one for each of two refreshes of it, which then both find the row,
and the slower one's DELETE waits for the row the faster one has locked. A limit
of two attempts makes the first, the last and the refused one different
attempts. `MaxNow` is twice a token's life.

In `access_control` `MaxEdits` bounds administrative requests: two let the
administrators block each other, or move a role and delete an application during
one launch; the code is reused after it has expired, so one suffices. In
`account_secrets` three secrets are one in force, one pending and one that
overtakes it. In `desktop_session` `MaxStale` bounds expiries, and with them
rotations; together with two logins this makes three generations of tokens, so a
slow process may hold the first while the third is in the file. `MaxUpsets` 1
lets each kind of failure, a block or a role change meet each place of an
evaluation; two logins of two users let one user's window meet the other's
session. One application suffices there because the shell is a second writer of
the same file, with the same two steps, and one order to the shell because the
portal's next one only waits. `MaxFailures` and days of four ticks let a
credential miss two runs; `MaxRows` 3 with pages of 1 and exports of 2 makes
every listing end, shift and overflow. The theorems below do not depend on these
numbers.

The type invariants of `PortalAuth` and `LoginGuard` are not repeated by a run:
`TypeCorrect` of their proof modules has them for every instance.

**Symmetry** permutes users, requests, challenges, and the tokens or clients on
each side of `Careful`, in `portal_auth_races`, `oidc_provider` and the first
three of the failing runs; runs with liveness properties have none.

**Fairness.** `portal_auth_live` assumes strong fairness for each request's
`Step`: the event loop resumes every coroutine whose await is done, and
PostgreSQL serves the waiters of a row lock in order, so a request whose lock is
free again and again gets it. Arrivals, failures and expiry have no fairness.
`login_guard_window` assumes weak fairness of `Tick` (time passes) and of each
`Step` (a started handler goes on, nothing there waits in vain).
`access_control` assumes weak fairness of each `Step`, and of `Expire`, since
Redis drops a key after its 300 seconds. `desktop_session` assumes it of the
shell, of every evaluation, of the delivery of change events and of the
five-minute timer. An evaluation's requests are answered or meet one of the
bounded faults; the portal's own requests may stay without an answer for ever,
and nothing makes a user log in or out. `back_office` assumes it of the worker,
message by message. The other runs state safety and assume nothing.

**Deadlock** is checked in every run but four. In `access_control` and
`desktop_session` the bounds on edits and logins may leave nothing to do but
stutter (`CHECK_DEADLOCK FALSE`), and a part of `back_office` and
`back_office_risk` ends when its messages or rows are used up. Elsewhere
requests can always arrive or time can pass.

### Where code and documentation part

Each of these runs checks one sentence of the repository and finds a behaviour
of the code that contradicts it.

* `portal_auth_blocked_login`: `backend/tests/test_integration_blocking.py:6`
  says "User cannot login". `verify_mfa` never reads `is_blocked`: a user
  blocked after the password redeems the challenge and gets a session.
  (`BlockedCannotRenew`, which does hold, shows that passwords and refreshes are
  covered. The session so opened cannot be refreshed while the block lasts.)
* `login_guard_lockout`: `backend/tests/test_auth.py:335` expects a lockout
  after N failures. The failure count is flushed, then `login` raises 401 and
  `get_db` rolls it back; the committed count never leaves 0.
* `back_office_risk`: `docs/ADMIN.md:165-173` gives a new address 20 points, a new
  place 30, a new device 25 and an unusual hour 15, and says that at 70 the user
  and the administrator are told. A login with all four scores 65: the score
  reads the device from a column that no login fills (`auth.py:165` writes the
  browser into `details`), and the failed logins that would add 20 carry no user
  and are rolled back by their own 401. So the block and the alerts of
  `process_anomaly` are never reached; `RiskTheorem` has the 65 for every login.
* `oidc_grants_double`: `consume_auth_code`'s comment says "Validate and
  atomically consume an authorization code." It is a GET and a DELETE; two
  exchanges that both read first both succeed.

Others were met while modelling and have no run of their own; most appear as
the named exception of a property that holds.

* Two refreshes of one token in flight leave a login with two live tokens,
  against "Rotate: delete old session, create new" (`auth_service.py:140`). This
  is why `OneLivePerLogin` speaks of careful logins.
* A logout that overlaps a refresh deletes the old row, and the refresh, which
  has found it before, then inserts the new one: the login stays open, with one
  live token, although `logout_user` (`auth_service.py:147`) was answered.
  `SessionChain` names this case (`renewing`) and shows that a logout is final
  otherwise.
* A handler that dies between INCR and EXPIRE leaves a counter without expiry,
  and its address is refused until someone deletes the key, against "5 attempts
  per 5 minutes" (`rate_limit.py:21`). `WindowReopens` names that state
  `Stranded` and shows that it is the only exception.
* In the last second of a token's life its blocklist key is gone while the
  signature still verifies, against "JTI revocation blocklist in Redis prevents
  replay of revoked tokens" (`api/v1/oidc.py:24`). `RevokedUntilExpiry` is exact
  about it.
* The honeypot's docstring says "If yes, log alert and block user"
  (`honeypot_service.py:16`), and `docs/ADMIN.md:171` repeats it. Both callers
  answer with a 403, and the rollback takes alert, block and notifications along
  (`SpringTrap` leaves the tables as they were).
* A user without a role is refused by check-access and gets a code from authorize
  (`sso.py:100` against `sso_service.py:29`); `RoleDecides` speaks of callers who
  have one.
* A role with two permission rows for an application sees it in the list
  (`sso_service.py:82` says why) and gets an error whenever it is launched
  (`OneRow`). No request of the API writes permission rows, so nobody can
  launch a newly registered application, except users without a role.
* Two administrators can block each other, the only one can take the role from
  himself, and he can block himself by writing his id in capitals or without
  dashes, against "Нельзя заблокировать собственный аккаунт" (`users.py:124`).
  `LastAdminLost` names these ways.
* Of several uses of one SSO code, or of one reset link, that come at the same
  time, more than one may succeed (`auth.py:293` says "one-time").
* A confirmation of a new secret that crosses a disable stores the secret and
  leaves MFA off; an administrator's update sets `mfa_enabled` without looking at
  the secret, and also where `MFA_REQUIRED` forbids it to the owner
  (`users.py:229-233`). `FactorWhole` names both.
* The portal and the applications rotate the same refresh token. After an
  application has done so, the portal's own refresh fails and logs out
  everywhere, a reload (F5) writes the dead token over the live one, and a
  logout leaves the rotated session alive on the server.
* A refresh in flight at a logout sets the tokens again when it is answered; once
  it is through, a logout stays (`LoggedOutStays`).
* Any status but 200 removes the shared session, a 500 or a 502 of a server that
  still honours it included, and so does an answer lost right after a rotation
  (`iam-client.js:92`, `:103`, `:110`), though a lost answer elsewhere does not
  (`WipeJustified`). `clearSession` compares nothing: a newer session that another
  process has saved meanwhile goes as well.
* A window stays as it is while the results are of one kind: if another user logs
  in while it shows the first one's, it keeps the first one's name and content,
  against "instantly unlocks already-open app windows" (`session-store.js:99`).
  `BlockReachesDesktop` names this case.
* The applications' requests have no timeout. After an answer that never ends the
  window shows what it showed, whatever happens to the session; the properties
  that a login, a logout or a block arrives say "unless it is `hung`".
* "Retries up to 3 times" (`notification_tasks.py:54`) covers the exceptions of
  the server and the network. A mail that cannot be encoded, or an answer of SMSC
  that is no JSON, ends its task at the first try (`failed` in `MailSettles`).
* An export ends at 10000 rows, where the tests of the export expect all entries
  of any set; `AuditAnswersHold` says what is left out.
* A rotation takes a day longer than its interval, since `last_rotated_at` is
  later than the start of its run, and one credential that disappears under a run
  undoes the night's work (`RotatedInTime`).
* The search of the audit log looks at one page and reports that page's matches
  as the total; the statistics' failed logins are blocked ones, since wrong
  passwords leave no row (`AuditAnswersHold`).
* The SMS method fails in login (`auth.py:129`, a missing argument) and in
  verify-mfa (`auth.py:196`, an undefined name).

## 4. What is proved

TLAPS checks these for every value of the constants, from the named assumptions
of each module only (`None` is not a user or token, sets of identifiers that
stand for different things are disjoint, `Careful` is a subset, intervals and
lifetimes are positive or natural, the nightly job ends before midnight).

| Theorem | States |
|---|---|
| `PortalAuthProofs!TypeCorrect`, `SpentTheorem`, `BlockedTheorem`, `SecondFactorTheorem` | `TypeOK` and the invariants of `portal_auth_races` |
| `PortalAuthProofs!OneLiveTheorem` | `Spec => []OneLivePerLogin` |
| `PortalAuthProofs!ChainTheorem` | `Spec => ChainRefinement` |
| `PortalAuthProofs!LogoutFinalTheorem` | `Spec => Chain!StaysClosed` |
| `PortalAuthProofs!TableTheorem` | `Spec => TableRefinement` |
| `PortalAuthProofs!NoReturnTheorem` | `Spec => Table!NoReturn` |
| `OidcGrantsProofs!TypeCorrect`, `SpentTheorem`, `BoundTheorem`, `BlockedTheorem` | the invariants of `OidcGrants` in `oidc_provider` |
| `OidcGrantsProofs!SingleUseTheorem` | `Spec => []CarefulSingleUse` |
| `OidcGrantsProofs!BookTheorem` | `Spec => BookRefinement` |
| `OidcRevocationProofs!TypeCorrect`, `RevocationTheorem` | `TokensTypeOK`, `RevokedUntilExpiry` |
| `LoginGuardProofs!TypeCorrect`, `AttemptsTheorem` | `Spec => []TypeOK`, `Spec => []AttemptsBounded` |
| `LoginGuardProofs!ArmedOnceTheorem` | `Spec => WindowArmedOnce` |
| `AccessControlProofs!TypeCorrect`, `RoleTheorem`, `TrapTheorem`, `SpentTheorem` | the invariants of `access_control` |
| `AccessControlProofs!LastAdminTheorem` | `Spec => LastAdminLost` |
| `AccountSecretsProofs!TypeCorrect`, `LinkTheorem`, `AnnouncedTheorem`, `FactorTheorem` | the invariants of `account_secrets` |
| `DesktopSessionProofs!TypeCorrect`, `WipeTheorem` | `TypeOK`, `WipeJustified` |
| `DesktopSessionProofs!LogoutTheorem` | `Spec => LoggedOutStays` |
| `BackOfficeProofs!RotationTheorem`, `AuditTheorem`, `PasswordTheorem` | the invariants of `back_office` |
| `BackOfficeProofs!RiskTheorem` | no login's risk is above 65 |
| `BackOfficeProofs!MailTheorem` | the safety half of `MailSettles` |

Each proof strengthens the properties to an inductive `Inv`, shows `InitInv` and
one lemma for each action, and reads the properties off it.

**PortalAuth.** The properties speak of requests about to commit, and say nothing
of how they got there, so none is inductive. `Inv` adds: which fields of a
request are set at which place (`Shape`); a used token has no row and a used
challenge no key (`SpentIsGone`), which is what makes a late refresh fail its
read; what a request holds was handed out before (`HeldIsKnown`); a request that
arrived under a block or under the second factor still sees it in the committed
row (`FlagsHold`) until it is released by the switch back; uncommitted tokens
are not yet anybody's and differ from each other (`NewIsFresh`). A late refresh
is thus stopped at its read, a barred one at the account, a guarded login at the
branch to the challenge. `CarefulInv` adds for careful logins that at most one
refresh holds a token of the login (`OneHolder`) and that a refresh past its read
finds no other row of the login than the one it read (`RefreshHoldsRow`): a logout
may have taken that one away, which leaves none. Together they give at most one
live row, and make every step of the portal one of the chains: a login's commit
opens, a refresh that finds its row begins a renewal, its commit renews, its
failure gives up, a logout's commit closes if there is still a row, everything
else stutters. `LogoutFinalTheorem` then only looks at the chains.

**SessionTable.** The chains speak of careful logins. `TableRefinement` speaks of
all of them, and promises less: a token is bound to one user when it is handed
out, a renewal binds its successor to the same user, and a token without a row
never gets one again, though two renewals with one token may both succeed. In
`PortalAuth` every commit has to be one step of that table, although it writes
what the request decided several awaits earlier: `NewIsFresh` gives the fresh
token, and `HeldIsKnown` says that the user a request loaded on arrival is still
the owner of the token it renews.

**OidcGrants.** The same argument with Redis keys for rows: a spent grant is not
live, so a late request ends at its GET. What a grant yields is bound because the
request past the DELETE has been compared with the payload, which never changes.
Refinement maps the abstract open grants to the keys that are live *or held* by a
request that has deleted but not yet stored: the linearisation point of an
exchange is its `Store`, and of a refused one the step that gives the grant up.

**OidcRevocation.** The key of a revoked token reaches at least its expiry: the
lifetime was computed from a clock no later than the one it is counted from, so
waiting between the two only lengthens it, and so does a later overlap.

**LoginGuard.** Which attempts the counter still counts is not in the state, so
`AttemptsBounded` is not inductive. `Spread` says it for every address: beyond the
first `hits` attempts none is of this tick, and each is as old as the present
window at least (`Window - ttl`); beyond another `MaxRequests` all are `Window`
old. A new attempt moves every age one place on, as the counter does; a tick ages
them while `ttl` falls; and when the key expires those still counted are exactly
`Window` old, which starts the count anew. That needs the counter's expiry to be
set once: at most one handler is between INCR and EXPIRE, and its key has no
expiry yet (`Arming`), even if other attempts have been counted meanwhile or a
handler died there. That is `WindowArmedOnce` too.

**AccessControl.** `LaunchShaped` says, place by place, what a launch has
established: past the permission it could read the application; past the
honeypot check the application was plain at some moment. Before those places it
says what the tables must look like for the launch to get on: permission rows
only go away, so a role that has one now had one when the caller was loaded, and
an application that is no honeypot now makes the launch `plain`. A spent code is
out of Redis, so late requests end at the GET. `LastAdminLost` needs that a
request that blocks or creates is about somebody else, or about oneself under
another spelling (`ChangeShaped`), and that
no two changes of a row are flushed at once (`OneFlush`, the row lock).

**AccountSecrets.** A link that is gone is accounted for by a named request past
its read (`Uses`), which hands the debt on to `changed` or `broken` when it ends.
A link that has set the password is out of Redis, so a late use stays at its
GET. For the factor, a confirmation that loaded `mfa_enabled` as on and finds it
off was crossed, and its secret is in `crossed` from the moment the switch
commits: that is what `Commit` needs, since it will not write the column.

**DesktopSession.** An evaluation at `wipe` either met an answer that says nothing
of its token (`cut`), or holds one the server refuses, and the server never takes
a refusal back (`Grows`): live tokens are only ever fresh ones and users stay
blocked. Each rotation, a rotation whose answer is lost included, needs a fresh
token, and there is one left because a rotated token is stale and out of `live`
(`ServerInv` counts tokens against logins and expiries). For `LoggedOutStays` the
shell matters: a save half done has its token at the head of `ipc`, so an empty
queue, or one of clears, means that no save is under way; and an evaluation that
hangs never writes again.

**Behind the portal.** `RotatedInTime` allows a day over the interval, but within
the day the age may be a whole day more: up to the start of today's run, and
while the run has a credential on its list or an uncommitted change to it
(`Ahead`). `Aged` says so, and the run's commit, failure or end takes the day
back, by rotating or by `missed`. `RiskTheorem` follows from what committed
rows look like (`RiskInv`): none of a failed login, and none with a browser in the
column the score reads. That leaves 20, 30 and 15 points.

The rows of `AuditAnswersHold` are ordered by their places, and rows come into
sight out of order. `ReaderInv` therefore counts, for each row the reader has not
seen, the rows in sight that are newer (`Newer`): as many as the pages that are
through at least. A row that comes in can only add to that number, so it pushes
others towards later pages and never past the reader; the reader stops when the
pages cover the count, and if nothing came in since the count there is no row
left whose newer ones are fewer. `StatsInv` names the set of rows that the daily
queries so far were about (`Past`): each query adds a day's slice, disjoint from
those before, and the last set lies within the period of the distribution. Only
cardinalities of such sets are compared, so no sum over days is needed.

`GeneratedStrong` holds by cases on the classes a password has, with the length
free: from sixteen characters on all four classes have their entropy at its cap,
and a temporary password has sixteen, whatever its classes. `MailInv` ties a
message's place to its tries and copies, the two ways to fail apart (`abandoned`
only after all tries), and `MailTheorem` leaves only termination to TLC.

## 5. Only model-checked

* Liveness, which is outside what the prover handles: `EveryRequestAnswered`,
  `WindowReopens`, `BlockClosesAccess`, `SessionReachesApps`,
  `LogoutReachesApps`, `BlockReachesDesktop`, `MailSettles`. Every other property
  of a passing run is a theorem above.
* The four failing properties: a counterexample is the proof. `RiskTheorem` adds
  to one of them that no login at all reaches the threshold.

## 6. Not modelled

Signatures, hashing and password checks are taken as sound; a token that
verifies is one the server issued, and a TOTP code is right or wrong by choice.
Unknown e-mail addresses and malformed bodies answer before they change
anything. A wrong password is in `LoginGuard`, not in `PortalAuth`. `LoginGuard`
has one account, several addresses: the limit is per address and the lockout per
account.

* **Registration** (`auth.py`) creates a row like an administrator's `create` in
  `AccessControl`, for somebody who has no session yet.
* **The SMS method** ends in an error in login and in verify-mfa (above), which
  is `Fail` of `PortalAuth`; its message is one of `MailQueue`.
* **The list of applications** (`get_user_apps`) is one query that only reads.
* **OpenID requests** that only read: discovery, the key set, the registry of
  clients, which is a constant of the configuration, and the claims of a token.
* **In-app notifications** are a list with a read flag; nothing reads them back
  to decide anything.
* **The audit statistics'** independent counters and top-ten list, and the file
  formats of the exports.
* **Crack-time estimates and feedback texts** of the password validator, and the
  penalty for its list of common passwords, which have at most nine characters:
  every password `GeneratedStrong` scores is longer.
* **The route guard** (`router/index.ts`) chooses a page by the store; the views
  show what the store and the API return.
* **Keys, field encryption, schemas, styles, seed, migrations, deployment files,
  InvenTree's configuration** have no protocol: library calls, declarations, or
  scripts that run once before the system serves.

## 7. What is left to do

* Single sign-out: `authorize` trusts the refresh cookie's signature
  (`oidc.py:125`); composing `OidcGrants` with the rows of `PortalAuth` would
  say for how long.
* An abstract specification of one shared session, and `DesktopSession` shown to
  implement it outside the exceptions named above: a rotation by one process, a
  wipe after a fault and a late answer each leave the copies apart, so the
  abstraction has to say for how long.
* Safety halves of the other liveness properties, as `MailTheorem` is of
  `MailSettles`: what keeps `EveryRequestAnswered` from a deadlock is that no
  request waits for a row while it holds one.
