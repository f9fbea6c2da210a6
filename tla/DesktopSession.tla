--------------------------- MODULE DesktopSession ---------------------------
(***************************************************************************)
(* One machine's shared sign-on: the portal keeps its pair of tokens in    *)
(* localStorage (frontend/src/stores/auth.ts, api/index.ts), hands it to   *)
(* its Electron shell (electron/main.js), which writes it to session.json  *)
(* (demo-apps/shared/session-store.js); every desktop application reads    *)
(* that file, rotates the pair when it has expired, writes it back, and    *)
(* shows its window or a login prompt (iam-client.js, app-runtime.js).     *)
(*                                                                         *)
(* A token stands for the pair of one answer of the server.  The server    *)
(* answers each request in one step; its own races are in PortalAuth.      *)
(***************************************************************************)
EXTENDS Integers, Sequences, FiniteSets

CONSTANTS
  User, App,
  None,       \* no token
  MaxLogins,  \* bound on the logins of a behaviour
  MaxStale,   \* bound on the access tokens that expire
  MaxUpsets,  \* bound on blocks, role changes and requests without a proper answer
  MaxIpc      \* bound on the orders waiting for the shell

ASSUME DesktopAssumption ==
  /\ None \notin User
  /\ {MaxLogins, MaxStale, MaxUpsets, MaxIpc} \subseteq Nat

Token == 1 .. MaxLogins + MaxStale
ASSUME NoneAssumption == None \notin Token

VARIABLES
  owner,    \* the user of every token handed out, None before
  live,     \* refresh tokens with a row in sessions
  stale,    \* tokens whose access part has expired
  blocked,  \* blocked users
  barred,   \* users whose role does not open the applications
  file,     \* session.json
  tmp,      \* session.json.tmp
  mine,     \* the portal's token, in localStorage
  ipc,      \* what the portal has told its shell to do: a token to save, or None to clear
  shell,    \* whether the shell is between the two steps of a save
  renewal,  \* the portal's refresh in flight
  leaving,  \* the portal waits for the answer to its logout
  app,      \* the desktop applications
  wake,     \* applications with a change event to react to
  logins,
  upsets    \* blocks, role changes and requests without a proper answer so far

server == <<owner, live, stale, blocked, barred>>
disk == <<file, tmp>>
portal == <<mine, ipc, shell, renewal, leaving>>
apps == <<app, wake>>
vars == <<server, disk, portal, apps, logins, upsets>>

\* An application's evaluation is at one of these; a hung one waits for an
\* answer that never ends.  cut: it wipes because of an answer that says
\* nothing of the token.  user: whom its window was opened for.
Requests == {"me", "refresh", "confirm", "access"}
Places == Requests \cup {"off", "idle", "write", "rename", "wipe", "hung"}
Windows == {"none", "granted", "denied", "login", "down"}

Armed == {i \in App : app[i].armed}
Issued == {t \in Token : owner[t] # None}
Fresh == CHOOSE t \in Token \ Issued : TRUE
Good(t) == t \in live /\ owner[t] \notin blocked

Say(order) == Len(ipc) < MaxIpc /\ ipc' = Append(ipc, order) /\ UNCHANGED shell

-----------------------------------------------------------------------------
(* The server and the clock.                                                *)

Upset == upsets < MaxUpsets /\ upsets' = upsets + 1

Block(u) ==
  /\ Upset
  /\ u \notin blocked /\ blocked' = blocked \cup {u}
  /\ UNCHANGED <<owner, live, stale, barred, disk, portal, apps, logins>>

\* An administrator gives the user another role.
Bar(u) ==
  /\ Upset
  /\ u \notin barred \cup blocked /\ barred' = barred \cup {u}
  /\ UNCHANGED <<owner, live, stale, blocked, disk, portal, apps, logins>>

\* An access token lives half an hour, a rotation is confirmed at once.
AccessExpires(t) ==
  /\ t \in Issued \ stale /\ Cardinality(stale) < MaxStale
  /\ \A i \in App : app[i].tok = t => app[i].at \notin {"write", "rename", "confirm"}
  /\ stale' = stale \cup {t}
  /\ UNCHANGED <<owner, live, blocked, barred, disk, portal, apps, logins, upsets>>

HandOut(n, u) == owner' = [owner EXCEPT ![n] = u]

\* POST /refresh with t: a new token, or a 401.
Rotates(t) == live' = (live \ {t}) \cup {Fresh} /\ HandOut(Fresh, owner[t])

-----------------------------------------------------------------------------
(* The portal: setTokens, logout, the interceptor's refresh.                *)

Login(u) ==
  /\ mine = None /\ ~leaving /\ u \notin blocked /\ logins < MaxLogins
  /\ HandOut(Fresh, u) /\ live' = live \cup {Fresh}
  /\ mine' = Fresh /\ Say(Fresh)
  /\ logins' = logins + 1
  /\ UNCHANGED <<stale, blocked, barred, disk, renewal, leaving, apps, upsets>>

\* Faulty variant: the refresh cookie is tried without a session in the store.
StartRenewalByCookie ==
  /\ renewal.at = "none"
  /\ \E t \in live : renewal' = [at |-> "sent", tok |-> t]
  /\ UNCHANGED <<server, disk, mine, ipc, shell, leaving, apps, logins, upsets>>

\* A 401 starts one refresh, which all requests share.
StartRenewal ==
  /\ mine # None /\ mine \in stale /\ renewal.at = "none"
  /\ renewal' = [at |-> "sent", tok |-> mine]
  /\ UNCHANGED <<server, disk, mine, ipc, shell, leaving, apps, logins, upsets>>

AnswerRenewal ==
  /\ renewal.at = "sent"
  /\ \/ /\ Good(renewal.tok)
        /\ Rotates(renewal.tok)
        /\ renewal' = [at |-> "got", tok |-> Fresh]
        /\ UNCHANGED upsets
     \/ /\ ~Good(renewal.tok)
        /\ renewal' = [at |-> "failed", tok |-> None]
        /\ UNCHANGED <<owner, live, upsets>>
     \/ /\ Upset
        /\ renewal' = [at |-> "failed", tok |-> None]
        /\ IF Good(renewal.tok) THEN Rotates(renewal.tok) ELSE UNCHANGED <<owner, live>>
  /\ UNCHANGED <<stale, blocked, barred, disk, mine, ipc, shell, leaving, apps, logins>>

\* Whatever has become of the portal's session meanwhile, the answer sets
\* it; any failure, the network's too, logs out.
FinishRenewal ==
  /\ renewal.at \in {"got", "failed"}
  /\ mine' = renewal.tok /\ Say(renewal.tok)
  /\ renewal' = [at |-> "none", tok |-> None]
  /\ UNCHANGED <<server, disk, leaving, apps, logins, upsets>>

\* handleLogout: the server is told, then the store is emptied whatever the
\* server said.
LogoutCall ==
  /\ mine # None /\ ~leaving
  /\ leaving' = TRUE
  /\ live' = live \ {mine}
  /\ UNCHANGED <<owner, stale, blocked, barred, disk, mine, ipc, shell, renewal, apps, logins, upsets>>

\* Also ?relogin=true on the login page, which tells the server nothing.
LogoutStore ==
  /\ leaving \/ mine # None
  /\ mine' = None /\ Say(None) /\ leaving' = FALSE
  /\ UNCHANGED <<server, disk, renewal, apps, logins, upsets>>

\* The window is reloaded: what was in flight is forgotten, App.vue saves
\* what localStorage has.
Reload ==
  /\ mine # None
  /\ renewal' = [at |-> "none", tok |-> None] /\ leaving' = FALSE
  /\ Say(mine)
  /\ UNCHANGED <<server, disk, mine, apps, logins, upsets>>

-----------------------------------------------------------------------------
(* session.json.  saveSession writes the one temporary file and renames it; *)
(* other processes may come in between.                                     *)

FileBecomes(t) == file' = t /\ wake' = wake \cup Armed

ShellWrite ==
  /\ ipc # <<>> /\ Head(ipc) # None /\ shell = "ready"
  /\ tmp' = Head(ipc) /\ shell' = "rename"
  /\ UNCHANGED <<server, file, mine, ipc, renewal, leaving, apps, logins, upsets>>

\* A rename that finds no temporary file is reported to the portal; App.vue
\* then fetches the profile, which saves once more.
ShellRename ==
  /\ shell = "rename" /\ shell' = "ready"
  /\ \/ /\ tmp # None
        /\ FileBecomes(tmp) /\ tmp' = None /\ ipc' = Tail(ipc)
     \/ /\ tmp = None
        /\ ipc' \in {Tail(ipc)} \cup {Append(Tail(ipc), t) : t \in {mine} \ {None}}
        /\ UNCHANGED <<disk, wake>>
  /\ UNCHANGED <<server, mine, renewal, leaving, app, logins, upsets>>

ShellClear ==
  /\ ipc # <<>> /\ Head(ipc) = None
  /\ IF file # None THEN FileBecomes(None) ELSE UNCHANGED <<file, wake>>
  /\ ipc' = Tail(ipc)
  /\ UNCHANGED <<server, tmp, mine, shell, renewal, leaving, app, logins, upsets>>

-----------------------------------------------------------------------------
(* A desktop application: evaluate.                                         *)

Move(i, at) == app' = [app EXCEPT ![i].at = at]

Ended(i, w, u) == app' = [app EXCEPT ![i] = [at |-> "idle", tok |-> None, cut |-> FALSE,
                                             armed |-> TRUE, win |-> w, user |-> u]]

WindowUser(i, w) == IF w \in {"granted", "denied"} THEN owner[app[i].tok] ELSE None

\* The evaluation ends with a window, which is opened anew only if it is of
\* another kind; after the first evaluation the application watches the file
\* and rechecks every five minutes.
Show(i, w) == Ended(i, w, IF app[i].win = w THEN app[i].user ELSE WindowUser(i, w))

\* Faulty variant: a missing file is not looked for.
LoadUnchecked(i) == app' = [app EXCEPT ![i].at = "me", ![i].tok = file]

\* Faulty variant: a missing file leaves the window as it is.
LoadKeeping(i) ==
  IF file = None THEN Show(i, app[i].win)
  ELSE app' = [app EXCEPT ![i].at = "me", ![i].tok = file]

\* loadSession
Load(i) ==
  IF file = None THEN Show(i, "login")
  ELSE app' = [app EXCEPT ![i].at = "me", ![i].tok = file]

Start(i) ==
  /\ app[i].at = "off"
  /\ Load(i)
  /\ UNCHANGED <<server, disk, portal, wake, logins, upsets>>

\* A change event, or the timer.  While an evaluation is under way both are
\* dropped.
Notice(i) ==
  /\ i \in wake /\ wake' = wake \ {i}
  /\ IF app[i].at = "idle" THEN Load(i) ELSE UNCHANGED app
  /\ UNCHANGED <<server, disk, portal, logins, upsets>>

\* Faulty variant: no timer, only a change event makes the application look again.
RecheckOnChange(i) ==
  /\ i \in wake /\ app[i].at = "idle" /\ app[i].armed
  /\ Load(i)
  /\ UNCHANGED <<server, disk, portal, wake, logins, upsets>>

Recheck(i) ==
  /\ app[i].at = "idle" /\ app[i].armed
  /\ Load(i)
  /\ UNCHANGED <<server, disk, portal, wake, logins, upsets>>

\* A request goes without a proper answer; the rotation it asked for may
\* have happened.
Fault(i) ==
  /\ app[i].at \in Requests
  /\ Upset
  /\ \/ UNCHANGED <<owner, live>>
     \/ app[i].at = "refresh" /\ Good(app[i].tok) /\ Rotates(app[i].tok)
  /\ UNCHANGED <<stale, blocked, barred, disk, portal, wake, logins>>

WipeAfterFault(i) == app' = [app EXCEPT ![i].at = "wipe", ![i].tok = None, ![i].cut = TRUE]

\* Faulty variant: no answer counts as a refusal.
LoseWiping(i) == Fault(i) /\ Move(i, "wipe")

\* No connection: status 0, which only the confirming request takes for a
\* refusal.
Lose(i) == Fault(i) /\ IF app[i].at = "confirm" THEN WipeAfterFault(i) ELSE Show(i, "down")

\* A 500, a 502, a 429: anything but a 200 removes the session, except from
\* check-access.
Fail(i) == Fault(i) /\ IF app[i].at = "access" THEN Show(i, "denied") ELSE WipeAfterFault(i)

\* There is no timeout: a server that is silent, or falls silent in the
\* middle of an answer, leaves the evaluation pending, and with it all later ones.
Stall(i) == Fault(i) /\ app' = [app EXCEPT ![i].at = "hung", ![i].tok = None]

\* Faulty variant: only an expired token is looked for.
FetchMeUnblocked(i) ==
  /\ app[i].at = "me"
  /\ Move(i, IF app[i].tok \in stale THEN "refresh" ELSE "access")
  /\ UNCHANGED <<server, disk, portal, wake, logins, upsets>>

FetchMe(i) ==
  /\ app[i].at = "me"
  /\ Move(i, CASE app[i].tok \in stale -> "refresh"
               [] app[i].tok \notin stale /\ owner[app[i].tok] \in blocked -> "wipe"
               [] OTHER -> "access")
  /\ UNCHANGED <<server, disk, portal, wake, logins, upsets>>

Refresh(i) ==
  /\ app[i].at = "refresh"
  /\ IF Good(app[i].tok)
     THEN /\ Rotates(app[i].tok)
          /\ app' = [app EXCEPT ![i].at = "write", ![i].tok = Fresh]
     ELSE Move(i, "wipe") /\ UNCHANGED <<owner, live>>
  /\ UNCHANGED <<stale, blocked, barred, disk, portal, wake, logins, upsets>>

Write(i) ==
  /\ app[i].at = "write"
  /\ tmp' = app[i].tok
  /\ Move(i, "rename")
  /\ UNCHANGED <<server, file, portal, wake, logins, upsets>>

\* Without a temporary file renameSync throws, and the evaluation is over.
Rename(i) ==
  /\ app[i].at = "rename"
  /\ \/ tmp # None /\ FileBecomes(tmp) /\ tmp' = None /\ Move(i, "confirm")
     \/ /\ tmp = None
        /\ app' = [app EXCEPT ![i].at = "idle", ![i].tok = None]
        /\ UNCHANGED <<disk, wake>>
  /\ UNCHANGED <<server, portal, logins, upsets>>

\* The profile once more, with the new token.
Confirm(i) ==
  /\ app[i].at = "confirm"
  /\ Move(i, IF owner[app[i].tok] \in blocked THEN "wipe" ELSE "access")
  /\ UNCHANGED <<server, disk, portal, wake, logins, upsets>>

\* clearSession, whatever the file has become in the meantime.
Wipe(i) ==
  /\ app[i].at = "wipe"
  /\ IF file # None THEN FileBecomes(None) ELSE UNCHANGED <<file, wake>>
  /\ Show(i, "login")
  /\ UNCHANGED <<server, tmp, portal, logins, upsets>>

\* check-access
CheckAccess(i) ==
  LET t == app[i].tok IN
  /\ app[i].at = "access"
  /\ Show(i, CASE t \in stale -> "login"
               [] t \notin stale /\ owner[t] \notin barred \cup blocked -> "granted"
               [] OTHER -> "denied")
  /\ UNCHANGED <<server, disk, portal, wake, logins, upsets>>

-----------------------------------------------------------------------------

Init ==
  /\ owner = [t \in Token |-> None] /\ live = {} /\ stale = {}
  /\ blocked = {} /\ barred = {}
  /\ file = None /\ tmp = None
  /\ mine = None /\ ipc = <<>> /\ shell = "ready"
  /\ renewal = [at |-> "none", tok |-> None] /\ leaving = FALSE
  /\ app = [i \in App |-> [at |-> "off", tok |-> None, cut |-> FALSE, armed |-> FALSE,
                           win |-> "none", user |-> None]]
  /\ wake = {} /\ logins = 0 /\ upsets = 0

Evaluate(i) ==
  \/ FetchMe(i) \/ Refresh(i) \/ Write(i) \/ Rename(i) \/ Confirm(i) \/ Wipe(i) \/ CheckAccess(i)

Shell == ShellWrite \/ ShellRename \/ ShellClear
Renewal == AnswerRenewal \/ FinishRenewal

Next ==
  \/ \E u \in User : Block(u) \/ Bar(u) \/ Login(u)
  \/ \E t \in Token : AccessExpires(t)
  \/ StartRenewal \/ Renewal \/ LogoutCall \/ LogoutStore \/ Reload
  \/ Shell
  \/ \E i \in App : Start(i) \/ Notice(i) \/ Recheck(i) \/ Evaluate(i)
                     \/ Lose(i) \/ Fail(i) \/ Stall(i)

Spec == Init /\ [][Next]_vars

\* Events arrive, timers fire, the shell obeys, and a request of an
\* application is answered or is one of the bounded faults.  The portal's
\* requests may stay without an answer.
FairSpec ==
  /\ Spec
  /\ WF_vars(Shell)
  /\ \A i \in App : WF_vars(Evaluate(i)) /\ WF_vars(Notice(i)) /\ WF_vars(Recheck(i))

-----------------------------------------------------------------------------

TypeOK ==
  /\ owner \in [Token -> User \cup {None}] /\ blocked \cup barred \subseteq User
  /\ live \subseteq Issued /\ stale \subseteq Issued
  /\ {file, tmp, mine} \subseteq Issued \cup {None}
  /\ \A k \in DOMAIN ipc : ipc[k] \in Issued \cup {None}
  /\ shell \in {"ready", "rename"} /\ leaving \in BOOLEAN
  /\ renewal.at \in {"none", "sent", "got", "failed"} /\ renewal.tok \in Issued \cup {None}
  /\ app \in [App -> [at : Places, tok : Issued \cup {None}, cut : BOOLEAN, armed : BOOLEAN,
                      win : Windows, user : User \cup {None}]]
  /\ \A i \in App : app[i].at \in Requests => app[i].tok # None
  /\ wake \subseteq App /\ logins \in 0 .. MaxLogins /\ upsets \in 0 .. MaxUpsets

\* An application that is about to remove the shared session has looked at
\* one that the server refuses: replaced, logged out, or its user blocked.
\* The exception is an answer that says nothing of the session, or none to
\* the request that confirms a rotation (resolveSession, iam-client.js:92,
\* :103 and :110).
WipeJustified ==
  \A i \in App : app[i].at = "wipe" => app[i].cut \/ ~Good(app[i].tok)

\* Once everybody is logged out and nothing is under way, only a login brings
\* a session back: no application and no reload of the portal restores one.
LoggedOut ==
  /\ file = None /\ mine = None /\ renewal.at \in {"none", "failed"}
  /\ \A k \in DOMAIN ipc : ipc[k] = None
  /\ \A i \in App : app[i].at \in {"off", "idle", "hung"}
LoggedOutStays == [][LoggedOut => LoggedOut' \/ logins' # logins]_vars

Watching(i) == app[i].armed /\ app[i].at # "hung"
Theirs(i, u) == file # None /\ owner[file] = u /\ u \notin blocked /\ Watching(i)

\* "Demo-apps use this so that a login inside IAM Portal instantly unlocks
\* already-open app windows" (session-store.js:99): a session that stays in
\* the file, of a user who is not blocked, opens every application that has
\* come to watch the file, or denies it to a user without the role, whatever
\* events the application has dropped; unless a request of it never ends.
SessionReachesApps ==
  \A i \in App, u \in User :
    <>[]Theirs(i, u) => <>[](app[i].win = IF u \in barred THEN "denied" ELSE "granted")

\* "wipes the shared session so demo-apps fall back to the please log in via
\* Portal screen" (preload.js:24), unless a request of the application never ends.
LogoutReachesApps ==
  \A i \in App : <>[](file = None /\ Watching(i)) => <>[](app[i].win = "login")

\* A blocked user's session leaves the machine when an application looks at it
\* (FetchMe's 403, docs in NEW-DEMO-SCENARIO.md:150), and so does his window,
\* unless another user's session has taken the place of his: a window that is
\* already open keeps whom it was opened for (app-runtime.js:125).
BlockReachesDesktop ==
  \A i \in App, u \in User :
    <>[](u \in blocked /\ Watching(i)) =>
      /\ []<>(file = None \/ owner[file] # u)
      /\ <>[](app[i].user # u) \/ []<>(file # None /\ owner[file] # u)
=============================================================================
