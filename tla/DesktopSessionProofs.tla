------------------------- MODULE DesktopSessionProofs -------------------------
(***************************************************************************)
(* Proof that an application removes the session only when the server has  *)
(* refused it, or after an answer that said nothing of it, and that a      *)
(* finished logout stays one, for any users and applications, any number   *)
(* of logins, expiries and faults.                                         *)
(***************************************************************************)
EXTENDS DesktopSession, FiniteSetTheorems, TLAPS

\* Every rotation uses up an expired token, so that one is left to hand out.
ServerInv ==
  /\ owner \in [Token -> User \cup {None}] /\ blocked \subseteq User /\ barred \subseteq User
  /\ live \subseteq Issued /\ stale \subseteq Issued
  /\ Cardinality(stale) <= MaxStale
  /\ Cardinality(Issued) <= logins + Cardinality(stale \ live)
  /\ logins \in 0 .. MaxLogins /\ upsets \in 0 .. MaxUpsets

Held == Issued \cup {None}
ClientInv ==
  /\ file \in Held /\ tmp \in Held /\ mine \in Held /\ ipc \in Seq(Held)
  /\ shell \in {"ready", "rename"} /\ leaving \in BOOLEAN
  /\ renewal \in [at : {"none", "sent", "got", "failed"}, tok : Held]
  /\ renewal.at = "sent" => renewal.tok \in stale
  /\ renewal.at \in {"none", "failed"} => renewal.tok = None
  /\ shell = "rename" => ipc # <<>> /\ Head(ipc) # None

Application == [at : Places, tok : Token \cup {None}, cut : BOOLEAN, armed : BOOLEAN,
                win : Windows, user : User \cup {None}]
Working == Requests \cup {"write", "rename"}
Evaluating(x) ==
  /\ x.tok \in Held
  /\ x.at \in Working => x.tok # None
  /\ x.at = "refresh" => x.tok \in stale
  /\ x.at = "wipe" /\ ~x.cut => ~Good(x.tok)
AppsInv == app \in [App -> Application] /\ wake \subseteq App /\ \A i \in App : Evaluating(app[i])

Inv == ServerInv /\ ClientInv /\ AppsInv

\* What the server does to what the others hold.
Grows ==
  /\ Issued \subseteq Issued' /\ stale \subseteq stale'
  /\ \A t \in Held : ~Good(t) => ~Good(t)'

-----------------------------------------------------------------------------
(* The server.                                                              *)

LEMMA Bounds ==
  /\ MaxLogins \in Nat /\ MaxStale \in Nat /\ MaxUpsets \in Nat /\ MaxIpc \in Nat
  /\ None \notin User /\ None \notin Token
BY DesktopAssumption, NoneAssumption

LEMMA TokensFinite == /\ IsFiniteSet(Token) /\ Cardinality(Token) = MaxLogins + MaxStale
<1>1. 1 \in Int /\ MaxLogins + MaxStale \in Nat
  BY Bounds
<1>2. IsFiniteSet(1 .. MaxLogins + MaxStale) /\ Cardinality(1 .. MaxLogins + MaxStale) = MaxLogins + MaxStale
  BY <1>1, FS_Interval
<1>3. QED
  BY <1>2 DEF Token

LEMMA IssuedOnes ==
  ASSUME ServerInv
  PROVE  /\ Issued \subseteq Token /\ IsFiniteSet(Issued) /\ IsFiniteSet(stale)
         /\ IsFiniteSet(stale \ live)
         /\ Cardinality(Issued) \in Nat /\ Cardinality(stale) \in Nat /\ Cardinality(stale \ live) \in Nat
         /\ None \notin live
<1>1. Issued \subseteq Token /\ stale \subseteq Token /\ stale \ live \subseteq Token /\ live \subseteq Token
  BY DEF ServerInv, Issued
<1>2. IsFiniteSet(Issued) /\ IsFiniteSet(stale) /\ IsFiniteSet(stale \ live)
  BY <1>1, TokensFinite, FS_Subset
<1>3. QED
  BY <1>1, <1>2, FS_CardinalityType, Bounds

LEMMA FreshOnes ==
  ASSUME ServerInv, Cardinality(Issued) < MaxLogins + MaxStale PROVE Fresh \in Token \ Issued
<1>1. Issued # Token
  BY TokensFinite, Bounds, IssuedOnes
<1>2. \E t \in Token \ Issued : TRUE
  BY <1>1, IssuedOnes
<1>3. QED
  BY <1>2 DEF Fresh

\* One more token is handed out.
LEMMA HandOutOnes ==
  ASSUME ServerInv, Fresh \in Token \ Issued, NEW u \in User, HandOut(Fresh, u)
  PROVE  /\ owner' \in [Token -> User \cup {None}]
         /\ Issued' = Issued \cup {Fresh}
         /\ \A t \in Issued : owner'[t] = owner[t]
         /\ Cardinality(Issued') = Cardinality(Issued) + 1
<1>1. PICK n \in Token \ Issued : n = Fresh
  OBVIOUS
<1>2. owner' = [owner EXCEPT ![n] = u]
  BY <1>1 DEF HandOut
<1>3. owner' \in [Token -> User \cup {None}] /\ owner'[n] = u /\ \A t \in Token \ {n} : owner'[t] = owner[t]
  BY <1>2 DEF ServerInv
<1>4. Issued' = Issued \cup {n}
  BY <1>3, Bounds DEF Issued
<1>5. Cardinality(Issued') = Cardinality(Issued) + 1
  BY <1>1, <1>4, IssuedOnes, FS_AddElement
<1>6. QED
  BY <1>1, <1>3, <1>4, <1>5, IssuedOnes

\* A rotation and a login find one left.
LEMMA FreshRotation ==
  ASSUME ServerInv, NEW t \in live \cap stale
  PROVE  Fresh \in Token \ Issued /\ t \in Issued /\ owner[t] \in User
<1>1. /\ stale \ live \subseteq stale /\ stale \ live # stale /\ owner[t] \in User
      /\ t \in Issued
  BY DEF ServerInv, Issued
<1>2. Cardinality(stale \ live) < Cardinality(stale)
  BY <1>1, IssuedOnes, FS_Subset
<1>3. Cardinality(Issued) < MaxLogins + MaxStale
  BY <1>2, Bounds, IssuedOnes DEF ServerInv
<1>4. QED
  BY <1>1, <1>3, FreshOnes

LEMMA FreshLogin ==
  ASSUME ServerInv, logins < MaxLogins PROVE Fresh \in Token \ Issued
<1>1. Cardinality(stale \ live) <= Cardinality(stale)
  BY IssuedOnes, FS_Subset
<1>2. Cardinality(Issued) < MaxLogins + MaxStale
  BY <1>1, Bounds, IssuedOnes DEF ServerInv
<1>3. QED
  BY <1>2, FreshOnes

LEMMA RotateInv ==
  ASSUME ServerInv, NEW t \in live \cap stale, owner[t] \notin blocked, Rotates(t),
         UNCHANGED <<stale, blocked, barred, logins>>, upsets' \in 0 .. MaxUpsets
  PROVE  /\ ServerInv' /\ Grows /\ Fresh \in Issued' /\ Fresh \notin Issued
<1>1. owner[t] \in User /\ t \in Token
  BY FreshRotation, IssuedOnes
<1>2. Fresh \in Token \ Issued
  BY FreshRotation
<1>3. /\ live' = (live \ {t}) \cup {Fresh} /\ HandOut(Fresh, owner[t])
  BY DEF Rotates
<1>4. /\ owner' \in [Token -> User \cup {None}] /\ Issued' = Issued \cup {Fresh}
      /\ \A k \in Issued : owner'[k] = owner[k]
      /\ Cardinality(Issued') = Cardinality(Issued) + 1
  BY <1>1, <1>2, <1>3, HandOutOnes
<1>5. stale' \ live' = (stale \ live) \cup {t} /\ t \notin stale \ live
  BY <1>2, <1>3 DEF ServerInv
<1>6. Cardinality(stale' \ live') = Cardinality(stale \ live) + 1
  BY <1>5, IssuedOnes, FS_AddElement
<1>7. Cardinality(Issued') <= logins' + Cardinality(stale' \ live')
  BY <1>4, <1>6, IssuedOnes, Bounds DEF ServerInv
<1>8. ServerInv'
  BY <1>2, <1>3, <1>4, <1>7 DEF ServerInv
<1>9. \A k \in Held : ~Good(k) => ~Good(k)'
  <2> SUFFICES ASSUME NEW k \in Held, k \in live', owner'[k] \notin blocked' PROVE Good(k)
    BY DEF Good
  <2>1. k # Fresh /\ k \in live
    BY <1>2, <1>3, Bounds DEF Held
  <2>2. QED
    BY <1>4, <2>1 DEF Good, ServerInv
<1>10. QED
  BY <1>2, <1>4, <1>8, <1>9 DEF Grows

LEMMA LoginInv ==
  ASSUME ServerInv, NEW u \in User \ blocked, logins < MaxLogins, HandOut(Fresh, u),
         live' = live \cup {Fresh}, logins' = logins + 1, UNCHANGED <<stale, blocked, barred, upsets>>
  PROVE  ServerInv' /\ Grows /\ Fresh \in Issued'
<1>1. Fresh \in Token \ Issued
  BY FreshLogin
<1>2. /\ owner' \in [Token -> User \cup {None}] /\ Issued' = Issued \cup {Fresh}
      /\ \A k \in Issued : owner'[k] = owner[k]
      /\ Cardinality(Issued') = Cardinality(Issued) + 1
  BY <1>1, HandOutOnes
<1>3. stale' \ live' = stale \ live
  BY <1>1 DEF ServerInv
<1>4. Cardinality(Issued') <= logins' + Cardinality(stale' \ live') /\ logins' \in 0 .. MaxLogins
  <2>1. Cardinality(stale' \ live') = Cardinality(stale \ live)
    BY <1>3
  <2>2. Cardinality(Issued) <= logins + Cardinality(stale \ live) /\ logins \in 0 .. MaxLogins
    BY DEF ServerInv
  <2>3. QED
    BY <1>2, <2>1, <2>2, IssuedOnes, Bounds
<1>5. ServerInv'
  BY <1>2, <1>4 DEF ServerInv
<1>6. \A k \in Held : ~Good(k) => ~Good(k)'
  <2> SUFFICES ASSUME NEW k \in Held, k \in live', owner'[k] \notin blocked' PROVE Good(k)
    BY DEF Good
  <2>1. k \in live
    BY <1>1, Bounds DEF Held
  <2>2. QED
    BY <1>2, <2>1 DEF Good, ServerInv
<1>7. QED
  BY <1>2, <1>5, <1>6 DEF Grows

\* Nothing is handed out: tokens expire, sessions end, users are blocked.
LEMMA NoTokenInv ==
  ASSUME ServerInv, owner' = owner, live' \subseteq live,
         stale \subseteq stale', stale' \subseteq Issued, Cardinality(stale') <= MaxStale,
         blocked \subseteq blocked', blocked' \subseteq User, barred' \subseteq User,
         logins' = logins, upsets' \in 0 .. MaxUpsets
  PROVE  ServerInv' /\ Grows
<1>1. Issued' = Issued
  BY DEF Issued
<1>2. stale' \ live' \subseteq Token /\ stale \ live \subseteq stale' \ live'
  BY IssuedOnes
<1>3. IsFiniteSet(stale' \ live')
  BY <1>2, TokensFinite, FS_Subset
<1>4. /\ Cardinality(stale \ live) <= Cardinality(stale' \ live')
      /\ Cardinality(stale' \ live') \in Nat
  BY <1>2, <1>3, FS_Subset, FS_CardinalityType
<1>5. Cardinality(Issued') <= logins' + Cardinality(stale' \ live')
  BY <1>1, <1>4, IssuedOnes, Bounds DEF ServerInv
<1>6. ServerInv'
  BY <1>1, <1>5 DEF ServerInv
<1>7. QED
  BY <1>1, <1>6 DEF Grows, Good

LEMMA ServerStays ==
  ASSUME ServerInv, UNCHANGED server, logins' = logins, upsets' \in 0 .. MaxUpsets
  PROVE  ServerInv' /\ Grows /\ Held' = Held
<1>1. /\ owner' = owner /\ live' = live /\ stale' = stale /\ blocked' = blocked /\ barred' = barred
  BY DEF server
<1>2. ServerInv' /\ Grows
  BY <1>1, NoTokenInv DEF ServerInv
<1>3. QED
  BY <1>1, <1>2 DEF Held, Issued

LEMMA HeldGrows == ASSUME Grows PROVE Held \subseteq Held' /\ Seq(Held) \subseteq Seq(Held')
<1>1. Held \subseteq Held'
  BY DEF Grows, Held
<1>2. QED
  BY <1>1

LEMMA ClientStays == ASSUME ClientInv, Grows, UNCHANGED <<disk, portal>> PROVE ClientInv'
<1>1. /\ file' = file /\ tmp' = tmp /\ mine' = mine /\ ipc' = ipc /\ shell' = shell
      /\ renewal' = renewal /\ leaving' = leaving
  BY DEF disk, portal
<1>2. /\ file' \in Held' /\ tmp' \in Held' /\ mine' \in Held' /\ ipc' \in Seq(Held')
      /\ renewal' \in [at : {"none", "sent", "got", "failed"}, tok : Held']
      /\ renewal'.at = "sent" => renewal'.tok \in stale'
  BY <1>1, HeldGrows DEF ClientInv, Grows
<1>3. QED
  BY <1>1, <1>2 DEF ClientInv

LEMMA EvaluatingStays ==
  \A x \in Application : Grows /\ Evaluating(x) => Evaluating(x)'
<1> SUFFICES ASSUME NEW x \in Application, Grows, Evaluating(x) PROVE Evaluating(x)'
  OBVIOUS
<1>1. x.tok \in Held /\ x.tok \in Held'
  BY HeldGrows DEF Evaluating
<1>2. QED
  BY <1>1 DEF Evaluating, Grows

\* The others' applications, when one of them takes a step.
LEMMA AppsStep ==
  ASSUME AppsInv, Grows, wake' \subseteq App,
         NEW i \in App, NEW x \in Application, Evaluating(x)', app' = [app EXCEPT ![i] = x]
  PROVE  AppsInv'
<1>1. app' \in [App -> Application]
  BY DEF AppsInv
<1>2. ASSUME NEW j \in App PROVE Evaluating(app[j])'
  <2>1. app'[j] \in Application /\ app[j] \in Application /\ Evaluating(app[j])
    BY <1>1 DEF AppsInv
  <2>2. CASE j = i
    BY <2>2, <1>1 DEF AppsInv, Evaluating, Good, Held, Issued
  <2>3. CASE j # i
    <3>1. app'[j] = app[j]
      BY <2>3 DEF AppsInv
    <3>2. \A y \in Application : Evaluating(y) => Evaluating(y)'
      BY EvaluatingStays
    <3>3. QED
      BY <2>1, <3>1, <3>2 DEF Evaluating, Good, Held, Issued
  <2>4. QED
    BY <2>2, <2>3
<1>3. QED
  BY <1>1, <1>2 DEF AppsInv

LEMMA AppsStay == ASSUME AppsInv, Grows, app' = app, wake' \subseteq App PROVE AppsInv'
<1>1. ASSUME NEW j \in App PROVE Evaluating(app[j])'
  <2>1. \A y \in Application : Evaluating(y) => Evaluating(y)'
    BY EvaluatingStays
  <2>2. QED
    BY <2>1 DEF AppsInv, Evaluating, Good, Held, Issued
<1>2. QED
  BY <1>1 DEF AppsInv

-----------------------------------------------------------------------------
(* The applications.                                                        *)

LEMMA ShowStep ==
  ASSUME ServerInv, AppsInv, Grows, wake' \subseteq App, NEW i \in App, NEW w \in Windows,
         w \in {"granted", "denied"} => app[i].tok # None, Show(i, w)
  PROVE  AppsInv'
<1>1. app[i].win = w \/ WindowUser(i, w) \in User \cup {None}
  BY DEF WindowUser, ServerInv, AppsInv, Application
<1>2. app[i].user \in User \cup {None}
  BY DEF AppsInv, Application
<1>3. PICK v \in User \cup {None} : v = IF app[i].win = w THEN app[i].user ELSE WindowUser(i, w)
  BY <1>1, <1>2
<1> DEFINE x == [at |-> "idle", tok |-> None, cut |-> FALSE, armed |-> TRUE, win |-> w, user |-> v]
<1>4. x \in Application
  BY DEF Application, Places
<1>5. Evaluating(x)'
  BY DEF Evaluating, Held, Working, Requests
<1>6. app' = [app EXCEPT ![i] = x]
  BY <1>3 DEF Show, Ended
<1> HIDE DEF x
<1>7. QED
  BY <1>4, <1>5, <1>6, AppsStep

LEMMA MoveStep ==
  ASSUME AppsInv, Grows, wake' \subseteq App, NEW i \in App, NEW at \in Places, Move(i, at),
         app[i].tok # None, at = "refresh" => app[i].tok \in stale',
         at = "wipe" => ~Good(app[i].tok)
  PROVE  AppsInv'
<1>1. app[i] \in Application /\ Evaluating(app[i])
  BY DEF AppsInv
<1>2. PICK x \in Application : x = [app[i] EXCEPT !.at = at]
  BY <1>1 DEF Application
<1>3. app' = [app EXCEPT ![i] = x] /\ x.tok = app[i].tok /\ x.at = at
  BY <1>1, <1>2 DEF Move, Application
<1>4. x.tok \in Held /\ x.tok \in Held'
  BY <1>1, <1>3, HeldGrows DEF Evaluating
<1>5. x.at = "refresh" => x.tok \in stale'
  BY <1>3
<1>6. x.at = "wipe" => ~Good(x.tok)
  BY <1>3
<1>7. Evaluating(x)'
  BY <1>3, <1>4, <1>5, <1>6 DEF Evaluating, Grows
<1>8. QED
  BY <1>3, <1>7, AppsStep

LEMMA TokStep ==
  ASSUME AppsInv, Grows, wake' \subseteq App, NEW i \in App, NEW at \in Places \ {"refresh", "wipe"},
         NEW tk \in Token \cup {None}, tk \in Held', at \in Working => tk # None,
         app' = [app EXCEPT ![i].at = at, ![i].tok = tk]
  PROVE  AppsInv'
<1>1. app[i] \in Application
  BY DEF AppsInv
<1>2. PICK x \in Application : x = [app[i] EXCEPT !.at = at, !.tok = tk]
  BY <1>1 DEF Application
<1>3. app' = [app EXCEPT ![i] = x] /\ x.tok = tk /\ x.at = at
  BY <1>1, <1>2 DEF AppsInv, Application
<1>4. Evaluating(x)'
  BY <1>3 DEF Evaluating
<1>5. QED
  BY <1>3, <1>4, AppsStep

LEMMA LoadStep ==
  ASSUME ServerInv, ClientInv, AppsInv, Grows, wake' \subseteq App, NEW i \in App, Load(i) PROVE AppsInv'
<1>1. CASE file = None
  BY <1>1, ShowStep DEF Load, Windows
<1>2. CASE file # None
  <2>1. app' = [app EXCEPT ![i].at = "me", ![i].tok = file]
    BY <1>2 DEF Load
  <2>2. file \in Token \cup {None} /\ file \in Held'
    BY HeldGrows DEF ClientInv, Held, Issued
  <2>3. "me" \in Places \ {"refresh", "wipe"}
    BY DEF Places, Requests
  <2>4. QED
    BY <1>2, <2>1, <2>2, <2>3, TokStep
<1>3. QED
  BY <1>1, <1>2

LEMMA FileBecomesWakes ==
  ASSUME AppsInv, NEW tk, FileBecomes(tk) PROVE file' = tk /\ wake' \subseteq App
BY DEF AppsInv, FileBecomes, Armed

-----------------------------------------------------------------------------
(* The portal and its shell.                                                *)

LEMMA SayStep ==
  ASSUME ClientInv, Grows, NEW order, order \in Held', Say(order)
  PROVE  /\ ipc' \in Seq(Held') /\ shell' = shell
         /\ shell' = "rename" => ipc' # <<>> /\ Head(ipc') # None
<1>1. ipc \in Seq(Held') /\ ipc' = Append(ipc, order) /\ shell' = shell
  BY HeldGrows DEF ClientInv, Say
<1>2. ipc' \in Seq(Held') /\ ipc' # <<>>
  BY <1>1
<1>3. ipc # <<>> => Head(ipc') = Head(ipc)
  BY <1>1
<1>4. QED
  BY <1>1, <1>2, <1>3 DEF ClientInv

LEMMA TailHeld ==
  ASSUME ClientInv, Grows, ipc # <<>> PROVE Tail(ipc) \in Seq(Held') /\ Head(ipc) \in Held'
<1>1. ipc \in Seq(Held')
  BY HeldGrows DEF ClientInv
<1>2. QED
  BY <1>1

\* A step of the portal that leaves the disk alone and sends an order.
LEMMA PortalStep ==
  ASSUME ClientInv, Grows, UNCHANGED disk, mine' \in Held', leaving' \in BOOLEAN,
         renewal' = renewal \/ renewal' = [at |-> "none", tok |-> None],
         NEW order, order \in Held', Say(order)
  PROVE  ClientInv'
<1>1. /\ ipc' \in Seq(Held') /\ shell' = shell
      /\ shell' = "rename" => ipc' # <<>> /\ Head(ipc') # None
  BY SayStep
<1>2. file' \in Held' /\ tmp' \in Held'
  BY HeldGrows DEF ClientInv, disk
<1>3. /\ renewal' \in [at : {"none", "sent", "got", "failed"}, tok : Held']
      /\ renewal'.at = "sent" => renewal'.tok \in stale'
      /\ renewal'.at \in {"none", "failed"} => renewal'.tok = None
  <2>1. CASE renewal' = renewal
    BY <2>1, HeldGrows DEF ClientInv, Grows
  <2>2. CASE renewal' = [at |-> "none", tok |-> None]
    BY <2>2 DEF Held
  <2>3. QED
    BY <2>1, <2>2
<1>4. QED
  BY <1>1, <1>2, <1>3 DEF ClientInv

\* A step of the portal's refresh that nobody else notices.
LEMMA RenewalStep ==
  ASSUME ClientInv, Grows, UNCHANGED <<disk, mine, ipc, shell, leaving>>,
         renewal' \in [at : {"none", "sent", "got", "failed"}, tok : Held'],
         renewal'.at = "sent" => renewal'.tok \in stale',
         renewal'.at \in {"none", "failed"} => renewal'.tok = None
  PROVE  ClientInv'
<1>1. file' \in Held' /\ tmp' \in Held' /\ mine' \in Held' /\ ipc' \in Seq(Held')
  BY HeldGrows DEF ClientInv, disk
<1>2. QED
  BY <1>1 DEF ClientInv

-----------------------------------------------------------------------------
(* The steps, those of the server first.                                    *)

LEMMA InitInv == Init => Inv
<1> SUFFICES ASSUME Init PROVE Inv
  OBVIOUS
<1>1. Issued = {} /\ stale = {} /\ live = {} /\ stale \ live = {}
  BY Bounds DEF Init, Issued
<1>2. Cardinality({}) = 0
  BY FS_EmptySet
<1>3. ServerInv
  BY <1>1, <1>2, Bounds DEF Init, ServerInv
<1>4. ClientInv
  <2>1. ipc = <<>> /\ <<>> \in Seq(Held)
    BY DEF Init
  <2>2. renewal = [at |-> "none", tok |-> None] /\ None \in Held
    BY DEF Init, Held
  <2>3. renewal \in [at : {"none", "sent", "got", "failed"}, tok : Held]
    BY <2>2
  <2>4. file = None /\ tmp = None /\ mine = None /\ shell = "ready" /\ leaving = FALSE
    BY DEF Init
  <2>5. QED
    BY <2>1, <2>2, <2>3, <2>4 DEF ClientInv
<1>5. AppsInv
  BY DEF Init, AppsInv, Application, Evaluating, Working, Requests, Held, Places, Windows
<1>6. QED
  BY <1>3, <1>4, <1>5 DEF Inv

\* A step of the server alone: the machine keeps what it holds.
LEMMA MachineStays ==
  ASSUME Inv, ServerInv', Grows, UNCHANGED <<disk, portal, apps>> PROVE Inv'
<1>1. ClientInv'
  BY ClientStays DEF Inv
<1>2. app' = app /\ wake' \subseteq App
  BY DEF Inv, AppsInv, apps
<1>3. AppsInv'
  BY <1>2, AppsStay DEF Inv
<1>4. QED
  BY <1>1, <1>3 DEF Inv

LEMMA BlockStep == ASSUME Inv, NEW u \in User, Block(u) \/ Bar(u) PROVE Inv'
<1>1. /\ owner' = owner /\ live' = live /\ stale' = stale /\ blocked \subseteq blocked'
      /\ blocked' \subseteq User /\ barred' \subseteq User /\ logins' = logins
      /\ upsets' \in 0 .. MaxUpsets
  BY Bounds DEF Inv, ServerInv, Block, Bar, Upset
<1>2. ServerInv' /\ Grows
  BY <1>1, NoTokenInv DEF Inv, ServerInv
<1>3. UNCHANGED <<disk, portal, apps>>
  BY DEF Block, Bar
<1>4. QED
  BY <1>2, <1>3, MachineStays

LEMMA AccessExpiresStep == ASSUME Inv, NEW t \in Token, AccessExpires(t) PROVE Inv'
<1>1. /\ t \in Issued \ stale /\ Cardinality(stale) < MaxStale /\ stale' = stale \cup {t}
      /\ owner' = owner /\ live' = live /\ blocked' = blocked /\ barred' = barred
      /\ logins' = logins /\ upsets' = upsets /\ UNCHANGED <<disk, portal, apps>>
  BY DEF AccessExpires
<1>2. Cardinality(stale') = Cardinality(stale) + 1 /\ Cardinality(stale) \in Nat
  BY <1>1, IssuedOnes, FS_AddElement DEF Inv
<1>3. Cardinality(stale') <= MaxStale
  BY <1>1, <1>2, Bounds
<1>4. ServerInv' /\ Grows
  BY <1>1, <1>3, NoTokenInv DEF Inv, ServerInv
<1>5. QED
  BY <1>1, <1>4, MachineStays

LEMMA LoginStep == ASSUME Inv, NEW u \in User, Login(u) PROVE Inv'
<1>1. /\ u \in User \ blocked /\ logins < MaxLogins /\ HandOut(Fresh, u) /\ live' = live \cup {Fresh}
      /\ mine' = Fresh /\ Say(Fresh) /\ logins' = logins + 1
      /\ UNCHANGED <<stale, blocked, barred, disk, renewal, leaving, apps, upsets>>
  BY DEF Login
<1>2. ServerInv' /\ Grows /\ Fresh \in Held'
  BY <1>1, LoginInv DEF Inv, Held
<1>3. mine' \in Held' /\ leaving' \in BOOLEAN /\ ClientInv
  BY <1>1, <1>2 DEF Inv, ClientInv
<1>4. ClientInv'
  BY <1>1, <1>2, <1>3, PortalStep
<1>5. AppsInv'
  BY <1>1, <1>2, AppsStay DEF Inv, AppsInv, apps
<1>6. QED
  BY <1>2, <1>4, <1>5 DEF Inv

\* The server is not asked, or says no.
LEMMA ServerQuiet ==
  ASSUME Inv, UNCHANGED server, logins' = logins, upsets' = upsets
  PROVE  ServerInv' /\ Grows /\ Held' = Held
<1>1. upsets' \in 0 .. MaxUpsets
  BY DEF Inv, ServerInv
<1>2. QED
  BY <1>1, ServerStays DEF Inv

LEMMA StartRenewalStep == ASSUME Inv, StartRenewal PROVE Inv'
<1>0. UNCHANGED server /\ logins' = logins /\ upsets' = upsets
  BY DEF StartRenewal
<1>1. ServerInv' /\ Grows /\ Held' = Held
  BY <1>0, ServerQuiet
<1>2. /\ UNCHANGED <<disk, mine, ipc, shell, leaving>> /\ UNCHANGED apps
      /\ renewal' = [at |-> "sent", tok |-> mine] /\ mine \in stale /\ stale' = stale
  BY DEF StartRenewal, server
<1>3. mine \in Held
  BY DEF Inv, ClientInv
<1>4. ClientInv'
  BY <1>1, <1>2, <1>3, RenewalStep DEF Inv
<1>5. AppsInv'
  BY <1>1, <1>2, AppsStay DEF Inv, AppsInv, apps
<1>6. QED
  BY <1>1, <1>4, <1>5 DEF Inv

LEMMA AnswerRenewalStep == ASSUME Inv, AnswerRenewal PROVE Inv'
<1>1. /\ UNCHANGED <<stale, blocked, barred, disk, mine, ipc, shell, leaving, apps, logins>>
      /\ renewal.tok \in stale
      /\ upsets' \in 0 .. MaxUpsets
  BY Bounds DEF AnswerRenewal, Upset, Inv, ClientInv, ServerInv
<1>2. \/ /\ Good(renewal.tok) /\ Rotates(renewal.tok)
         /\ renewal' \in {[at |-> "got", tok |-> Fresh], [at |-> "failed", tok |-> None]}
      \/ /\ UNCHANGED <<owner, live>> /\ renewal' = [at |-> "failed", tok |-> None]
  BY DEF AnswerRenewal
<1>3. /\ ServerInv' /\ Grows
      /\ renewal' \in [at : {"none", "sent", "got", "failed"}, tok : Held']
      /\ renewal'.at # "sent" /\ (renewal'.at \in {"none", "failed"} => renewal'.tok = None)
  <2>1. CASE /\ Good(renewal.tok) /\ Rotates(renewal.tok)
             /\ renewal' \in {[at |-> "got", tok |-> Fresh], [at |-> "failed", tok |-> None]}
    <3>1. renewal.tok \in live \cap stale /\ owner[renewal.tok] \notin blocked
      BY <1>1, <2>1 DEF Good
    <3>2. ServerInv' /\ Grows /\ Fresh \in Held'
      BY <1>1, <2>1, <3>1, RotateInv DEF Inv, Held
    <3>3. None \in Held'
      BY DEF Held
    <3>4. QED
      BY <2>1, <3>2, <3>3
  <2>2. CASE UNCHANGED <<owner, live>> /\ renewal' = [at |-> "failed", tok |-> None]
    <3>1. ServerInv' /\ Grows
      BY <1>1, <2>2, ServerStays DEF Inv, server
    <3>2. None \in Held'
      BY DEF Held
    <3>3. QED
      BY <2>2, <3>1, <3>2
  <2>3. QED
    BY <1>2, <2>1, <2>2
<1>4. ClientInv'
  BY <1>1, <1>3, RenewalStep DEF Inv
<1>5. AppsInv'
  BY <1>1, <1>3, AppsStay DEF Inv, AppsInv, apps
<1>6. QED
  BY <1>3, <1>4, <1>5 DEF Inv

LEMMA FinishRenewalStep == ASSUME Inv, FinishRenewal PROVE Inv'
<1>0. UNCHANGED server /\ logins' = logins /\ upsets' = upsets
  BY DEF FinishRenewal
<1>1. ServerInv' /\ Grows /\ Held' = Held
  BY <1>0, ServerQuiet
<1>2. /\ UNCHANGED <<disk, leaving>> /\ UNCHANGED apps /\ mine' = renewal.tok /\ Say(renewal.tok)
      /\ renewal' = [at |-> "none", tok |-> None]
  BY DEF FinishRenewal
<1>3. renewal.tok \in Held /\ leaving' \in BOOLEAN
  BY <1>2 DEF Inv, ClientInv
<1>4. ClientInv'
  BY <1>1, <1>2, <1>3, PortalStep DEF Inv
<1>5. AppsInv'
  BY <1>1, <1>2, AppsStay DEF Inv, AppsInv, apps
<1>6. QED
  BY <1>1, <1>4, <1>5 DEF Inv

LEMMA LogoutCallStep == ASSUME Inv, LogoutCall PROVE Inv'
<1>1. /\ owner' = owner /\ live' \subseteq live /\ stale' = stale /\ blocked' = blocked /\ barred' = barred
      /\ logins' = logins /\ upsets' = upsets /\ leaving' = TRUE
      /\ UNCHANGED <<disk, mine, ipc, shell, renewal>> /\ UNCHANGED apps
  BY DEF LogoutCall
<1>2. ServerInv' /\ Grows
  BY <1>1, NoTokenInv DEF Inv, ServerInv
<1>3. ClientInv'
  <2>1. /\ file' \in Held' /\ tmp' \in Held' /\ mine' \in Held' /\ ipc' \in Seq(Held')
        /\ renewal' \in [at : {"none", "sent", "got", "failed"}, tok : Held']
    BY <1>1, <1>2, HeldGrows DEF Inv, ClientInv, disk
  <2>2. QED
    BY <1>1, <2>1 DEF Inv, ClientInv
<1>4. AppsInv'
  BY <1>1, <1>2, AppsStay DEF Inv, AppsInv, apps
<1>5. QED
  BY <1>2, <1>3, <1>4 DEF Inv

LEMMA LogoutStoreStep == ASSUME Inv, LogoutStore PROVE Inv'
<1>0. UNCHANGED server /\ logins' = logins /\ upsets' = upsets
  BY DEF LogoutStore
<1>1. ServerInv' /\ Grows /\ Held' = Held
  BY <1>0, ServerQuiet
<1>2. /\ UNCHANGED disk /\ UNCHANGED apps /\ mine' = None /\ Say(None)
      /\ renewal' = renewal /\ leaving' = FALSE
  BY DEF LogoutStore
<1>3. None \in Held'
  BY DEF Held
<1>4. ClientInv'
  BY <1>1, <1>2, <1>3, PortalStep DEF Inv
<1>5. AppsInv'
  BY <1>1, <1>2, AppsStay DEF Inv, AppsInv, apps
<1>6. QED
  BY <1>1, <1>4, <1>5 DEF Inv

LEMMA ReloadStep == ASSUME Inv, Reload PROVE Inv'
<1>0. UNCHANGED server /\ logins' = logins /\ upsets' = upsets
  BY DEF Reload
<1>1. ServerInv' /\ Grows /\ Held' = Held
  BY <1>0, ServerQuiet
<1>2. /\ UNCHANGED disk /\ UNCHANGED apps /\ mine' = mine /\ Say(mine)
      /\ renewal' = [at |-> "none", tok |-> None] /\ leaving' = FALSE
  BY DEF Reload
<1>3. mine \in Held'
  BY <1>1 DEF Inv, ClientInv
<1>4. ClientInv'
  BY <1>1, <1>2, <1>3, PortalStep DEF Inv
<1>5. AppsInv'
  BY <1>1, <1>2, AppsStay DEF Inv, AppsInv, apps
<1>6. QED
  BY <1>1, <1>4, <1>5 DEF Inv

LEMMA ShellWriteStep == ASSUME Inv, ShellWrite PROVE Inv'
<1>0. UNCHANGED server /\ logins' = logins /\ upsets' = upsets
  BY DEF ShellWrite
<1>1. ServerInv' /\ Grows /\ Held' = Held
  BY <1>0, ServerQuiet
<1>2. /\ ipc # <<>> /\ Head(ipc) # None /\ tmp' = Head(ipc) /\ shell' = "rename" /\ UNCHANGED apps
      /\ file' = file /\ mine' = mine /\ ipc' = ipc /\ renewal' = renewal /\ leaving' = leaving
      /\ stale' = stale
  BY DEF ShellWrite, server
<1>3. Head(ipc) \in Held
  BY <1>1, <1>2, TailHeld DEF Inv
<1>4. ClientInv'
  BY <1>1, <1>2, <1>3 DEF Inv, ClientInv
<1>5. AppsInv'
  BY <1>1, <1>2, AppsStay DEF Inv, AppsInv, apps
<1>6. QED
  BY <1>1, <1>4, <1>5 DEF Inv

LEMMA ShellRenameStep == ASSUME Inv, ShellRename PROVE Inv'
<1>0. UNCHANGED server /\ logins' = logins /\ upsets' = upsets
  BY DEF ShellRename
<1>1. ServerInv' /\ Grows /\ Held' = Held
  BY <1>0, ServerQuiet
<1>2. /\ shell' = "ready" /\ mine' = mine /\ renewal' = renewal /\ leaving' = leaving /\ app' = app
      /\ stale' = stale /\ ipc # <<>>
      /\ \/ FileBecomes(tmp) /\ tmp' = None /\ ipc' = Tail(ipc)
         \/ /\ ipc' \in {Tail(ipc)} \cup {Append(Tail(ipc), t) : t \in {mine} \ {None}}
            /\ file' = file /\ tmp' = tmp /\ wake' = wake
  BY DEF ShellRename, Inv, ClientInv, disk, server
<1>3. Tail(ipc) \in Seq(Held) /\ mine \in Held /\ tmp \in Held /\ file \in Held /\ None \in Held
  BY <1>1, <1>2, TailHeld DEF Inv, ClientInv, Held
<1>4. ipc' \in Seq(Held)
  BY <1>2, <1>3
<1>5. file' \in Held /\ tmp' \in Held /\ wake' \subseteq App
  BY <1>2, <1>3, FileBecomesWakes DEF Inv, AppsInv
<1>6. ClientInv'
  BY <1>1, <1>2, <1>3, <1>4, <1>5 DEF Inv, ClientInv
<1>7. AppsInv'
  BY <1>1, <1>2, <1>5, AppsStay DEF Inv
<1>8. QED
  BY <1>1, <1>6, <1>7 DEF Inv

LEMMA ShellClearStep == ASSUME Inv, ShellClear PROVE Inv'
<1>0. UNCHANGED server /\ logins' = logins /\ upsets' = upsets
  BY DEF ShellClear
<1>1. ServerInv' /\ Grows /\ Held' = Held
  BY <1>0, ServerQuiet
<1>2. /\ shell' = shell /\ tmp' = tmp /\ mine' = mine /\ renewal' = renewal /\ leaving' = leaving
      /\ app' = app /\ stale' = stale /\ ipc # <<>> /\ Head(ipc) = None /\ ipc' = Tail(ipc)
      /\ FileBecomes(None) \/ (file' = file /\ wake' = wake)
  BY DEF ShellClear, server
<1>3. ipc' \in Seq(Held) /\ tmp \in Held /\ file \in Held /\ None \in Held
  BY <1>1, <1>2, TailHeld DEF Inv, ClientInv, Held
<1>4. shell' = "ready"
  BY <1>2 DEF Inv, ClientInv
<1>5. file' \in Held /\ wake' \subseteq App
  BY <1>2, <1>3, FileBecomesWakes DEF Inv, AppsInv
<1>6. ClientInv'
  BY <1>1, <1>2, <1>3, <1>4, <1>5 DEF Inv, ClientInv
<1>7. AppsInv'
  BY <1>1, <1>2, <1>5, AppsStay DEF Inv
<1>8. QED
  BY <1>1, <1>6, <1>7 DEF Inv

-----------------------------------------------------------------------------
(* The steps of an application.                                             *)

LEMMA DiskStep ==
  ASSUME ClientInv, Grows, UNCHANGED portal, file' \in Held', tmp' \in Held' PROVE ClientInv'
<1>1. /\ mine' = mine /\ ipc' = ipc /\ shell' = shell /\ renewal' = renewal /\ leaving' = leaving
  BY DEF portal
<1>2. /\ mine' \in Held' /\ ipc' \in Seq(Held')
      /\ renewal' \in [at : {"none", "sent", "got", "failed"}, tok : Held']
      /\ renewal'.at = "sent" => renewal'.tok \in stale'
  BY <1>1, HeldGrows DEF ClientInv, Grows
<1>3. QED
  BY <1>1, <1>2 DEF ClientInv

\* An application moves on without the server or the file.
LEMMA LookStep ==
  ASSUME Inv, NEW i \in App, UNCHANGED server, logins' = logins, upsets' \in 0 .. MaxUpsets,
         UNCHANGED <<disk, portal>>, Grows => AppsInv'
  PROVE  Inv'
<1>1. ServerInv' /\ Grows
  BY ServerStays DEF Inv
<1>2. ClientInv'
  BY <1>1, ClientStays DEF Inv
<1>3. QED
  BY <1>1, <1>2 DEF Inv

LEMMA LoadsStep == ASSUME Inv, NEW i \in App, Start(i) \/ Notice(i) \/ Recheck(i) PROVE Inv'
<1>1. UNCHANGED server /\ logins' = logins /\ upsets' = upsets /\ UNCHANGED <<disk, portal>>
  BY DEF Start, Notice, Recheck
<1>2. upsets' \in 0 .. MaxUpsets /\ wake' \subseteq App
  BY <1>1 DEF Start, Notice, Recheck, Inv, ServerInv, AppsInv
<1>3. Load(i) \/ app' = app
  BY DEF Start, Notice, Recheck
<1>4. Grows => AppsInv'
  BY <1>2, <1>3, LoadStep, AppsStay DEF Inv
<1>5. QED
  BY <1>1, <1>2, <1>4, LookStep

\* What the server and the machine are left with, and the four places an
\* application can go from there.
LEMMA FaultServer ==
  ASSUME Inv, NEW i \in App, Fault(i)
  PROVE  /\ ServerInv' /\ Grows /\ ClientInv' /\ wake' \subseteq App
         /\ app[i] \in Application /\ Evaluating(app[i]) /\ app[i].tok # None
<1>1. /\ UNCHANGED <<stale, blocked, barred, disk, portal, wake, logins>> /\ upsets' \in 0 .. MaxUpsets
      /\ app[i] \in Application /\ Evaluating(app[i]) /\ app[i].at \in Requests
  <2>1. upsets < MaxUpsets
    BY Bounds DEF Fault, Upset, Inv, ServerInv
  <2>2. QED
    BY <2>1, Bounds DEF Fault, Upset, Inv, AppsInv, ServerInv
<1>2. \/ UNCHANGED <<owner, live>>
      \/ app[i].at = "refresh" /\ Good(app[i].tok) /\ Rotates(app[i].tok)
  BY DEF Fault
<1>3. ServerInv' /\ Grows
  <2>1. CASE UNCHANGED <<owner, live>>
    BY <1>1, <2>1, ServerStays DEF Inv, server
  <2>2. CASE app[i].at = "refresh" /\ Good(app[i].tok) /\ Rotates(app[i].tok)
    <3>1. app[i].tok \in live \cap stale /\ owner[app[i].tok] \notin blocked
      BY <1>1, <2>2 DEF Evaluating, Good
    <3>2. QED
      BY <1>1, <2>2, <3>1, RotateInv DEF Inv
  <2>3. QED
    BY <1>2, <2>1, <2>2
<1>4. ClientInv'
  BY <1>1, <1>3, ClientStays DEF Inv
<1>5. QED
  BY <1>1, <1>3, <1>4 DEF Inv, AppsInv, Evaluating, Working

LEMMA FaultStep == ASSUME Inv, NEW i \in App, Lose(i) \/ Fail(i) \/ Stall(i) PROVE Inv'
<1>1. Fault(i)
  BY DEF Lose, Fail, Stall
<1>2. /\ ServerInv' /\ Grows /\ ClientInv' /\ wake' \subseteq App
      /\ app[i] \in Application /\ Evaluating(app[i]) /\ app[i].tok # None
  BY <1>1, FaultServer
<1>3. /\ {"down", "denied"} \subseteq Windows /\ "hung" \in Places \ ({"refresh", "wipe"} \cup Working)
      /\ None \in Token \cup {None} /\ None \in Held'
  BY DEF Windows, Places, Working, Requests, Held
<1>4. CASE \E w \in {"down", "denied"} : Show(i, w)
  BY <1>2, <1>3, <1>4, ShowStep DEF Inv
<1>5. CASE WipeAfterFault(i)
  <2>1. PICK x \in Application : x = [app[i] EXCEPT !.at = "wipe", !.tok = None, !.cut = TRUE]
    <3>1. PICK b \in BOOLEAN : b = TRUE
      OBVIOUS
    <3>2. [app[i] EXCEPT !.at = "wipe", !.tok = None, !.cut = b] \in Application
      BY <1>2, <3>1 DEF Application, Places
    <3>3. QED
      BY <3>1, <3>2
  <2>2. app' = [app EXCEPT ![i] = x] /\ x.tok = None /\ x.at = "wipe" /\ x.cut = TRUE
    BY <1>2, <1>5, <2>1 DEF WipeAfterFault, Inv, AppsInv, Application
  <2>3. Evaluating(x)'
    BY <1>3, <2>2 DEF Evaluating, Working, Requests
  <2>4. AppsInv'
    BY <1>2, <2>2, <2>3, AppsStep DEF Inv
  <2>5. QED
    BY <1>2, <2>4 DEF Inv
<1>6. CASE app' = [app EXCEPT ![i].at = "hung", ![i].tok = None]
  BY <1>2, <1>3, <1>6, TokStep DEF Inv
<1>7. QED
  BY <1>4, <1>5, <1>6 DEF Lose, Fail, Stall

LEMMA FetchMeStep == ASSUME Inv, NEW i \in App, FetchMe(i) PROVE Inv'
<1>1. UNCHANGED server /\ logins' = logins /\ upsets' = upsets /\ UNCHANGED <<disk, portal>> /\ wake' = wake
  BY DEF FetchMe
<1>2. upsets' \in 0 .. MaxUpsets /\ wake' \subseteq App /\ app[i].tok # None
  BY <1>1 DEF FetchMe, Inv, ServerInv, AppsInv, Evaluating, Working, Requests
<1>3. \E at \in Places : /\ Move(i, at)
                         /\ at = "refresh" => app[i].tok \in stale'
                         /\ at = "wipe" => ~Good(app[i].tok)
  BY <1>1 DEF FetchMe, Good, Places, Requests, server
<1>4. Grows => AppsInv'
  BY <1>2, <1>3, MoveStep DEF Inv
<1>5. QED
  BY <1>1, <1>2, <1>4, LookStep

LEMMA RefreshStep == ASSUME Inv, NEW i \in App, Refresh(i) PROVE Inv'
<1>1. /\ UNCHANGED <<stale, blocked, barred, disk, portal, wake, logins, upsets>>
      /\ app[i].at = "refresh" /\ wake' \subseteq App /\ upsets' \in 0 .. MaxUpsets
      /\ app[i].tok # None
  BY DEF Refresh, Inv, AppsInv, ServerInv, Evaluating, Working, Requests
<1>2. CASE Good(app[i].tok)
  <2>1. Rotates(app[i].tok) /\ app' = [app EXCEPT ![i].at = "write", ![i].tok = Fresh]
    BY <1>2 DEF Refresh
  <2>2. app[i].tok \in live \cap stale /\ owner[app[i].tok] \notin blocked
    BY <1>1, <1>2 DEF Inv, AppsInv, Evaluating, Good
  <2>3. ServerInv' /\ Grows /\ Fresh \in Issued'
    BY <1>1, <2>1, <2>2, RotateInv DEF Inv
  <2>4. /\ Fresh \in Held' /\ Fresh \in Token /\ Fresh # None
        /\ "write" \in Places \ {"refresh", "wipe"}
    BY <2>3, Bounds DEF Held, Issued, Places
  <2>5. AppsInv'
    BY <1>1, <2>1, <2>3, <2>4, TokStep DEF Inv
  <2>6. ClientInv'
    BY <1>1, <2>3, ClientStays DEF Inv
  <2>7. QED
    BY <2>3, <2>5, <2>6 DEF Inv
<1>3. CASE ~Good(app[i].tok)
  <2>1. UNCHANGED server /\ logins' = logins /\ UNCHANGED <<disk, portal>> /\ Move(i, "wipe")
    BY <1>3 DEF Refresh, server
  <2>2. "wipe" \in Places
    BY DEF Places
  <2>3. Grows => AppsInv'
    BY <1>1, <1>3, <2>1, <2>2, MoveStep DEF Inv
  <2>4. QED
    BY <1>1, <2>1, <2>3, LookStep
<1>4. QED
  BY <1>2, <1>3

LEMMA WriteStep == ASSUME Inv, NEW i \in App, Write(i) PROVE Inv'
<1>1. /\ UNCHANGED server /\ logins' = logins /\ upsets' = upsets /\ UNCHANGED portal
      /\ file' = file /\ tmp' = app[i].tok /\ Move(i, "rename") /\ wake' = wake /\ app[i].tok # None
  BY DEF Write, Inv, AppsInv, Evaluating, Working
<1>2. ServerInv' /\ Grows /\ Held' = Held
  BY <1>1, ServerQuiet
<1>3. file' \in Held' /\ tmp' \in Held' /\ wake' \subseteq App
  BY <1>1, <1>2 DEF Inv, ClientInv, AppsInv, Evaluating
<1>4. ClientInv'
  BY <1>1, <1>2, <1>3, DiskStep DEF Inv
<1>5. "rename" \in Places
  BY DEF Places
<1>6. AppsInv'
  BY <1>1, <1>2, <1>3, <1>5, MoveStep DEF Inv
<1>7. QED
  BY <1>2, <1>4, <1>6 DEF Inv

LEMMA RenameStep == ASSUME Inv, NEW i \in App, Rename(i) PROVE Inv'
<1>1. UNCHANGED server /\ logins' = logins /\ upsets' = upsets /\ UNCHANGED portal
  BY DEF Rename
<1>2. ServerInv' /\ Grows /\ Held' = Held
  BY <1>1, ServerQuiet
<1>3. \/ FileBecomes(tmp) /\ tmp' = None /\ Move(i, "confirm")
      \/ /\ app' = [app EXCEPT ![i].at = "idle", ![i].tok = None]
         /\ file' = file /\ tmp' = tmp /\ wake' = wake
  BY DEF Rename, disk
<1>4. file' \in Held' /\ tmp' \in Held' /\ wake' \subseteq App
  BY <1>2, <1>3, FileBecomesWakes DEF Inv, ClientInv, AppsInv, Held
<1>5. ClientInv'
  BY <1>1, <1>2, <1>4, DiskStep DEF Inv
<1>6. /\ "confirm" \in Places /\ "idle" \in Places \ ({"refresh", "wipe"} \cup Working)
      /\ None \in Token \cup {None} /\ None \in Held' /\ app[i].tok # None
  BY DEF Places, Requests, Working, Held, Rename, Inv, AppsInv, Evaluating
<1>7. AppsInv'
  <2>1. CASE Move(i, "confirm")
    BY <1>2, <1>4, <1>6, <2>1, MoveStep DEF Inv
  <2>2. CASE app' = [app EXCEPT ![i].at = "idle", ![i].tok = None]
    BY <1>2, <1>4, <1>6, <2>2, TokStep DEF Inv
  <2>3. QED
    BY <1>3, <2>1, <2>2
<1>8. QED
  BY <1>2, <1>5, <1>7 DEF Inv

LEMMA ConfirmStep == ASSUME Inv, NEW i \in App, Confirm(i) PROVE Inv'
<1>1. UNCHANGED server /\ logins' = logins /\ upsets' = upsets /\ UNCHANGED <<disk, portal>> /\ wake' = wake
  BY DEF Confirm
<1>2. /\ upsets' \in 0 .. MaxUpsets /\ wake' \subseteq App
      /\ app[i].tok # None
  BY <1>1 DEF Confirm, Inv, ServerInv, AppsInv, Evaluating, Working, Requests
<1>3. \E at \in Places : /\ Move(i, at) /\ at # "refresh"
                         /\ at = "wipe" => ~Good(app[i].tok)
  BY DEF Confirm, Good, Places, Requests
<1>4. Grows => AppsInv'
  BY <1>2, <1>3, MoveStep DEF Inv
<1>5. QED
  BY <1>1, <1>2, <1>4, LookStep

LEMMA WipeStep == ASSUME Inv, NEW i \in App, Wipe(i) PROVE Inv'
<1>1. /\ UNCHANGED server /\ logins' = logins /\ upsets' = upsets /\ UNCHANGED portal
      /\ tmp' = tmp /\ Show(i, "login")
      /\ FileBecomes(None) \/ (file' = file /\ wake' = wake)
  BY DEF Wipe
<1>2. ServerInv' /\ Grows /\ Held' = Held
  BY <1>1, ServerQuiet
<1>3. file' \in Held' /\ tmp' \in Held' /\ wake' \subseteq App
  BY <1>1, <1>2, FileBecomesWakes DEF Inv, ClientInv, AppsInv, Held
<1>4. ClientInv'
  BY <1>1, <1>2, <1>3, DiskStep DEF Inv
<1>5. "login" \in Windows
  BY DEF Windows
<1>6. AppsInv'
  BY <1>1, <1>2, <1>3, <1>5, ShowStep DEF Inv
<1>7. QED
  BY <1>2, <1>4, <1>6 DEF Inv

LEMMA CheckAccessStep == ASSUME Inv, NEW i \in App, CheckAccess(i) PROVE Inv'
<1>1. UNCHANGED server /\ logins' = logins /\ upsets' = upsets /\ UNCHANGED <<disk, portal>> /\ wake' = wake
  BY DEF CheckAccess
<1>2. upsets' \in 0 .. MaxUpsets /\ wake' \subseteq App /\ app[i].tok # None
  BY <1>1 DEF CheckAccess, Inv, ServerInv, AppsInv, Evaluating, Working, Requests
<1>3. \E w \in Windows : Show(i, w)
  BY DEF CheckAccess, Windows
<1>4. Grows => AppsInv'
  BY <1>2, <1>3, ShowStep DEF Inv
<1>5. QED
  BY <1>1, <1>2, <1>4, LookStep

-----------------------------------------------------------------------------

LEMMA NextInv == ASSUME Inv, [Next]_vars PROVE Inv'
<1>1. CASE UNCHANGED vars
  <2>1. UNCHANGED server /\ logins' = logins /\ upsets' = upsets /\ UNCHANGED <<disk, portal, apps>>
    BY <1>1 DEF vars
  <2>2. ServerInv' /\ Grows
    BY <2>1, ServerQuiet
  <2>3. QED
    BY <2>1, <2>2, MachineStays
<1>2. CASE \E u \in User : Block(u) \/ Bar(u) \/ Login(u)
  BY <1>2, BlockStep, LoginStep
<1>3. CASE \E t \in Token : AccessExpires(t)
  BY <1>3, AccessExpiresStep
<1>4. CASE StartRenewal \/ Renewal \/ LogoutCall \/ LogoutStore \/ Reload
  BY <1>4, StartRenewalStep, AnswerRenewalStep, FinishRenewalStep, LogoutCallStep, LogoutStoreStep,
     ReloadStep DEF Renewal
<1>5. CASE Shell
  BY <1>5, ShellWriteStep, ShellRenameStep, ShellClearStep DEF Shell
<1>6. CASE \E i \in App : Start(i) \/ Notice(i) \/ Recheck(i) \/ Lose(i) \/ Fail(i) \/ Stall(i)
  BY <1>6, LoadsStep, FaultStep
<1>7. CASE \E i \in App : Evaluate(i)
  BY <1>7, FetchMeStep, RefreshStep, WriteStep, RenameStep, ConfirmStep, WipeStep, CheckAccessStep
     DEF Evaluate
<1>8. QED
  BY <1>1, <1>2, <1>3, <1>4, <1>5, <1>6, <1>7 DEF Next

LEMMA InvAlways == Spec => []Inv
<1>1. Inv /\ [Next]_vars => Inv'
  BY NextInv
<1>2. QED
  BY InitInv, <1>1, PTL DEF Spec

\* Types: every token that the file, the portal, its shell or an application
\* holds is one the server has handed out.
THEOREM TypeCorrect == Spec => []TypeOK
<1>1. ASSUME Inv PROVE TypeOK
  <2>1. /\ owner \in [Token -> User \cup {None}] /\ blocked \cup barred \subseteq User
        /\ live \subseteq Issued /\ stale \subseteq Issued
        /\ logins \in 0 .. MaxLogins /\ upsets \in 0 .. MaxUpsets
    BY <1>1 DEF Inv, ServerInv
  <2>2. /\ {file, tmp, mine} \subseteq Issued \cup {None}
        /\ \A k \in DOMAIN ipc : ipc[k] \in Issued \cup {None}
        /\ shell \in {"ready", "rename"} /\ leaving \in BOOLEAN
        /\ renewal.at \in {"none", "sent", "got", "failed"} /\ renewal.tok \in Issued \cup {None}
    BY <1>1 DEF Inv, ClientInv, Held
  <2>3. /\ wake \subseteq App
        /\ app \in [App -> [at : Places, tok : Issued \cup {None}, cut : BOOLEAN, armed : BOOLEAN,
                            win : Windows, user : User \cup {None}]]
        /\ \A i \in App : app[i].at \in Requests => app[i].tok # None
    <3>1. ASSUME NEW i \in App
          PROVE  app[i] \in [at : Places, tok : Issued \cup {None}, cut : BOOLEAN, armed : BOOLEAN,
                             win : Windows, user : User \cup {None}]
      BY <1>1 DEF Inv, AppsInv, Application, Evaluating, Held
    <3>2. QED
      BY <1>1, <3>1 DEF Inv, AppsInv, Evaluating, Working
  <2>4. QED
    BY <2>1, <2>2, <2>3 DEF TypeOK
<1>2. QED
  BY <1>1, InvAlways, PTL

\* An application about to remove the shared session (iam-client.js:92, :103
\* and :110) has looked at one that the server refuses, unless it was told
\* something else than a 200 or a 401, or nothing when it confirmed a rotation.
THEOREM WipeTheorem == Spec => []WipeJustified
<1>1. Inv => WipeJustified
  BY DEF Inv, AppsInv, Evaluating, WipeJustified
<1>2. QED
  BY <1>1, InvAlways, PTL

\* When everybody is logged out and nothing is under way, only a login brings
\* a session back: not a late answer, a reload, the shell, or an application.
THEOREM LogoutTheorem == Spec => LoggedOutStays
<1>1. ASSUME Inv, LoggedOut, [Next]_vars PROVE LoggedOut' \/ logins' # logins
  <2>1. ASSUME ipc' = Append(ipc, None) PROVE \A k \in DOMAIN ipc' : ipc'[k] = None
    BY <1>1, <2>1 DEF Inv, ClientInv, LoggedOut
  <2>2. ASSUME ipc # <<>>, ipc' = Tail(ipc) PROVE \A k \in DOMAIN ipc' : ipc'[k] = None
    BY <1>1, <2>2 DEF Inv, ClientInv, LoggedOut
  <2>3. ipc # <<>> => Head(ipc) = None
    BY <1>1 DEF Inv, ClientInv, LoggedOut
  <2>4. CASE /\ file' = file /\ mine' = mine /\ renewal' = renewal /\ ipc' = ipc /\ app' = app
    BY <1>1, <2>4 DEF LoggedOut
  <2>5. CASE \E u \in User : Login(u)
    BY <1>1, <2>5 DEF Login, Inv, ServerInv
  <2>6. CASE \/ UNCHANGED vars \/ \E u \in User : Block(u) \/ Bar(u)
             \/ \E t \in Token : AccessExpires(t)
    BY <2>4, <2>6 DEF vars, Block, Bar, AccessExpires, disk, portal, apps
  <2>7. CASE StartRenewal \/ AnswerRenewal \/ LogoutCall \/ Reload
    BY <1>1, <2>7 DEF StartRenewal, AnswerRenewal, LogoutCall, Reload, LoggedOut
  <2>8. CASE FinishRenewal
    <3>1. /\ mine' = None /\ Say(None) /\ renewal' = [at |-> "none", tok |-> None]
          /\ file' = file /\ app' = app
      BY <1>1, <2>8 DEF FinishRenewal, LoggedOut, Inv, ClientInv, disk, apps
    <3>2. \A k \in DOMAIN ipc' : ipc'[k] = None
      BY <2>1, <3>1 DEF Say
    <3>3. QED
      BY <1>1, <3>1, <3>2 DEF LoggedOut
  <2>9. CASE LogoutStore
    <3>1. /\ mine' = None /\ Say(None) /\ renewal' = renewal /\ file' = file /\ app' = app
      BY <2>9 DEF LogoutStore, disk, apps
    <3>2. \A k \in DOMAIN ipc' : ipc'[k] = None
      BY <2>1, <3>1 DEF Say
    <3>3. QED
      BY <1>1, <3>1, <3>2 DEF LoggedOut
  <2>10. CASE Shell
    <3>1. CASE ShellWrite \/ ShellRename
      BY <1>1, <2>3, <3>1 DEF ShellWrite, ShellRename, Inv, ClientInv
    <3>2. CASE ShellClear
      <4>1. /\ file' = file /\ ipc # <<>> /\ ipc' = Tail(ipc) /\ mine' = mine /\ renewal' = renewal
            /\ app' = app
        BY <1>1, <3>2 DEF ShellClear, LoggedOut
      <4>2. \A k \in DOMAIN ipc' : ipc'[k] = None
        BY <2>2, <4>1
      <4>3. QED
        BY <1>1, <4>1, <4>2 DEF LoggedOut
    <3>3. QED
      BY <2>10, <3>1, <3>2 DEF Shell
  <2>11. CASE \E i \in App : Start(i) \/ Notice(i) \/ Recheck(i)
    <3>1. PICK i \in App : Start(i) \/ Notice(i) \/ Recheck(i)
      BY <2>11
    <3>2. Show(i, "login") \/ app' = app
      BY <1>1, <3>1 DEF Start, Notice, Recheck, Load, LoggedOut
    <3>3. file' = file /\ mine' = mine /\ renewal' = renewal /\ ipc' = ipc
      BY <3>1 DEF Start, Notice, Recheck, disk, portal
    <3>4. \A j \in App : app'[j].at \in {"off", "idle", "hung"}
      BY <1>1, <3>2 DEF Show, Ended, LoggedOut, Inv, AppsInv
    <3>5. QED
      BY <1>1, <3>3, <3>4 DEF LoggedOut
  <2>12. CASE \E i \in App : Lose(i) \/ Fail(i) \/ Stall(i) \/ Evaluate(i)
    BY <1>1, <2>12 DEF Lose, Fail, Stall, Fault, Requests, Evaluate, FetchMe, Refresh,
       Write, Rename, Confirm, Wipe, CheckAccess, LoggedOut
  <2>13. QED
    BY <1>1, <2>5, <2>6, <2>7, <2>8, <2>9, <2>10, <2>11, <2>12 DEF Next, Renewal
<1>2. Inv /\ [Next]_vars => [LoggedOut => LoggedOut' \/ logins' # logins]_vars
  BY <1>1
<1>3. QED
  BY <1>2, InvAlways, PTL DEF Spec, LoggedOutStays

=============================================================================
