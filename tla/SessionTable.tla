---------------------------- MODULE SessionTable ----------------------------
(***************************************************************************)
(* What the sessions table promises everyone who holds a refresh token: a  *)
(* token is bound to one user when it is handed out, a renewal binds its   *)
(* new token to the same user, and a token that has lost its row never     *)
(* gets one back.                                                          *)
(***************************************************************************)
CONSTANTS
  User,
  Token,   \* refresh tokens
  None     \* no user

VARIABLES
  owner,   \* the user of every token handed out, None before
  live     \* tokens with a row

vars == <<owner, live>>

Init == owner = [t \in Token |-> None] /\ live = {}

\* A token nobody has had takes the place of the tokens in old.
HandOut(u, old) ==
  \E n \in Token : /\ owner[n] = None
                   /\ owner' = [owner EXCEPT ![n] = u]
                   /\ live' = (live \ old) \cup {n}

Open(u) == HandOut(u, {})

\* Two renewals with one token may both have found its row: the second one
\* finds it replaced, and still gets a token.
Renew(t) == owner[t] # None /\ HandOut(owner[t], {t})

Close(t) == t \in live /\ live' = live \ {t} /\ UNCHANGED owner

Next ==
  \/ \E u \in User : Open(u)
  \/ \E t \in Token : Renew(t) \/ Close(t)

Spec == Init /\ [][Next]_vars

\* Nobody's token changes hands, and one without a row stays without one.
NoReturn ==
  [][\A t \in Token : owner[t] # None =>
       owner'[t] = owner[t] /\ (t \in live' => t \in live)]_vars
=============================================================================
