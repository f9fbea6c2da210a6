---------------------------- MODULE SessionChain ----------------------------
(***************************************************************************)
(* What the portal promises of one login: the login opens a chain with one *)
(* live refresh token, a renewal that began while the chain was open       *)
(* replaces the live token by a new one, a logout closes the chain.  A     *)
(* logout does not stop the renewal under way, which opens the chain       *)
(* again; no later one does.                                               *)
(***************************************************************************)
CONSTANTS
  Token,   \* refresh tokens; a chain is named by the token its login handed out
  None     \* no live token

VARIABLES
  current,   \* the live token of every chain, or None
  renewing,  \* chains with a renewal under way
  used       \* tokens that were ever handed out

vars == <<current, renewing, used>>

Init == current = [c \in Token |-> None] /\ renewing = {} /\ used = {}

HandOut(c, n) ==
  /\ n \in Token \ used
  /\ current' = [current EXCEPT ![c] = n]
  /\ used' = used \cup {n}

Open(c) == HandOut(c, c) /\ UNCHANGED renewing

Begin(c) ==
  /\ current[c] # None /\ c \notin renewing
  /\ renewing' = renewing \cup {c}
  /\ UNCHANGED <<current, used>>

Renew(c) ==
  /\ c \in renewing
  /\ \E n \in Token : HandOut(c, n)
  /\ renewing' = renewing \ {c}

GiveUp(c) ==
  /\ c \in renewing
  /\ renewing' = renewing \ {c}
  /\ UNCHANGED <<current, used>>

Close(c) ==
  /\ current[c] # None
  /\ current' = [current EXCEPT ![c] = None]
  /\ UNCHANGED <<renewing, used>>

Next == \E c \in Token : Open(c) \/ Begin(c) \/ Renew(c) \/ GiveUp(c) \/ Close(c)

Spec == Init /\ [][Next]_vars

\* A chain that is closed while no renewal of it is under way stays closed.
StaysClosed ==
  [][\A c \in used \ renewing :
       current[c] = None => current'[c] = None /\ c \notin renewing']_vars
=============================================================================
