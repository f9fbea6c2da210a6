----------------------------- MODULE GrantBook ------------------------------
(***************************************************************************)
(* What the OpenID provider promises of its grants, authorization codes    *)
(* and refresh tokens alike: a grant is redeemed at most once, what it     *)
(* yields is one refresh token for the same user and client, and a grant   *)
(* that was redeemed or dropped is never good again.                       *)
(***************************************************************************)
CONSTANTS User, Client, Grant, None

VARIABLES
  open,  \* grants that may still be redeemed
  book   \* what every grant ever handed out is for, None before that

vars == <<open, book>>

Init == open = {} /\ book = [g \in Grant |-> None]

Enter(n, info) == book[n] = None /\ book' = [book EXCEPT ![n] = info]

Issue(n, u, c) ==
  /\ Enter(n, [kind |-> "code", user |-> u, client |-> c, parent |-> None])
  /\ open' = open \cup {n}

Redeem(g, n) ==
  /\ g \in open
  /\ Enter(n, [kind |-> "refresh", user |-> book[g].user, client |-> book[g].client,
               parent |-> g])
  /\ open' = (open \ {g}) \cup {n}

Drop(g) ==
  /\ g \in open
  /\ open' = open \ {g}
  /\ UNCHANGED book

Next ==
  \/ \E n \in Grant, u \in User, c \in Client : Issue(n, u, c)
  \/ \E g, n \in Grant : Redeem(g, n)
  \/ \E g \in Grant : Drop(g)

Spec == Init /\ [][Next]_vars
=============================================================================
