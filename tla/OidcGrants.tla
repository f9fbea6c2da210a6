----------------------------- MODULE OidcGrants -----------------------------
(***************************************************************************)
(* The OpenID provider's grants: authorization codes and the refresh       *)
(* tokens they turn into, both opaque strings with a payload in Redis      *)
(* (backend/app/services/oidc_service.py and api/v1/oidc.py).              *)
(*                                                                         *)
(* A grant is consumed by a GET and then a DELETE, two awaits between      *)
(* which other requests run; the checks of the payload come after both.    *)
(* Nothing here is undone when a handler fails: Redis has no transaction,  *)
(* and the database is only read.                                          *)
(***************************************************************************)
EXTENDS Naturals, FiniteSets

CONSTANTS
  User,       \* accounts
  Client,     \* applications registered with the provider
  Grant,      \* codes and refresh tokens the provider can mint (the bound)
  Req,        \* request slots
  None,       \* no user, client or grant
  Careful     \* clients whose grants are never in two requests at once

\* What is stored with a grant; parent is the grant it was exchanged for.
Payload == [kind : {"code", "refresh"}, user : User, client : Client, parent : Grant \cup {None}]

ASSUME NoneAssumption == None \notin User \cup Client \cup Grant \cup Payload
ASSUME CarefulAssumption == Careful \subseteq Client

VARIABLES
  blocked,  \* users with is_blocked or without is_active
  book,     \* the payload stored with every grant ever handed out, or None
  live,     \* grants present in Redis
  spent,    \* grants whose exchange or revocation has been acknowledged
  req       \* the requests in flight

vars == <<blocked, book, live, spent, req>>

-----------------------------------------------------------------------------
(* Requests.  "at" is the call the request is about to make.  proof: the     *)
(* redirect_uri and the PKCE verifier are those of the authorization.  late  *)
(* and barred remember what was true on arrival.                             *)

Request == [op : {"none", "authorize", "exchange", "refresh", "revoke"},
            at : {"idle", "client", "get", "delete", "user", "store"},
            user : User \cup {None}, client : Client \cup {None}, grant : Grant \cup {None},
            proof : BOOLEAN, late : BOOLEAN, barred : BOOLEAN]

Idle == [op |-> "none", at |-> "idle", user |-> None, client |-> None, grant |-> None,
         proof |-> FALSE, late |-> FALSE, barred |-> FALSE]

Goto(r, at) == req' = [req EXCEPT ![r].at = at]
Answer(r) == req' = [req EXCEPT ![r] = Idle]

Issued == {g \in Grant : book[g] # None}

\* The bound: every request in flight that may mint a grant finds one left.
GrantLeft ==
  Cardinality({q \in Req : req[q].op \in {"authorize", "exchange", "refresh"}})
    < Cardinality(Grant \ Issued)

Arrive(r, op, at, u, c, g, proof) ==
  /\ req[r] = Idle
  /\ req' = [req EXCEPT ![r] = [op |-> op, at |-> at, user |-> u, client |-> c, grant |-> g,
                                proof |-> proof, late |-> g \in spent, barred |-> u \in blocked]]
  /\ UNCHANGED <<blocked, book, live, spent>>

Alone(g) == \A q \in Req : req[q].grant # g
Present(g) == g \in Issued /\ (book[g].client \in Careful => Alone(g))

Authorize(r, u, c) ==
  /\ GrantLeft
  /\ Arrive(r, "authorize", "client", u, c, None, TRUE)

Exchange(r, g, c, proof) ==
  /\ Present(g) /\ GrantLeft
  /\ Arrive(r, "exchange", "client", book[g].user, c, g, proof)

Refresh(r, g, c) ==
  /\ Present(g) /\ GrantLeft
  /\ Arrive(r, "refresh", "get", book[g].user, c, g, TRUE)

Revoke(r, g) ==
  /\ Present(g) /\ book[g].kind = "refresh"
  /\ Arrive(r, "revoke", "get", book[g].user, None, g, TRUE)

-----------------------------------------------------------------------------

\* The client is looked up and authenticated: before an exchange reads the
\* code, after a refresh has deleted its token.
CheckClient(r) ==
  /\ req[r].at = "client"
  /\ \/ Answer(r)
     \/ Goto(r, IF req[r].op = "exchange" THEN "get" ELSE "user")
  /\ UNCHANGED <<blocked, book, live, spent>>

\* Codes and refresh tokens live under different key prefixes.
Found(q) == q.grant \in live /\ (book[q.grant].kind = "code" <=> q.op = "exchange")

\* Faulty variant: what was stored once is taken for good.
GetForgetful(r) ==
  /\ req[r].at = "get"
  /\ Goto(r, "delete")
  /\ UNCHANGED <<blocked, book, live, spent>>

\* Revoking a token that is not there is acknowledged too.
Get(r) ==
  /\ req[r].at = "get"
  /\ IF Found(req[r])
     THEN Goto(r, "delete") /\ UNCHANGED spent
     ELSE /\ Answer(r)
          /\ spent' = IF req[r].op = "revoke" THEN spent \cup {req[r].grant} ELSE spent
  /\ UNCHANGED <<blocked, book, live>>

\* Faulty variants: the client is not compared; the key stays.
DeleteAnyClient(r) ==
  /\ req[r].at = "delete"
  /\ live' = live \ {req[r].grant}
  /\ Goto(r, IF req[r].op = "refresh" THEN "client" ELSE "user")
  /\ UNCHANGED <<blocked, book, spent>>

DeleteNothing(r) ==
  /\ req[r].at = "delete"
  /\ Goto(r, IF req[r].op = "refresh" THEN "client" ELSE "user")
  /\ UNCHANGED <<blocked, book, live, spent>>

\* The key goes first; a payload for another client, redirect_uri or verifier
\* is refused afterwards, and its grant is lost.
Delete(r) ==
  LET q == req[r] IN
  /\ q.at = "delete"
  /\ live' = live \ {q.grant}
  /\ \/ q.op = "revoke" /\ Answer(r) /\ spent' = spent \cup {q.grant}
     \/ /\ q.op # "revoke" /\ UNCHANGED spent
        /\ IF q.client = book[q.grant].client /\ q.proof
           THEN Goto(r, IF q.op = "refresh" THEN "client" ELSE "user")
           ELSE Answer(r)
  /\ UNCHANGED <<blocked, book>>

\* Faulty variant: the account is not looked at.
CheckUserNever(r) ==
  /\ req[r].at = "user"
  /\ Goto(r, "store")
  /\ UNCHANGED <<blocked, book, live, spent>>

CheckUser(r) ==
  /\ req[r].at = "user"
  /\ IF req[r].user \in blocked THEN Answer(r) ELSE Goto(r, "store")
  /\ UNCHANGED <<blocked, book, live, spent>>

\* Faulty variant: user and client are stored in each other's place.
StoreSwapped(r) ==
  LET q == req[r] IN
  /\ q.at = "store"
  /\ \E n \in Grant \ Issued :
       /\ book' = [book EXCEPT ![n] = [kind |-> "refresh", user |-> q.client,
                                      client |-> q.user, parent |-> q.grant]]
       /\ live' = live \cup {n}
  /\ Answer(r)
  /\ UNCHANGED <<blocked, spent>>

\* The new grant is stored and handed out.
Store(r) ==
  LET q == req[r] IN
  /\ q.at = "store"
  /\ \E n \in Grant \ Issued :
       /\ book' = [book EXCEPT ![n] =
                     [kind |-> IF q.op = "authorize" THEN "code" ELSE "refresh",
                      user |-> q.user, client |-> q.client, parent |-> q.grant]]
       /\ live' = live \cup {n}
  /\ spent' = spent \cup ({q.grant} \ {None})
  /\ Answer(r)
  /\ UNCHANGED blocked

-----------------------------------------------------------------------------
(* The surroundings: time to live, the account's switches, failures.         *)

Expire(g) ==
  /\ g \in live
  /\ live' = live \ {g}
  /\ UNCHANGED <<blocked, book, spent, req>>

Block(u) ==
  /\ blocked' = blocked \cup {u}
  /\ UNCHANGED <<book, live, spent, req>>

\* Requests on u no longer count as having arrived under the block.
Unblock(u) ==
  /\ u \in blocked
  /\ blocked' = blocked \ {u}
  /\ req' = [q \in Req |-> IF req[q].user = u THEN [req[q] EXCEPT !.barred = FALSE] ELSE req[q]]
  /\ UNCHANGED <<book, live, spent>>

Fail(r) ==
  /\ req[r].at # "idle"
  /\ Answer(r)
  /\ UNCHANGED <<blocked, book, live, spent>>

Init ==
  /\ blocked = {} /\ live = {} /\ spent = {}
  /\ book = [g \in Grant |-> None]
  /\ req = [r \in Req |-> Idle]

Arrival(r) ==
  \/ \E u \in User, c \in Client : Authorize(r, u, c)
  \/ \E g \in Grant, c \in Client, proof \in BOOLEAN : Exchange(r, g, c, proof)
  \/ \E g \in Grant, c \in Client : Refresh(r, g, c)
  \/ \E g \in Grant : Revoke(r, g)

Step(r) == CheckClient(r) \/ Get(r) \/ Delete(r) \/ CheckUser(r) \/ Store(r)

Next ==
  \/ \E r \in Req : Arrival(r) \/ Step(r) \/ Fail(r)
  \/ \E g \in Grant : Expire(g)
  \/ \E u \in User : Block(u) \/ Unblock(u)

Spec == Init /\ [][Next]_vars

-----------------------------------------------------------------------------

TypeOK ==
  /\ blocked \subseteq User
  /\ book \in [Grant -> Payload \cup {None}]
  /\ live \subseteq Grant /\ spent \subseteq Grant
  /\ req \in [Req -> Request]

\* A grant whose exchange was answered, or whose revocation was, yields
\* nothing to a request that arrives later (the DELETEs of consume_auth_code,
\* consume_oidc_refresh_token and revoke_token against the GETs of others).
SpentGrantRefused == \A r \in Req : req[r].late => req[r].at # "store"

\* What a grant yields is for the user and the client it was issued to,
\* whoever presents it (the payload checks after the DELETE).
GrantsStayBound ==
  \A g \in Issued : book[g].parent # None =>
    /\ book[g].parent \in Issued
    /\ book[g].user = book[book[g].parent].user
    /\ book[g].client = book[book[g].parent].client

\* A blocked user's grants yield nothing to requests that arrive after the
\* block, although the grants themselves stay in Redis (get_user_for_oidc).
BlockedGetsNothing == \A r \in Req : req[r].barred => req[r].at # "store"

\* "codes are single-use" (oidc_service.py:138): one grant never yields two.
SingleUse ==
  \A g, h \in Issued : book[g].parent = book[h].parent /\ book[g].parent # None => g = h

CarefulGrants == {g \in Issued : book[g].client \in Careful}

\* They are for a client that presents a grant in one request at a time,
\* whatever the other clients do.
CarefulSingleUse ==
  \A g, h \in CarefulGrants : book[g].parent = book[h].parent /\ book[g].parent # None => g = h

\* A grant stays good for the request that is about to use it up.
Holds(q) ==
  \/ q.op \in {"exchange", "refresh"} /\ q.at \in {"delete", "user", "store"}
  \/ q.op = "refresh" /\ q.at = "client"

Held == {req[r].grant : r \in {q \in Req : Holds(req[q])}}

Book == INSTANCE GrantBook
          WITH open <- (live \cup Held) \cap CarefulGrants,
               book <- [g \in Grant |-> IF g \in CarefulGrants THEN book[g] ELSE None]

\* The grants of the careful clients are the book of single-use grants.
BookRefinement == Book!Spec
=============================================================================
