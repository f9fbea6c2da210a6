---------------------------- MODULE OidcProvider ----------------------------
(***************************************************************************)
(* The OpenID provider as a whole: the grants, which become new grants or  *)
(* tokens, and the access tokens, which are valid until they expire or are *)
(* revoked (backend/app/api/v1/oidc.py).  The two keep their state under   *)
(* different keys of Redis and no request touches both, so that a          *)
(* behaviour follows one of them.                                          *)
(***************************************************************************)
EXTENDS OidcGrants, OidcRevocation

VARIABLE part  \* which of the two the behaviour follows

ProviderInit == Init /\ TokensInit /\ part \in {"grants", "tokens"}

ProviderNext ==
  /\ UNCHANGED part
  /\ \/ part = "grants" /\ Next /\ UNCHANGED tokens
     \/ part = "tokens" /\ TokensNext /\ UNCHANGED vars

ProviderSpec == ProviderInit /\ [][ProviderNext]_<<vars, tokens, part>>
=============================================================================
