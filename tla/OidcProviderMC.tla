---------------------------- MODULE OidcProviderMC ----------------------------
(* The instance of OidcProvider for TLC: the symmetry of the run.  A careful *)
(* and a careless client are not interchangeable.                           *)
EXTENDS OidcProvider, TLC

Symmetry == UNION {Permutations(S) : S \in {User, Careful, Client \ Careful, Grant, Req, Caller}}
=============================================================================
