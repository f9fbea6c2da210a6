---------------------------- MODULE PortalAuthMC ----------------------------
(* Instances of PortalAuth for TLC: the symmetry of the safety runs.  Tokens *)
(* that name a careful login are not interchangeable with the others.        *)
EXTENDS PortalAuth, TLC

Symmetry == UNION {Permutations(S) : S \in {User, Careful, Token \ Careful, Sid, Req}}
=============================================================================
