----------------------------- MODULE OidcGrantsMC -----------------------------
(* The instance of OidcGrants for TLC in which no client is careful.         *)
EXTENDS OidcGrants, TLC

Symmetry == UNION {Permutations(S) : S \in {User, Client, Grant, Req}}
=============================================================================
