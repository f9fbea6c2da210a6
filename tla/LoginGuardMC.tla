----------------------------- MODULE LoginGuardMC -----------------------------
(* Instances of LoginGuard for TLC: the symmetry of the safety runs.         *)
EXTENDS LoginGuard, TLC

Symmetry == Permutations(Ip) \cup Permutations(Req)
=============================================================================
