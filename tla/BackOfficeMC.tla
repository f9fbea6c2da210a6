---------------------------- MODULE BackOfficeMC ----------------------------
(* The instance of BackOffice for TLC: one credential changed every day, one *)
(* every second day, one never.                                             *)
EXTENDS BackOffice, TLC

CONSTANTS d1, d2
MCInterval == [c \in Credential |-> CASE c = d1 -> 1 [] c = d2 -> 2 [] OTHER -> 0]
=============================================================================
