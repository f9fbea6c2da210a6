--------------------------- MODULE AccessControlMC ---------------------------
(* The instance of AccessControl for TLC: two administrators, an account yet *)
(* to be created, an application the staff opens, a honeypot administrators  *)
(* have a row for and the staff two, and an application yet to be registered. *)
EXTENDS AccessControl, TLC

CONSTANTS u1, staff, p1, p2

MCAccounts == [u \in User |-> IF u = u1 THEN Absent
                              ELSE [is |-> "active", role |-> Admin, blocked |-> FALSE]]
MCApps == [a \in App |-> CASE a = p1 -> [is |-> "on", trap |-> FALSE]
                           [] a = p2 -> [is |-> "on", trap |-> TRUE]
                           [] OTHER -> [is |-> "absent", trap |-> FALSE]]
MCRows == [p \in Role \X App |-> CASE p = <<staff, p1>> -> 1
                                  [] p = <<Admin, p2>> -> 1
                                  [] p = <<staff, p2>> -> 2
                                  [] OTHER -> 0]
=============================================================================
