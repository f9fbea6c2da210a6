-------------------------- MODULE AccountSecretsMC --------------------------
(* The instance of AccountSecrets for TLC: one account, switching MFA off is *)
(* allowed, so that it meets enrolment.                                      *)
EXTENDS AccountSecrets
=============================================================================
