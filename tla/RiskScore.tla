------------------------------ MODULE RiskScore ------------------------------
(***************************************************************************)
(* The risk of a login (backend/app/services/anomaly_service.py): what is  *)
(* known of the user from the audit log, and the circumstances of this one. *)
(***************************************************************************)
EXTENDS Integers

RISK_THRESHOLD == 70

\* Where an address is: geolocation fails for "dark", and is not asked for
\* private ones, which count as Russia.
Ip == {"none", "private", "home", "abroad", "dark"}

Points(condition, weight) == IF condition THEN weight ELSE 0

\* Outside 7:00 to 22:00 in Moscow.
Night(utc) == utc + 3 < 7 \/ utc + 3 > 22

\* The hour is not taken modulo 24, and needs not be.
ASSUME NightIsNight == \A utc \in 0 .. 23 : Night(utc) <=> (utc + 3) % 24 \notin 7 .. 22

\* knownIps and knownAgents: those of the user's successful logins; failures:
\* the user's failed ones of the last hour.
RiskOf(knownIps, knownAgents, failures, ip, agent, utc) ==
  LET score == Points(knownIps # {} /\ ip \notin knownIps, 20)
             + Points(ip = "abroad", 30)
             + Points(Night(utc), 15)
             + Points(agent # "none" /\ knownAgents # {} /\ agent \notin knownAgents, 15)
             + Points(failures >= 3, 20)
  IN IF ip = "none" THEN 0 ELSE IF score > 100 THEN 100 ELSE score
=============================================================================
