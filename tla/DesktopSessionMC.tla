-------------------------- MODULE DesktopSessionMC --------------------------
(* The instance of DesktopSession for TLC.                                   *)
EXTENDS DesktopSession
=============================================================================
