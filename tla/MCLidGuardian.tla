--------------------------- MODULE MCLidGuardian ---------------------------
(* LidGuardian and its caller's view on a few guardian processes, for TLC:  *)
(* one starting, one stopping or installed, and an orphan of an earlier     *)
(* instance.                                                                *)
EXTENDS LidCaller
=============================================================================
