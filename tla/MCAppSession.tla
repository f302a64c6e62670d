---------------------------- MODULE MCAppSession ----------------------------
(* AppSession with sessions of a few ticks, for TLC. *)
EXTENDS AppSession
=============================================================================
