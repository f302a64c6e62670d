---------------------------- MODULE MCIpcServer ----------------------------
(* IpcServer on a few connections, for TLC. *)
EXTENDS IpcServer, TLC

\* Connections differ in nothing but their name.
Symmetry == Permutations(Clients)
=============================================================================
