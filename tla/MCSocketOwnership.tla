------------------------- MODULE MCSocketOwnership -------------------------
(* SocketOwnership with a few instances, for TLC. *)
EXTENDS SocketOwnership, TLC

\* Instances differ in nothing but their name.
Symmetry == Permutations(Instances)
=============================================================================
