---------------------------- MODULE MCPushStream ----------------------------
(* Instances of PushStream for TLC. *)
EXTENDS PushStream, TLC

Symmetry == Permutations(Conns) \cup Permutations(Notifiers)
=============================================================================
