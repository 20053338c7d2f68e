----------------------------- MODULE MCPushLoop -----------------------------
(* Instances of PushLoop for TLC. *)
EXTENDS PushLoop, TLC

Symmetry == Permutations(Chats)
=============================================================================
