---------------------------- MODULE MCPushQueue ----------------------------
(* Instances of PushQueue for TLC: push thread slots are interchangeable. *)
EXTENDS PushQueue, TLC

Symmetry == Permutations(PushThreads)
============================================================================
