----------------------------- MODULE MCFlvConn -----------------------------
(* Instances of FlvConn for TLC: the slots of a kind are interchangeable. *)
EXTENDS FlvConn, TLC

Symmetry ==
    Permutations(Fds) \cup Permutations(RetryThreads) \cup Permutations(PushThreads)
        \cup Permutations(Hosts) \cup Permutations(Streams)
============================================================================
