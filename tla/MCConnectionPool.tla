-------------------------- MODULE MCConnectionPool --------------------------
(* Instances of ConnectionPool for TLC. *)
EXTENDS ConnectionPool, TLC

(* Threads, connections and addresses are interchangeable. *)
Symmetry ==
    Permutations(Threads) \cup Permutations(Conns) \cup Permutations(Addrs)
=============================================================================
