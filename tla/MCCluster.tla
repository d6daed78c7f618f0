----------------------------- MODULE MCCluster -----------------------------
(* Instance of Cluster for TLC. *)
EXTENDS Cluster

CONSTANTS a1, a2

(* A broker that just starts and names nobody, the cluster it then forms,  *)
(* and the cluster moved to a second broker while the first still answers. *)
MCShapes ==
    {[brokers |-> {}, alive |-> {a1}],
     [brokers |-> {a1}, alive |-> {a1}],
     [brokers |-> {a2}, alive |-> {a1, a2}]}
=============================================================================
