------------------------- MODULE MCPartitionManager -------------------------
(* Instances of PartitionManager for TLC. *)
EXTENDS PartitionManager, TLC

(* Threads are interchangeable. *)
Symmetry == Permutations(Threads)
=============================================================================
