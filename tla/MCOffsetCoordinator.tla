------------------------- MODULE MCOffsetCoordinator -------------------------
(* OffsetCoordinator for TLC: two threads, two offsets and two attempts,   *)
(* so that a commit can be late for its own retry and for the next commit, *)
(* or no attempt at all.                                                   *)
EXTENDS OffsetCoordinator
=============================================================================
