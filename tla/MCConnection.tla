---------------------------- MODULE MCConnection ----------------------------
(* Instances of Connection for TLC. *)
EXTENDS Connection

(* Random correlation IDs: all distinct, or with any of them coinciding. *)
AnyIDs == [Reqs -> Reqs]
=============================================================================
