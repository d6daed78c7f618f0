------------------------------ MODULE MCServer ------------------------------
(* Instance of Server for TLC. *)
EXTENDS Server

Message(k, v) == [Key |-> k, Value |-> v, Offset |-> 0]
MCProductions == {<<Message("nil", "v")>>, <<Message("k", "empty"), Message("nil", "w")>>}

MCKnownErrors == (-1..30) \ {0, 13}
=============================================================================
