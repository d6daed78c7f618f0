------------------------------ MODULE MCBroker ------------------------------
(* Instance of Broker for TLC. *)
EXTENDS Broker
=============================================================================
