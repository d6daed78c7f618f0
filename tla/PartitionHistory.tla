-------------------------- MODULE PartitionHistory --------------------------
(***************************************************************************)
(* PartitionManager with a history variable that the comment of            *)
(* errorAverseRRProducer is about: the partitions that failed and have not *)
(* been set aside since.                                                   *)
(***************************************************************************)
EXTENDS PartitionManager

VARIABLE aside    \* objects that failed, and neither slept nor succeeded since

Received(t) == pc[t] = "wait" /\ pc'[t] = "produce"
Failed == {data[t] : t \in {u \in Threads : pc[u] = "produce" /\ pc'[u] = "idle"}}
Succeeded == {data[t] : t \in {u \in Threads : pc[u] = "produce" /\ pc'[u] = "reset"}}
Slept == {o \in Objects : running'["sleep"][o] < running["sleep"][o]}

HInit == Init /\ aside = {}
HNext == Next /\ aside' = (aside \cup Failed) \ (Succeeded \cup Slept)
HSpec == HInit /\ [][HNext]_<<vars, aside>>

(* "when a produce fails, that partition is set aside temporarily": no     *)
(* thread is handed a partition that failed and has not slept since.       *)
SetAside ==
    [][\A t \in Threads : Received(t) => data'[t] \notin aside]_<<vars, aside>>
=============================================================================
