---------------------------- MODULE BrokerProofs ----------------------------
(***************************************************************************)
(* Proofs about Broker, for any threads, brokers and limits.  Broker.offset *)
(* keeps the connection of every try until it returns; that it does not    *)
(* use up the pool by itself rests on each try adding one connection at    *)
(* most, and on the tries being fewer than the connections.                *)
(***************************************************************************)
EXTENDS Broker, FiniteSetTheorems, TLAPS

(* The types of Kafka, of what the threads share, and of their calls.      *)
KafkaTypes ==
    /\ leader \in Leaders
    /\ up \subseteq Nodes
    /\ changes \in 0..MaxChanges
    /\ faults \in 0..MaxFaults

MetaTypes ==
    /\ endpoint \in Leaders
    /\ nodes \subseteq Nodes
    /\ fetched \subseteq Responses
    /\ installed \in BOOLEAN
    /\ status \in [Threads -> Meta!Statuses]

PCs == {"idle", "endpoint", "refresh", "again", "create", "created", "address",
        "connect", "forget", "send", "rerefresh"}

CallTypes ==
    /\ background \in BOOLEAN
    /\ pc \in [Threads -> PCs]
    /\ op \in [Threads -> {"none", "produce", "noacks", "offset"}]
    /\ try \in [Threads -> 0..(LeaderRetryLimit - 1)]
    /\ tries \in [Threads -> 0..(LeaderRetryLimit - 1)]
    /\ node \in [Threads -> Nodes \cup {NoLeader}]
    /\ held \in [Threads -> SUBSET Conns]
    /\ failed \subseteq Threads

(* A connection bears the number of the try it was made for: the current   *)
(* one while its request is under way, an earlier one otherwise.           *)
Held ==
    \A t \in Threads :
        /\ pc[t] = "idle" => held[t] = {}
        /\ pc[t] \in {"send", "rerefresh"} => \A c \in held[t] : c[2] <= tries[t]
        /\ pc[t] \notin {"send", "rerefresh"} => \A c \in held[t] : c[2] < tries[t]

Calls == CallTypes /\ Held

SharedTypes == KafkaTypes /\ MetaTypes

IInv == SharedTypes /\ Calls

-----------------------------------------------------------------------------
(* The three parts make up the type invariant.                               *)
LEMMA Types == TypeOK <=> SharedTypes /\ CallTypes
BY DEF TypeOK, SharedTypes, KafkaTypes, MetaTypes, CallTypes, PCs

(* The initial state.                                                      *)
LEMMA Initially == Init => IInv
<1> SUFFICES ASSUME Init PROVE IInv
  OBVIOUS
<1> USE BrokerAssumption DEF Init
<1>1. SharedTypes
  <2>1. KafkaTypes
    BY DEF KafkaTypes, Leaders
  <2>2. MetaTypes
    BY DEF MetaTypes, Leaders, Meta!Statuses
  <2> QED
    BY <2>1, <2>2 DEF SharedTypes
<1>2. CallTypes
  <2>1. 0 \in 0..(LeaderRetryLimit - 1)
    OBVIOUS
  <2> QED
    BY <2>1 DEF CallTypes, PCs
<1>3. Held
  BY DEF Held
<1> QED
  BY <1>1, <1>2, <1>3 DEF IInv, Calls

(* A call that returns has nothing left.                                   *)
LEMMA ReturnStep ==
    ASSUME Calls, NEW t \in Threads, NEW e, Return(t, e)
    PROVE  Calls'
<1> USE BrokerAssumption DEF Return, GivenBack, Calls
<1>1. CallTypes'
  <2>1. background' \in BOOLEAN
    OBVIOUS
  <2>2. try' \in [Threads -> 0..(LeaderRetryLimit - 1)]
    BY DEF CallTypes
  <2>3. tries' \in [Threads -> 0..(LeaderRetryLimit - 1)]
    BY DEF CallTypes
  <2> QED
    BY <2>1, <2>2, <2>3 DEF CallTypes, PCs
<1>2. Held'
  BY DEF CallTypes, Held
<1> QED
  BY <1>1, <1>2

(* A try of leaderConnection fails before there is a connection.           *)
LEMMA TryStep ==
    ASSUME Calls, NEW t \in Threads, NEW e, TryFails(t, e),
           pc[t] \notin {"idle", "send", "rerefresh"}
    PROVE  Calls'
<1> USE BrokerAssumption DEF OneMore, MoreTries, Calls
<1>1. CASE ~MoreTries(OneMore(try[t]))
  BY <1>1, ReturnStep DEF TryFails
<1>2. CASE MoreTries(OneMore(try[t]))
  <2>1. try' \in [Threads -> 0..(LeaderRetryLimit - 1)]
    BY <1>2 DEF TryFails, CallTypes
  <2>2. CallTypes'
    BY <1>2, <2>1 DEF TryFails, CallTypes, PCs
  <2>3. Held'
    BY <1>2 DEF TryFails, CallTypes, Held
  <2> QED
    BY <2>2, <2>3
<1> QED
  BY <1>1, <1>2

(* A try of offset fails, and its connection may be kept.                  *)
LEMMA OffsetTryStep ==
    ASSUME Calls, NEW t \in Threads, NEW keep \in SUBSET held[t],
           OffsetTryFails(t, keep), pc[t] \in {"send", "rerefresh"}
    PROVE  Calls'
<1> USE BrokerAssumption DEF MoreTries, Calls
<1>1. CASE ~MoreTries(tries[t] + 1)
  BY <1>1, ReturnStep DEF OffsetTryFails
<1>2. CASE MoreTries(tries[t] + 1)
  <2>1. tries' \in [Threads -> 0..(LeaderRetryLimit - 1)]
    BY <1>2 DEF OffsetTryFails, CallTypes
  <2>2. try' \in [Threads -> 0..(LeaderRetryLimit - 1)]
    BY <1>2 DEF OffsetTryFails, CallTypes
  <2>3. CallTypes'
    BY <1>2, <2>1, <2>2 DEF OffsetTryFails, CallTypes, PCs
  <2>4. Held'
    <3>1. \A c \in keep : c[2] \in Nat /\ c[2] < tries[t] + 1
      BY DEF CallTypes, Held, Conns
    <3> QED
      BY <1>2, <3>1 DEF OffsetTryFails, CallTypes, Held
  <2> QED
    BY <2>3, <2>4
<1> QED
  BY <1>1, <1>2

(* A call has at most one connection for each of its tries.                *)
LEMMA CallStep ==
    ASSUME SharedTypes, Calls, [Next]_vars
    PROVE  Calls'
<1> USE BrokerAssumption DEF kafkaVars, metaVars, refreshVars, callVars
<1>1. ASSUME NEW n \in Nodes, Elect(n) PROVE Calls'
  BY <1>1 DEF Elect, Change, Calls, CallTypes, Held, PCs
<1>2. ASSUME NEW n \in Nodes, Move(n) PROVE Calls'
  BY <1>2 DEF Move, Change, Calls, CallTypes, Held, PCs
<1>3. ASSUME NEW n \in Nodes, Fail(n) PROVE Calls'
  BY <1>3 DEF Fail, Change, Calls, CallTypes, Held, PCs
<1>4. ASSUME NEW n \in Nodes, Restart(n) PROVE Calls'
  BY <1>4 DEF Restart, Change, Calls, CallTypes, Held, PCs
<1>5. ASSUME FetchMetadata PROVE Calls'
  BY <1>5 DEF FetchMetadata, Calls, CallTypes, Held, PCs
<1>6. ASSUME CacheMetadata PROVE Calls'
  BY <1>6 DEF CacheMetadata, Calls, CallTypes, Held, PCs
<1>7. ASSUME StoreEpoch PROVE Calls'
  BY <1>7 DEF StoreEpoch, Calls, CallTypes, Held, PCs
<1>8. ASSUME NEW t \in Threads, GetEndpoint(t) PROVE Calls'
  <2>1. endpoint \in Nodes \cup {NoLeader}
    BY <1>8 DEF GetEndpoint, SharedTypes, MetaTypes, Leaders
  <2> QED
    BY <1>8, <2>1 DEF GetEndpoint, Calls, CallTypes, Held, PCs
<1>9. ASSUME NEW t \in Threads, NoEndpoint(t) PROVE Calls'
  BY <1>9 DEF NoEndpoint, Calls, CallTypes, Held, PCs
<1>10. ASSUME NEW t \in Threads, RefreshMetadata(t) PROVE Calls'
  BY <1>10 DEF RefreshMetadata, Calls, CallTypes, Held, PCs
<1>11. ASSUME NEW t \in Threads, RefreshFails(t) PROVE Calls'
  BY <1>11, TryStep DEF RefreshFails
<1>12. ASSUME NEW t \in Threads, RefreshAfterResponse(t) PROVE Calls'
  BY <1>12, OffsetTryStep DEF RefreshAfterResponse
<1>13. ASSUME NEW t \in Threads, StillNoEndpoint(t) PROVE Calls'
  <2>1. CASE \E e : TryFails(t, e)
    BY <1>13, <2>1, TryStep DEF StillNoEndpoint
  <2>2. CASE pc' = [pc EXCEPT ![t] = "create"] /\ UNCHANGED <<background, callVars>>
    BY <1>13, <2>2 DEF StillNoEndpoint, callVars, Calls, CallTypes, Held, PCs
  <2> QED
    BY <1>13, <2>1, <2>2 DEF StillNoEndpoint
<1>14. ASSUME NEW t \in Threads, CreateTopic(t) PROVE Calls'
  BY <1>14 DEF CreateTopic, Calls, CallTypes, Held, PCs
<1>15. ASSUME NEW t \in Threads, CreateFails(t) PROVE Calls'
  BY <1>15, TryStep DEF CreateFails
<1>16. ASSUME NEW t \in Threads, GetNodeAddress(t) PROVE Calls'
  BY <1>16 DEF GetNodeAddress, Calls, CallTypes, Held, PCs
<1>17. ASSUME NEW t \in Threads, GetConnection(t) PROVE Calls'
  <2>1. <<node[t], tries[t]>> \in Conns
    BY <1>17 DEF GetConnection, SharedTypes, MetaTypes, Calls, CallTypes, Conns
  <2>2. CallTypes'
    BY <1>17, <2>1 DEF GetConnection, Calls, CallTypes, PCs
  <2>3. \A c \in held[t] \cup {<<node[t], tries[t]>>} : c[2] <= tries[t]
    <3>1. \A c \in held[t] : c[2] \in Nat /\ c[2] < tries[t]
      BY <1>17 DEF GetConnection, Calls, CallTypes, Held, Conns
    <3> QED
      BY <2>1, <3>1 DEF Calls, CallTypes
  <2>4. Held'
    BY <1>17, <2>3 DEF GetConnection, Calls, CallTypes, Held
  <2> QED
    BY <2>2, <2>4 DEF Calls
<1>18. ASSUME NEW t \in Threads, NoConnectionsAvailable(t) PROVE Calls'
  BY <1>18, TryStep DEF NoConnectionsAvailable
<1>19. ASSUME NEW t \in Threads, ConnectionFails(t) PROVE Calls'
  BY <1>19 DEF ConnectionFails, Calls, CallTypes, Held, PCs
<1>20. ASSUME NEW t \in Threads, ForgetEndpoint(t) PROVE Calls'
  BY <1>20, TryStep DEF ForgetEndpoint
<1>21. ASSUME NEW t \in Threads, Answered(t) PROVE Calls'
  BY <1>21, ReturnStep DEF Answered
<1>22. ASSUME NEW t \in Threads, NotLeader(t) PROVE Calls'
  <2>1. CASE \E e : Return(t, e)
    BY <2>1, ReturnStep
  <2>2. CASE pc' = [pc EXCEPT ![t] = "rerefresh"] /\ UNCHANGED <<callVars, background>>
    BY <1>22, <2>2 DEF NotLeader, callVars, Calls, CallTypes, Held, PCs
  <2> QED
    BY <1>22, <2>1, <2>2 DEF NotLeader
<1>23. ASSUME NEW t \in Threads, ConnectionDied(t) PROVE Calls'
  <2>1. PICK e \in {"eof", "other"} :
            \/ Return(t, e)
            \/ OffsetTryFails(t, held[t] \ {<<node[t], tries[t]>>})
    BY <1>23 DEF ConnectionDied
  <2> QED
    BY <1>23, <2>1, ReturnStep, OffsetTryStep DEF ConnectionDied
<1>24. ASSUME NEW t \in Threads, RequestFails(t) PROVE Calls'
  BY <1>24, ReturnStep DEF RequestFails
<1>25. ASSUME NEW t \in Threads, Incomplete(t) PROVE Calls'
  BY <1>25, ReturnStep, OffsetTryStep DEF Incomplete
<1>26. ASSUME NEW t \in Threads, NEW o \in {"produce", "noacks", "offset"},
              Call(t, o) PROVE Calls'
  BY <1>26 DEF Call, Calls, CallTypes, Held, PCs
<1>27. ASSUME UNCHANGED vars PROVE Calls'
  BY <1>27 DEF vars, Calls, CallTypes, Held
<1>28. ASSUME BackgroundFails PROVE Calls'
  BY <1>28 DEF BackgroundFails, Calls, CallTypes, Held, PCs
<1>a. Producers \subseteq Threads /\ Askers \subseteq Threads
  BY DEF Threads
<1> QED
  BY <1>a, <1>1, <1>2, <1>3, <1>4, <1>5, <1>6, <1>7, <1>8, <1>9,
     <1>10, <1>11, <1>12, <1>13, <1>14, <1>15, <1>16, <1>17, <1>18, <1>19,
     <1>20, <1>21, <1>22, <1>23, <1>24, <1>25, <1>26, <1>27, <1>28
  DEF Next, KafkaNext, RefreshNext, CallNext

(* A fault changes nothing in Kafka.                                       *)
LEMMA FaultStep ==
    ASSUME KafkaTypes, NEW n, Fault(n)
    PROVE  KafkaTypes' /\ leader' = leader /\ up' = up
BY BrokerAssumption DEF Fault, KafkaTypes

(* Nor does one that a refresh meets.                                      *)
LEMMA RefreshFaultStep ==
    ASSUME KafkaTypes, RefreshFault
    PROVE  KafkaTypes' /\ leader' = leader /\ up' = up
BY FaultStep DEF RefreshFault, kafkaVars, KafkaTypes

(* A thread's call of RefreshMetadata goes on.                             *)
LEMMA BecomesStep ==
    ASSUME MetaTypes, NEW t \in Threads, NEW s \in Meta!Statuses, Meta!Becomes(t, s)
    PROVE  MetaTypes'
BY DEF Meta!Becomes, Meta!refreshVars, Meta!cacheVars, MetaTypes

(* What the threads share keeps its type.                                  *)
LEMMA SharedStep ==
    ASSUME SharedTypes, Calls, [Next]_vars
    PROVE  SharedTypes'
<1> USE BrokerAssumption DEF kafkaVars, metaVars, refreshVars, callVars, Meta!cacheVars, Meta!refreshVars
<1>1. ASSUME NEW n \in Nodes, Elect(n) PROVE SharedTypes'
  <2>1. KafkaTypes'
    BY <1>1 DEF Elect, Change, SharedTypes, KafkaTypes, Leaders
  <2>2. MetaTypes'
    BY <1>1 DEF Elect, Change, SharedTypes, MetaTypes
  <2> QED
    BY <2>1, <2>2 DEF SharedTypes
<1>2. ASSUME NEW n \in Nodes, Move(n) PROVE SharedTypes'
  <2>1. KafkaTypes'
    BY <1>2 DEF Move, Change, SharedTypes, KafkaTypes, Leaders
  <2>2. MetaTypes'
    BY <1>2 DEF Move, Change, SharedTypes, MetaTypes
  <2> QED
    BY <2>1, <2>2 DEF SharedTypes
<1>3. ASSUME NEW n \in Nodes, Fail(n) PROVE SharedTypes'
  <2>1. KafkaTypes'
    BY <1>3 DEF Fail, Change, SharedTypes, KafkaTypes, Leaders
  <2>2. MetaTypes'
    BY <1>3 DEF Fail, Change, SharedTypes, MetaTypes
  <2> QED
    BY <2>1, <2>2 DEF SharedTypes
<1>4. ASSUME NEW n \in Nodes, Restart(n) PROVE SharedTypes'
  <2>1. KafkaTypes'
    BY <1>4 DEF Restart, Change, SharedTypes, KafkaTypes, Leaders
  <2>2. MetaTypes'
    BY <1>4 DEF Restart, Change, SharedTypes, MetaTypes
  <2> QED
    BY <2>1, <2>2 DEF SharedTypes
<1>5. ASSUME FetchMetadata PROVE SharedTypes'
  <2>1. KafkaTypes'
    BY <1>5 DEF FetchMetadata, SharedTypes, KafkaTypes
  <2>2. MetaTypes'
    <3>1. [leader |-> leader, brokers |-> up] \in Responses
      BY DEF SharedTypes, KafkaTypes, Responses
    <3> QED
      BY <1>5, <3>1 DEF FetchMetadata, Meta!Fetch, SharedTypes, MetaTypes
  <2> QED
    BY <2>1, <2>2 DEF SharedTypes
<1>6. ASSUME CacheMetadata PROVE SharedTypes'
  <2>1. KafkaTypes'
    BY <1>6 DEF CacheMetadata, SharedTypes, KafkaTypes
  <2>2. MetaTypes'
    <3>1. \A c \in fetched : c.leader \in Leaders /\ c.brokers \subseteq Nodes
      BY DEF SharedTypes, MetaTypes, Responses
    <3> QED
      BY <1>6, <3>1 DEF CacheMetadata, Meta!Install, SharedTypes, MetaTypes
  <2> QED
    BY <2>1, <2>2 DEF SharedTypes
<1>7. ASSUME StoreEpoch PROVE SharedTypes'
  BY <1>7 DEF StoreEpoch, Meta!Refreshed, SharedTypes, KafkaTypes, MetaTypes
<1>8. ASSUME NEW t \in Threads, GetEndpoint(t) PROVE SharedTypes'
  BY <1>8 DEF GetEndpoint, SharedTypes, KafkaTypes, MetaTypes
<1>9. ASSUME NEW t \in Threads, NoEndpoint(t) PROVE SharedTypes'
  <2>1. KafkaTypes'
    BY <1>9 DEF NoEndpoint, SharedTypes, KafkaTypes
  <2>2. MetaTypes'
    BY <1>9, BecomesStep DEF NoEndpoint, Meta!Call, Meta!Statuses, SharedTypes
  <2> QED
    BY <2>1, <2>2 DEF SharedTypes
<1>10. ASSUME NEW t \in Threads, RefreshMetadata(t) PROVE SharedTypes'
  <2>1. KafkaTypes'
    BY <1>10 DEF RefreshMetadata, SharedTypes, KafkaTypes
  <2>2. MetaTypes'
    BY <1>10, BecomesStep DEF RefreshMetadata, Meta!ReturnNil, Meta!Statuses, SharedTypes
  <2> QED
    BY <2>1, <2>2 DEF SharedTypes
<1>11. ASSUME NEW t \in Threads, RefreshFails(t) PROVE SharedTypes'
  <2>1. KafkaTypes'
    BY <1>11, RefreshFaultStep DEF RefreshFails, SharedTypes
  <2>2. MetaTypes'
    BY <1>11, BecomesStep DEF RefreshFails, Meta!ReturnError, Meta!Statuses, SharedTypes
  <2> QED
    BY <2>1, <2>2 DEF SharedTypes
<1>12. ASSUME NEW t \in Threads, RefreshAfterResponse(t) PROVE SharedTypes'
  <2>1. KafkaTypes'
    BY <1>12, RefreshFaultStep DEF RefreshAfterResponse, SharedTypes, KafkaTypes
  <2>2. MetaTypes'
    BY <1>12, BecomesStep DEF RefreshAfterResponse, Meta!ReturnNil, Meta!ReturnError,
             Meta!Statuses, SharedTypes
  <2> QED
    BY <2>1, <2>2 DEF SharedTypes
<1>13. ASSUME NEW t \in Threads, StillNoEndpoint(t) PROVE SharedTypes'
  BY <1>13 DEF StillNoEndpoint, SharedTypes, KafkaTypes, MetaTypes
<1>14. ASSUME NEW t \in Threads, CreateTopic(t) PROVE SharedTypes'
  <2>1. KafkaTypes'
    BY <1>14 DEF CreateTopic, SharedTypes, KafkaTypes, Leaders
  <2>2. MetaTypes'
    BY <1>14 DEF CreateTopic, SharedTypes, MetaTypes
  <2> QED
    BY <2>1, <2>2 DEF SharedTypes
<1>15. ASSUME NEW t \in Threads, CreateFails(t) PROVE SharedTypes'
  <2>1. KafkaTypes'
    BY <1>15, RefreshFaultStep DEF CreateFails, SharedTypes
  <2>2. MetaTypes'
    BY <1>15 DEF CreateFails, SharedTypes, MetaTypes
  <2> QED
    BY <2>1, <2>2 DEF SharedTypes
<1>16. ASSUME NEW t \in Threads, GetNodeAddress(t) PROVE SharedTypes'
  BY <1>16 DEF GetNodeAddress, SharedTypes, KafkaTypes, MetaTypes
<1>17. ASSUME NEW t \in Threads, GetConnection(t) PROVE SharedTypes'
  BY <1>17 DEF GetConnection, SharedTypes, KafkaTypes, MetaTypes
<1>18. ASSUME NEW t \in Threads, NoConnectionsAvailable(t) PROVE SharedTypes'
  BY <1>18 DEF NoConnectionsAvailable, SharedTypes, KafkaTypes, MetaTypes
<1>19. ASSUME NEW t \in Threads, ConnectionFails(t) PROVE SharedTypes'
  <2>1. KafkaTypes'
    BY <1>19, FaultStep DEF ConnectionFails, SharedTypes, KafkaTypes
  <2>2. MetaTypes'
    BY <1>19 DEF ConnectionFails, SharedTypes, MetaTypes
  <2> QED
    BY <2>1, <2>2 DEF SharedTypes
<1>20. ASSUME NEW t \in Threads, ForgetEndpoint(t) PROVE SharedTypes'
  <2>1. KafkaTypes'
    BY <1>20 DEF ForgetEndpoint, SharedTypes, KafkaTypes
  <2>2. MetaTypes'
    BY <1>20 DEF ForgetEndpoint, Forgets, Meta!Forget, SharedTypes, MetaTypes, Leaders
  <2> QED
    BY <2>1, <2>2 DEF SharedTypes
<1>21. ASSUME NEW t \in Threads, Answered(t) PROVE SharedTypes'
  BY <1>21 DEF Answered, SharedTypes, KafkaTypes, MetaTypes
<1>22. ASSUME NEW t \in Threads, NotLeader(t) PROVE SharedTypes'
  <2>1. KafkaTypes'
    BY <1>22 DEF NotLeader, SharedTypes, KafkaTypes
  <2>2. MetaTypes'
    BY <1>22, BecomesStep DEF NotLeader, Meta!Call, Meta!Statuses, SharedTypes, MetaTypes
  <2> QED
    BY <2>1, <2>2 DEF SharedTypes
<1>23. ASSUME NEW t \in Threads, ConnectionDied(t) PROVE SharedTypes'
  <2>1. KafkaTypes'
    BY <1>23, FaultStep DEF ConnectionDied, SharedTypes, KafkaTypes
  <2>2. MetaTypes'
    BY <1>23 DEF ConnectionDied, SharedTypes, MetaTypes
  <2> QED
    BY <2>1, <2>2 DEF SharedTypes
<1>24. ASSUME NEW t \in Threads, RequestFails(t) PROVE SharedTypes'
  <2>1. KafkaTypes'
    BY <1>24, FaultStep DEF RequestFails, SharedTypes, KafkaTypes
  <2>2. MetaTypes'
    BY <1>24 DEF RequestFails, SharedTypes, MetaTypes
  <2> QED
    BY <2>1, <2>2 DEF SharedTypes
<1>25. ASSUME NEW t \in Threads, Incomplete(t) PROVE SharedTypes'
  <2>1. KafkaTypes'
    BY <1>25, FaultStep DEF Incomplete, SharedTypes, KafkaTypes
  <2>2. MetaTypes'
    BY <1>25 DEF Incomplete, SharedTypes, MetaTypes
  <2> QED
    BY <2>1, <2>2 DEF SharedTypes
<1>26. ASSUME NEW t \in Threads, NEW o \in {"produce", "noacks", "offset"},
              Call(t, o) PROVE SharedTypes'
  BY <1>26 DEF Call, SharedTypes, KafkaTypes, MetaTypes
<1>27. ASSUME UNCHANGED vars PROVE SharedTypes'
  BY <1>27 DEF vars, SharedTypes, KafkaTypes, MetaTypes
<1>28. ASSUME BackgroundFails PROVE SharedTypes'
  <2>1. KafkaTypes'
    BY <1>28, RefreshFaultStep DEF BackgroundFails, SharedTypes
  <2> QED
    BY <1>28, <2>1 DEF BackgroundFails, SharedTypes, MetaTypes
<1>a. Producers \subseteq Threads /\ Askers \subseteq Threads
  BY DEF Threads
<1> QED
  BY <1>a, <1>1, <1>2, <1>3, <1>4, <1>5, <1>6, <1>7, <1>8, <1>9,
     <1>10, <1>11, <1>12, <1>13, <1>14, <1>15, <1>16, <1>17, <1>18, <1>19,
     <1>20, <1>21, <1>22, <1>23, <1>24, <1>25, <1>26, <1>27, <1>28
  DEF Next, KafkaNext, RefreshNext, CallNext

(* The invariant holds throughout.                                         *)
LEMMA Invariance == Spec => []IInv
<1>1. IInv /\ [Next]_vars => IInv'
  BY SharedStep, CallStep DEF IInv
<1> QED
  BY <1>1, Initially, PTL DEF Spec

-----------------------------------------------------------------------------
(* Type correctness.                                                       *)
THEOREM BrokerTypeOK == Spec => []TypeOK
BY Invariance, Types, PTL DEF IInv, Calls

(* Connections to one node, one of each of k tries at most, are at most k. *)
LEMMA OnePerTry ==
    ASSUME NEW n, NEW k \in Nat, NEW S \in SUBSET ({n} \X (0..(k - 1)))
    PROVE  Cardinality(S) \in Nat /\ Cardinality(S) <= k
<1> DEFINE f == [i \in 0..(k - 1) |-> <<n, i>>]
<1>1. IsFiniteSet(0..(k - 1)) /\ Cardinality(0..(k - 1)) = k
  BY FS_Interval
<1>2. f \in Surjection(0..(k - 1), {n} \X (0..(k - 1)))
  <2>1. f \in [0..(k - 1) -> {n} \X (0..(k - 1))]
    OBVIOUS
  <2>2. ASSUME NEW c \in {n} \X (0..(k - 1)) PROVE \E i \in 0..(k - 1) : f[i] = c
    <3>1. c[2] \in 0..(k - 1) /\ c = <<n, c[2]>>
      OBVIOUS
    <3> QED
      BY <3>1
  <2> QED
    BY <2>1, <2>2 DEF Surjection
<1>3. IsFiniteSet({n} \X (0..(k - 1))) /\ Cardinality({n} \X (0..(k - 1))) <= k
  BY <1>1, <1>2, FS_Surjection
<1>4. Cardinality(S) <= Cardinality({n} \X (0..(k - 1)))
  BY <1>3, FS_Subset
<1>5. Cardinality(S) \in Nat /\ Cardinality({n} \X (0..(k - 1))) \in Nat
  BY <1>3, FS_Subset, FS_CardinalityType
<1> QED
  BY <1>3, <1>4, <1>5

(* A call of offset does not wait for a connection that only it could give *)
(* back.                                                                   *)
THEOREM BrokerNeverStarvesItself == Spec => []NeverStarvesItself
<1>1. ASSUME IInv, LeaderRetryLimit <= ConnectionLimit,
             NEW t \in Threads, pc[t] = "connect"
      PROVE  Cardinality(Own(t, node[t])) < ConnectionLimit
  <2>1. tries[t] \in Nat /\ tries[t] < LeaderRetryLimit
    BY <1>1, BrokerAssumption DEF IInv, Calls, CallTypes
  <2>2. Own(t, node[t]) \subseteq {node[t]} \X (0..(tries[t] - 1))
    <3> SUFFICES ASSUME NEW c \in held[t], c[1] = node[t]
                 PROVE  c \in {node[t]} \X (0..(tries[t] - 1))
      BY DEF Own
    <3>1. c = <<c[1], c[2]>> /\ c[2] \in Nat /\ c[2] < tries[t]
      BY <1>1 DEF IInv, Calls, CallTypes, Held, Conns
    <3> QED
      BY <2>1, <3>1
  <2>3. Cardinality(Own(t, node[t])) \in Nat /\ Cardinality(Own(t, node[t])) <= tries[t]
    BY <2>1, <2>2, OnePerTry
  <2> QED
    BY <1>1, <2>1, <2>3, BrokerAssumption
<1>2. IInv => NeverStarvesItself
  BY <1>1 DEF NeverStarvesItself
<1> QED
  BY <1>2, Invariance, PTL

(* Every step is a step of Metadata, or none.                              *)
LEMMA MetaStep ==
    ASSUME IInv, [Next]_vars
    PROVE  [Meta!Next]_(Meta!vars)
<1> USE BrokerAssumption DEF kafkaVars, metaVars, refreshVars, callVars
<1>1. ASSUME NEW n \in Nodes, Elect(n) PROVE [Meta!Next]_(Meta!vars)
  BY <1>1 DEF Elect, Change, Meta!Next, Meta!Change, Meta!refreshVars, Meta!cacheVars
<1>2. ASSUME NEW n \in Nodes, Move(n) PROVE [Meta!Next]_(Meta!vars)
  BY <1>2 DEF Move, Change, Meta!Next, Meta!Change, Meta!refreshVars, Meta!cacheVars
<1>3. ASSUME NEW n \in Nodes, Fail(n) PROVE [Meta!Next]_(Meta!vars)
  BY <1>3 DEF Fail, Change, Meta!Next, Meta!Change, Meta!refreshVars, Meta!cacheVars
<1>4. ASSUME NEW n \in Nodes, Restart(n) PROVE [Meta!Next]_(Meta!vars)
  BY <1>4 DEF Restart, Change, Meta!Next, Meta!Change, Meta!refreshVars, Meta!cacheVars
<1>5. ASSUME FetchMetadata PROVE [Meta!Next]_(Meta!vars)
  BY <1>5 DEF FetchMetadata, Meta!Next
<1>6. ASSUME CacheMetadata PROVE [Meta!Next]_(Meta!vars)
  BY <1>6 DEF CacheMetadata, Meta!Next
<1>7. ASSUME StoreEpoch PROVE [Meta!Next]_(Meta!vars)
  BY <1>7 DEF StoreEpoch, Meta!Next
<1>8. ASSUME NEW t \in Threads, GetEndpoint(t) PROVE [Meta!Next]_(Meta!vars)
  BY <1>8 DEF GetEndpoint, Meta!vars
<1>9. ASSUME NEW t \in Threads, NoEndpoint(t) PROVE [Meta!Next]_(Meta!vars)
  BY <1>9 DEF NoEndpoint, Meta!Next
<1>10. ASSUME NEW t \in Threads, RefreshMetadata(t) PROVE [Meta!Next]_(Meta!vars)
  BY <1>10 DEF RefreshMetadata, Meta!Next
<1>11. ASSUME NEW t \in Threads, RefreshFails(t) PROVE [Meta!Next]_(Meta!vars)
  BY <1>11 DEF RefreshFails, Meta!Next
<1>12. ASSUME NEW t \in Threads, RefreshAfterResponse(t) PROVE [Meta!Next]_(Meta!vars)
  BY <1>12 DEF RefreshAfterResponse, Meta!Next
<1>13. ASSUME NEW t \in Threads, StillNoEndpoint(t) PROVE [Meta!Next]_(Meta!vars)
  BY <1>13 DEF StillNoEndpoint, Meta!vars
<1>14. ASSUME NEW t \in Threads, CreateTopic(t) PROVE [Meta!Next]_(Meta!vars)
  BY <1>14 DEF CreateTopic, Meta!Next, Meta!Change, Meta!refreshVars, Meta!cacheVars
<1>15. ASSUME NEW t \in Threads, CreateFails(t) PROVE [Meta!Next]_(Meta!vars)
  BY <1>15, RefreshFaultStep DEF CreateFails, Meta!vars, IInv, SharedTypes
<1>16. ASSUME NEW t \in Threads, GetNodeAddress(t) PROVE [Meta!Next]_(Meta!vars)
  BY <1>16 DEF GetNodeAddress, Meta!vars
<1>17. ASSUME NEW t \in Threads, GetConnection(t) PROVE [Meta!Next]_(Meta!vars)
  BY <1>17 DEF GetConnection, Meta!vars
<1>18. ASSUME NEW t \in Threads, NoConnectionsAvailable(t) PROVE [Meta!Next]_(Meta!vars)
  BY <1>18 DEF NoConnectionsAvailable, Meta!vars
<1>19. ASSUME NEW t \in Threads, ConnectionFails(t) PROVE [Meta!Next]_(Meta!vars)
  BY <1>19, FaultStep DEF ConnectionFails, Meta!vars, IInv, SharedTypes
<1>20. ASSUME NEW t \in Threads, ForgetEndpoint(t) PROVE [Meta!Next]_(Meta!vars)
  BY <1>20 DEF ForgetEndpoint, Forgets, Meta!Next
<1>21. ASSUME NEW t \in Threads, Answered(t) PROVE [Meta!Next]_(Meta!vars)
  BY <1>21 DEF Answered, Meta!vars
<1>22. ASSUME NEW t \in Threads, NotLeader(t) PROVE [Meta!Next]_(Meta!vars)
  BY <1>22 DEF NotLeader, Meta!Next, Meta!vars
<1>23. ASSUME NEW t \in Threads, ConnectionDied(t) PROVE [Meta!Next]_(Meta!vars)
  BY <1>23, FaultStep DEF ConnectionDied, Meta!vars, IInv, SharedTypes
<1>24. ASSUME NEW t \in Threads, RequestFails(t) PROVE [Meta!Next]_(Meta!vars)
  BY <1>24, FaultStep DEF RequestFails, Meta!vars, IInv, SharedTypes
<1>25. ASSUME NEW t \in Threads, Incomplete(t) PROVE [Meta!Next]_(Meta!vars)
  BY <1>25, FaultStep DEF Incomplete, Meta!vars, IInv, SharedTypes
<1>26. ASSUME NEW t \in Threads, NEW o \in {"produce", "noacks", "offset"},
              Call(t, o) PROVE [Meta!Next]_(Meta!vars)
  BY <1>26 DEF Call, Meta!vars
<1>27. ASSUME UNCHANGED vars PROVE [Meta!Next]_(Meta!vars)
  BY <1>27 DEF vars, Meta!vars
<1>28. ASSUME BackgroundFails PROVE [Meta!Next]_(Meta!vars)
  BY <1>28, RefreshFaultStep DEF BackgroundFails, Meta!vars, IInv, SharedTypes
<1>a. Producers \subseteq Threads /\ Askers \subseteq Threads
  BY DEF Threads
<1> QED
  BY <1>a, <1>1, <1>2, <1>3, <1>4, <1>5, <1>6, <1>7, <1>8, <1>9,
     <1>10, <1>11, <1>12, <1>13, <1>14, <1>15, <1>16, <1>17, <1>18, <1>19,
     <1>20, <1>21, <1>22, <1>23, <1>24, <1>25, <1>26, <1>27, <1>28
  DEF Next, KafkaNext, RefreshNext, CallNext

(* The clients use the Cluster that they share as Metadata allows: one     *)
(* refresh at a time, whose answer goes to the calls then in progress, and *)
(* entries that are only ever replaced by it or forgotten.  With           *)
(* ClusterImplementsMetadata, which says that the refresh protocol does no *)
(* more than Metadata allows, the two sides agree on what lies between     *)
(* them; it is no proof about the two run together.                        *)
THEOREM BrokerUsesMetadata == Spec => Meta!Spec
<1>1. Init => Meta!Init
  <2> SUFFICES ASSUME Init PROVE Meta!Init
    OBVIOUS
  <2>1. Meta!Usable([leader |-> leader, brokers |-> up])
    BY DEF Init, Meta!Usable
  <2>2. Meta!Caches([leader |-> leader, brokers |-> up])
    BY DEF Init, Meta!Caches
  <2> QED
    BY <2>1, <2>2 DEF Init, Meta!Init
<1> QED
  BY <1>1, MetaStep, Invariance, PTL DEF Spec, Meta!Spec
=============================================================================
