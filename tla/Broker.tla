------------------------------- MODULE Broker -------------------------------
(***************************************************************************)
(* How the clients of broker.go find the leader of a partition:            *)
(* getLeaderEndpoint and leaderConnection, under the loops of              *)
(* producer.Produce and Broker.offset.  One partition, and threads that    *)
(* share one Cluster and its connections, each through a Broker of its own *)
(* or a common one.                                                        *)
(*                                                                         *)
(* The parts below are taken by what they promise: Cluster is Metadata,    *)
(* which it is shown to implement, and a connection to an address is there *)
(* as long as fewer than ConnectionLimit are in use (ConnectionPool).      *)
(* Kafka is external: brokers fail and come back, and the partition gets   *)
(* another leader or, for a while, none.                                   *)
(***************************************************************************)
EXTENDS Integers, FiniteSets

CONSTANTS
    Producers,         \* goroutines that call Produce
    Askers,            \* goroutines that call offset
    Creators,          \* those whose Broker has AllowTopicCreation
    Nodes,             \* broker IDs, each with one address
    LeaderRetryLimit,
    ConnectionLimit,
    MaxChanges,        \* bound: what happens in Kafka
    MaxFaults,         \* bound: time-outs and broken connections
    NoLeader,          \* the leader -1 of a partition without one
    NoTopic            \* no such partition, in Kafka or in the metadata

Threads == Producers \cup Askers

ASSUME BrokerAssumption ==
    /\ Creators \subseteq Threads
    /\ LeaderRetryLimit \in Nat \ {0}
    /\ ConnectionLimit \in Nat
    /\ MaxChanges \in Nat
    /\ MaxFaults \in Nat
    /\ NoLeader \notin Nodes
    /\ NoTopic \notin Nodes \cup {NoLeader}

Leaders == Nodes \cup {NoLeader, NoTopic}
Responses == [leader : Leaders, brokers : SUBSET Nodes]
Conns == Nodes \X (0..(LeaderRetryLimit - 1))

VARIABLES
    \* Kafka
    leader,      \* the leader of the partition
    up,          \* the brokers that are up
    changes, faults,  \* counted against their bounds
    \* Cluster
    endpoint,    \* the entry of endpoints, NoTopic if there is none
    nodes,       \* the keys of nodes; the pools have their addresses
    fetched, installed, status,  \* RefreshMetadata, as in Metadata
    background,  \* a RefreshMetadata that Produce started has not returned
    \* threads
    pc,          \* [Threads -> where in the call the thread is]
    op,          \* [Threads -> which call]
    try,         \* [Threads -> tries of leaderConnection]
    tries,       \* [Threads -> tries of offset]
    node,        \* [Threads -> the leader the try goes to]
    held,        \* [Threads -> open connections to give back at the end]
    failed       \* idle threads whose last call returned an error

kafkaVars == <<leader, up, changes, faults>>
metaVars == <<endpoint, nodes>>
refreshVars == <<fetched, installed, background>>
callVars == <<op, try, tries, node, held, failed>>
vars == <<kafkaVars, metaVars, refreshVars, status, pc, callVars>>

Meta == INSTANCE Metadata WITH
    Calls <- Threads,
    NoEntry <- NoTopic,
    kafka <- [leader |-> leader, brokers |-> up]

(* NewCluster has cached what Kafka was like then: who was up, and led.    *)
Init ==
    /\ up \in (SUBSET Nodes) \ {{}}
    /\ leader \in Leaders \ (Nodes \ up)
    /\ changes = 0
    /\ faults = 0
    /\ endpoint = leader
    /\ nodes = up
    /\ fetched = {}
    /\ installed = FALSE
    /\ status = [t \in Threads |-> "idle"]
    /\ background = FALSE
    /\ pc = [t \in Threads |-> "idle"]
    /\ op = [t \in Threads |-> "none"]
    /\ try = [t \in Threads |-> 0]
    /\ tries = [t \in Threads |-> 0]
    /\ node = [t \in Threads |-> NoLeader]
    /\ held = [t \in Threads |-> {}]
    /\ failed = {}

-----------------------------------------------------------------------------
(* Kafka.  A broker that fails loses its partition, to another or to none. *)
Change ==
    /\ changes < MaxChanges
    /\ changes' = changes + 1
    /\ UNCHANGED <<faults, metaVars, refreshVars, pc, callVars, status>>

Elect(n) ==
    /\ leader = NoLeader
    /\ n \in up
    /\ leader' = n
    /\ Change
    /\ UNCHANGED up

Move(n) ==
    /\ leader \in Nodes
    /\ n \in up \ {leader}
    /\ leader' = n
    /\ Change
    /\ UNCHANGED up

Fail(n) ==
    /\ n \in up
    /\ up' = up \ {n}
    /\ \/ leader # n /\ UNCHANGED leader
       \/ leader = n /\ leader' \in up' \cup {NoLeader}
    /\ Change

Restart(n) ==
    /\ n \notin up
    /\ up' = up \cup {n}
    /\ Change
    /\ UNCHANGED leader

(* Something goes wrong between the client and node n: always if it is     *)
(* down, now and then if it is up.                                         *)
Fault(n) ==
    /\ n \in up => faults < MaxFaults
    /\ faults' = IF n \in up THEN faults + 1 ELSE faults
    /\ UNCHANGED <<leader, up, changes>>

(* The brokers the client knows that can be asked for metadata.            *)
Reachable == nodes \cap up

-----------------------------------------------------------------------------
(* RefreshMetadata, for a thread or started by Produce: Metadata's steps,  *)
(* when somebody asks and can be answered.                                 *)
FetchMetadata ==
    /\ background \/ \E t \in Threads : status[t] # "idle"
    /\ Reachable # {}
    /\ UNCHANGED <<kafkaVars, background, pc, callVars>>
    /\ Meta!Fetch

CacheMetadata ==
    /\ UNCHANGED <<kafkaVars, background, pc, callVars>>
    /\ Meta!Install

(* No broker answers, or not in time.                                      *)
RefreshFault ==
    \/ Reachable = {} /\ UNCHANGED kafkaVars
    \/ \E n \in Reachable : Fault(n)

(* The refresh that Produce started fails; nobody looks at its error.      *)
BackgroundFails ==
    /\ background
    /\ background' = FALSE
    /\ RefreshFault
    /\ UNCHANGED <<metaVars, fetched, installed, status, pc, callVars>>

StoreEpoch ==
    /\ background' = FALSE
    /\ status' = [t \in Threads |-> IF status[t] = "idle" THEN "idle" ELSE "refreshed"]
    /\ UNCHANGED <<kafkaVars, pc, callVars>>
    /\ Meta!Refreshed

-----------------------------------------------------------------------------
(* Produce starts a refresh in the background unless it would not help.    *)
WantsRefresh(t, e) == op[t] # "offset" /\ e \notin {"nil", "eof", "noconns"}

(* The deferred functions give the call's connections back.  Mutant: they  *)
(* do not.                                                                 *)
NoneGivenBack(t) == UNCHANGED held
GivenBack(t) == held' = [held EXCEPT ![t] = {}]

(* The call returns e, and its local variables are gone.  The goroutines   *)
(* that give the connections back (`go Idle') are part of the step: one    *)
(* that runs later only makes NoConnectionsAvailable last longer.          *)
Return(t, e) ==
    /\ pc' = [pc EXCEPT ![t] = "idle"]
    /\ failed' = IF e = "nil" THEN failed ELSE failed \cup {t}
    /\ GivenBack(t)
    /\ background' = (background \/ WantsRefresh(t, e))
    /\ try' = [try EXCEPT ![t] = 0]
    /\ tries' = [tries EXCEPT ![t] = 0]
    /\ node' = [node EXCEPT ![t] = NoLeader]
    /\ op' = [op EXCEPT ![t] = "none"]

(* Another try of a loop that has made n.  Mutants: one try too many; the  *)
(* tries are not counted.                                                  *)
TriesAndOne(n) == n <= LeaderRetryLimit
MoreTries(n) == n < LeaderRetryLimit
NotCounted(n) == n
OneMore(n) == n + 1

(* A try of leaderConnection fails with e.  The last one ends the call:    *)
(* neither produce nor offset goes on without a connection.                *)
TryFails(t, e) ==
    IF MoreTries(OneMore(try[t]))
    THEN /\ try' = [try EXCEPT ![t] = OneMore(@)]
         /\ node' = [node EXCEPT ![t] = NoLeader]
         /\ pc' = [pc EXCEPT ![t] = "endpoint"]
         /\ UNCHANGED <<op, tries, held, failed, background>>
    ELSE Return(t, e)

(* A try of offset fails, the last with its error or, if there was none    *)
(* for this partition at all, with "incomplete fetch response".            *)
OffsetTryFails(t, keep) ==
    IF MoreTries(tries[t] + 1)
    THEN /\ tries' = [tries EXCEPT ![t] = @ + 1]
         /\ try' = [try EXCEPT ![t] = 0]
         /\ held' = [held EXCEPT ![t] = keep]
         /\ node' = [node EXCEPT ![t] = NoLeader]
         /\ pc' = [pc EXCEPT ![t] = "endpoint"]
         /\ UNCHANGED <<op, background, failed>>
    ELSE Return(t, "other")

(* Produce, with acknowledgement or without, or offset.  What the call     *)
(* before it returned is forgotten.                                        *)
Call(t, o) ==
    /\ pc[t] = "idle"
    /\ pc' = [pc EXCEPT ![t] = "endpoint"]
    /\ op' = [op EXCEPT ![t] = o]
    /\ failed' = failed \ {t}
    /\ UNCHANGED <<kafkaVars, metaVars, refreshVars, try, tries, node, held, status>>

-----------------------------------------------------------------------------
(* getLeaderEndpoint.                                                      *)
GetEndpoint(t) ==
    /\ pc[t] \in {"endpoint", "again", "created"}
    /\ endpoint # NoTopic
    /\ node' = [node EXCEPT ![t] = endpoint]
    /\ pc' = [pc EXCEPT ![t] = "address"]
    /\ UNCHANGED <<kafkaVars, metaVars, refreshVars, op, try, tries, held, failed, status>>

NoEndpoint(t) ==
    /\ pc[t] = "endpoint"
    /\ endpoint = NoTopic
    /\ pc' = [pc EXCEPT ![t] = "refresh"]
    /\ UNCHANGED <<kafkaVars, background, callVars>>
    /\ Meta!Call(t)

(* RefreshMetadata returns, in getLeaderEndpoint ...                       *)
RefreshMetadata(t) ==
    /\ pc[t] = "refresh"
    /\ pc' = [pc EXCEPT ![t] = "again"]
    /\ UNCHANGED <<kafkaVars, background, callVars>>
    /\ Meta!ReturnNil(t)

RefreshFails(t) ==
    /\ pc[t] = "refresh"
    /\ RefreshFault
    /\ TryFails(t, "other")
    /\ Meta!ReturnError(t)

(* ... and in offset, which goes on whatever it returned.                  *)
RefreshAfterResponse(t) ==
    /\ pc[t] = "rerefresh"
    /\ \/ UNCHANGED kafkaVars /\ Meta!ReturnNil(t)
       \/ RefreshFault /\ Meta!ReturnError(t)
    /\ OffsetTryFails(t, held[t])

(* Still no endpoint: ErrUnknownTopicOrPartition, or try to create it.     *)
StillNoEndpoint(t) ==
    /\ endpoint = NoTopic
    /\ \/ /\ pc[t] = "again"
          /\ t \in Creators
          /\ pc' = [pc EXCEPT ![t] = "create"]
          /\ UNCHANGED <<background, callVars>>
       \/ /\ pc[t] = "created" \/ (pc[t] = "again" /\ t \notin Creators)
          /\ TryFails(t, "unknown")
    /\ UNCHANGED <<kafkaVars, metaVars, fetched, installed, status>>

(* Fetch for the one topic makes Kafka create it.  The response, partial,  *)
(* is not cached.                                                          *)
CreateTopic(t) ==
    /\ pc[t] = "create"
    /\ Reachable # {}
    /\ leader' = IF leader = NoTopic THEN NoLeader ELSE leader
    /\ pc' = [pc EXCEPT ![t] = "created"]
    /\ UNCHANGED <<up, changes, faults, metaVars, refreshVars, callVars, status>>

CreateFails(t) ==
    /\ pc[t] = "create"
    /\ RefreshFault
    /\ TryFails(t, "other")
    /\ UNCHANGED <<metaVars, fetched, installed, status>>

-----------------------------------------------------------------------------
(* leaderConnection: the address of the node.                              *)
GetNodeAddress(t) ==
    /\ pc[t] = "address"
    /\ pc' = [pc EXCEPT ![t] = IF node[t] \in nodes THEN "connect" ELSE "forget"]
    /\ UNCHANGED <<kafkaVars, metaVars, refreshVars, callVars, status>>

InUse(n) == Cardinality({tc \in Threads \X Conns : tc[2] \in held[tc[1]] /\ tc[2][1] = n})
Own(t, n) == {c \in held[t] : c[1] = n}

(* GetConnectionByAddr: a connection, which may be to a node that has gone *)
(* down since ...                                                          *)
GetConnection(t) ==
    /\ pc[t] = "connect"
    /\ node[t] \in nodes
    /\ InUse(node[t]) < ConnectionLimit
    /\ \/ node[t] \in up /\ UNCHANGED kafkaVars
       \/ /\ node[t] \notin up
          /\ faults < MaxFaults
          /\ faults' = faults + 1
          /\ UNCHANGED <<leader, up, changes>>
    /\ held' = [held EXCEPT ![t] = @ \cup {<<node[t], tries[t]>>}]
    /\ pc' = [pc EXCEPT ![t] = "send"]
    /\ UNCHANGED <<metaVars, refreshVars, op, try, tries, node, failed, status>>

(* ... NoConnectionsAvailable, and the endpoint is kept ...                *)
NoConnectionsAvailable(t) ==
    /\ pc[t] = "connect"
    /\ node[t] \in nodes
    /\ InUse(node[t]) >= ConnectionLimit
    /\ TryFails(t, "noconns")
    /\ UNCHANGED <<kafkaVars, metaVars, fetched, installed, status>>

(* ... or another error: the dial failed, or the address is gone.          *)
ConnectionFails(t) ==
    /\ pc[t] = "connect"
    /\ \/ node[t] \notin nodes /\ UNCHANGED kafkaVars
       \/ node[t] \in nodes /\ InUse(node[t]) < ConnectionLimit /\ Fault(node[t])
    /\ pc' = [pc EXCEPT ![t] = "forget"]
    /\ UNCHANGED <<metaVars, refreshVars, callVars, status>>

(* ForgetEndpoint, which deletes the entry it finds now.  Mutant: it keeps *)
(* the entry.                                                              *)
Keeps == UNCHANGED <<metaVars, fetched, installed, status>>
Forgets == Meta!Forget

ForgetEndpoint(t) ==
    /\ pc[t] = "forget"
    /\ TryFails(t, "other")
    /\ UNCHANGED kafkaVars
    /\ Forgets

-----------------------------------------------------------------------------
(* The request, on the connection of this try.                             *)
Answered(t) ==
    /\ pc[t] = "send"
    /\ node[t] \in up
    /\ node[t] = leader \/ op[t] = "noacks"
    /\ Return(t, "nil")
    /\ UNCHANGED <<kafkaVars, metaVars, fetched, installed, status>>

(* Answered by a broker that does not lead the partition.                  *)
NotLeader(t) ==
    /\ pc[t] = "send"
    /\ node[t] \in up
    /\ node[t] # leader
    /\ op[t] # "noacks"
    /\ UNCHANGED kafkaVars
    /\ \/ op[t] = "produce" /\ Return(t, "other") /\ UNCHANGED <<metaVars, fetched, installed, status>>
       \/ /\ op[t] = "offset"
          /\ pc' = [pc EXCEPT ![t] = "rerefresh"]
          /\ UNCHANGED <<callVars, background>>
          /\ Meta!Call(t)

(* The connection died (EOF, EPIPE, or another net.OpError) and is closed. *)
ConnectionDied(t) ==
    /\ pc[t] = "send"
    /\ Fault(node[t])
    /\ \E e \in {"eof", "other"} :
          \/ op[t] # "offset" /\ Return(t, e)
          \/ op[t] = "offset" /\ OffsetTryFails(t, held[t] \ {<<node[t], tries[t]>>})
    /\ UNCHANGED <<metaVars, fetched, installed, status>>

(* Any other error ends the call: a time-out, or an error of the response. *)
RequestFails(t) ==
    /\ pc[t] = "send"
    /\ Fault(node[t])
    /\ Return(t, "other")
    /\ UNCHANGED <<metaVars, fetched, installed, status>>

(* A response without the partition: for offset one try more.              *)
Incomplete(t) ==
    /\ pc[t] = "send"
    /\ node[t] \in up
    /\ op[t] # "noacks"
    /\ Fault(node[t])
    /\ \/ op[t] = "produce" /\ Return(t, "other")
       \/ op[t] = "offset" /\ OffsetTryFails(t, held[t])
    /\ UNCHANGED <<metaVars, fetched, installed, status>>

-----------------------------------------------------------------------------
KafkaNext == \E n \in Nodes : Elect(n) \/ Move(n) \/ Fail(n) \/ Restart(n)

RefreshNext == FetchMetadata \/ CacheMetadata \/ StoreEpoch \/ BackgroundFails

CallNext(t) ==
    \/ GetEndpoint(t) \/ NoEndpoint(t) \/ RefreshMetadata(t) \/ RefreshFails(t)
    \/ RefreshAfterResponse(t) \/ StillNoEndpoint(t) \/ CreateTopic(t)
    \/ CreateFails(t) \/ GetNodeAddress(t) \/ GetConnection(t)
    \/ NoConnectionsAvailable(t) \/ ConnectionFails(t) \/ ForgetEndpoint(t)
    \/ Answered(t) \/ NotLeader(t) \/ ConnectionDied(t) \/ RequestFails(t)
    \/ Incomplete(t)

Next ==
    \/ KafkaNext
    \/ RefreshNext
    \/ \E t \in Threads : CallNext(t)
    \/ \E t \in Producers, o \in {"produce", "noacks"} : Call(t, o)
    \/ \E t \in Askers : Call(t, "offset")

Spec == Init /\ [][Next]_vars

(* Fairness.  Goroutines run, and every wait in a call, or in a refresh,   *)
(* has a time-out.                                                         *)
Fairness == WF_vars(RefreshNext) /\ \A t \in Threads : WF_vars(CallNext(t))

FairSpec == Spec /\ Fairness

-----------------------------------------------------------------------------
(* The type invariant.                                                     *)
TypeOK ==
    /\ leader \in Leaders
    /\ up \subseteq Nodes
    /\ changes \in 0..MaxChanges
    /\ faults \in 0..MaxFaults
    /\ endpoint \in Leaders
    /\ nodes \subseteq Nodes
    /\ fetched \subseteq Responses
    /\ installed \in BOOLEAN
    /\ status \in [Threads -> Meta!Statuses]
    /\ background \in BOOLEAN
    /\ pc \in [Threads -> {"idle", "endpoint", "refresh", "again", "create",
                           "created", "address", "connect", "forget", "send",
                           "rerefresh"}]
    /\ op \in [Threads -> {"none", "produce", "noacks", "offset"}]
    /\ try \in [Threads -> 0..(LeaderRetryLimit - 1)]
    /\ tries \in [Threads -> 0..(LeaderRetryLimit - 1)]
    /\ node \in [Threads -> Nodes \cup {NoLeader}]
    /\ held \in [Threads -> SUBSET Conns]
    /\ failed \subseteq Threads

(* offset keeps the connection of every try until it returns.  As long as  *)
(* ConnectionLimit is not below LeaderRetryLimit (by default both are 10)  *)
(* a call never waits for a connection only because it has them all.       *)
NeverStarvesItself ==
    LeaderRetryLimit <= ConnectionLimit =>
        \A t \in Threads :
            pc[t] = "connect" => Cardinality(Own(t, node[t])) < ConnectionLimit

(* Every call returns, whatever happens in Kafka: both loops are bounded.  *)
CallsReturn == \A t \in Threads : pc[t] # "idle" ~> pc[t] = "idle"

(* Once the partition has a leader that stays, and a broker is known that  *)
(* answers, the calls stop failing: stale metadata is found out, whether   *)
(* by a refused dial, an unknown broker or the answer of a broker that is  *)
(* not the leader, although threads forget each other's endpoints and some *)
(* errors refresh nothing.                                                 *)
ReturnsError(t) == pc[t] # "idle" /\ pc'[t] = "idle" /\ t \in failed'
Recovers ==
    <>[](leader \in up /\ Reachable # {})
      => <>[][\A t \in Threads : ~ReturnsError(t)]_vars
=============================================================================
