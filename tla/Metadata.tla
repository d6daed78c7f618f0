------------------------------ MODULE Metadata ------------------------------
(***************************************************************************)
(* What Cluster promises to those that share it: the metadata of one       *)
(* partition and of the brokers, as Kafka had it at some time, and what an *)
(* answer of RefreshMetadata means.  Cluster implements this               *)
(* specification, Broker is built upon it.                                 *)
(***************************************************************************)
CONSTANTS
    Calls,      \* those that call RefreshMetadata
    NoEntry     \* the endpoint of a partition without an entry

VARIABLES
    kafka,      \* the Kafka cluster: the partition's leader and the brokers
    fetched,    \* set holding the content that a refresh has fetched
    installed,  \* the refresh has cached it
    endpoint,   \* the cached leader
    nodes,      \* the cached brokers
    status      \* [Calls -> how far the call is]

vars == <<kafka, fetched, installed, endpoint, nodes, status>>
cacheVars == <<endpoint, nodes>>
refreshVars == <<fetched, installed>>

(* What a response without brokers says is not believed.                   *)
Usable(c) == c.brokers # {}

Nothing == endpoint = NoEntry /\ nodes = {}
Caches(c) == endpoint = c.leader /\ nodes = c.brokers

(* Before NewCluster has fetched anything, or after.                       *)
Init ==
    /\ fetched = {}
    /\ installed = FALSE
    /\ Nothing \/ (Usable(kafka) /\ Caches(kafka))
    /\ status = [r \in Calls |-> "idle"]

-----------------------------------------------------------------------------
(* Kafka is another than it was.                                           *)
Change == UNCHANGED <<refreshVars, cacheVars, status>>

(* One refresh at a time reads what Kafka is like now ...                  *)
Fetch ==
    /\ fetched = {}
    /\ ~installed
    /\ fetched' = {kafka}
    /\ UNCHANGED <<kafka, installed, cacheVars, status>>

(* ... replaces what was cached by it ...                                  *)
Install ==
    /\ \E c \in fetched : Usable(c) /\ endpoint' = c.leader /\ nodes' = c.brokers
    /\ fetched' = {}
    /\ installed' = TRUE
    /\ UNCHANGED <<kafka, status>>

(* ... and is the refresh of every call then in progress, of which some    *)
(* have their answer at once.                                              *)
Statuses == {"idle", "pending", "refreshed", "nil"}
Told(s) == IF s = "idle" THEN {"idle"}
           ELSE IF s = "nil" THEN {"nil"} ELSE {"refreshed", "nil"}

Refreshed ==
    /\ installed \/ \E c \in fetched : ~Usable(c)
    /\ fetched' = {}
    /\ installed' = FALSE
    /\ status' \in [Calls -> Statuses]
    /\ \A r \in Calls : status'[r] \in Told(status[r])
    /\ UNCHANGED <<kafka, cacheVars>>

(* The entry of the partition is deleted, whatever it is.                  *)
Forget ==
    /\ endpoint' = NoEntry
    /\ UNCHANGED <<kafka, refreshVars, nodes, status>>

-----------------------------------------------------------------------------
(* RefreshMetadata is called; nil is on its way; it returns nil, or an     *)
(* error, which it may at any time.                                        *)
Becomes(r, s) ==
    /\ status' = [status EXCEPT ![r] = s]
    /\ UNCHANGED <<kafka, refreshVars, cacheVars>>

Call(r) == status[r] = "idle" /\ Becomes(r, "pending")
Answer(r) == status[r] = "refreshed" /\ Becomes(r, "nil")
ReturnNil(r) == status[r] \in {"refreshed", "nil"} /\ Becomes(r, "idle")
ReturnError(r) == status[r] # "idle" /\ Becomes(r, "idle")

-----------------------------------------------------------------------------
Next ==
    \/ Change \/ Fetch \/ Install \/ Refreshed \/ Forget
    \/ \E r \in Calls : Call(r) \/ Answer(r) \/ ReturnNil(r) \/ ReturnError(r)

Spec == Init /\ [][Next]_vars
=============================================================================
