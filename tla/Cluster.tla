------------------------------ MODULE Cluster ------------------------------
(***************************************************************************)
(* The metadata of a Kafka cluster (cluster.go): the RefreshMetadata       *)
(* protocol, Fetch, cache and ForgetEndpoint.  How a Cluster comes to be,  *)
(* and the pools of its clients, are in MetadataCache.                     *)
(*                                                                         *)
(* RefreshMetadata starts a goroutine and waits for its answer with a      *)
(* timeout; the goroutine goes on after the caller has left.  A member of  *)
(* Calls is one call together with its goroutine.                          *)
(*                                                                         *)
(* The Kafka side is external: a change of the cluster is a new version,   *)
(* with the brokers that its metadata names and the addresses that answer  *)
(* (a broker that just starts answers and names no broker at all).  A      *)
(* broker is identified with its address, and all that the metadata says   *)
(* of a topic is the version it was read at.                               *)
(***************************************************************************)
EXTENDS Integers

CONSTANTS
    Addrs,           \* addresses
    Shapes,          \* what the Kafka cluster may be like
    Calls,           \* RefreshMetadata calls in progress at a time
    MaxVersion,      \* bound: versions of the Kafka cluster
    MaxEpoch,        \* bound: refreshes
    LastChange,      \* bound: refreshes before the last change
    NoCall, NoResp

Versions == 1..MaxVersion
AddrSets == SUBSET Addrs

ASSUME ClusterAssumption ==
    /\ Shapes \subseteq {s \in [brokers : AddrSets, alive : AddrSets] : s.brokers \subseteq s.alive}
    /\ NoCall \notin Calls
    /\ MaxVersion \in Nat \ {0}
    /\ MaxEpoch \in Nat
    /\ LastChange \in Nat

Response == [version : Versions, brokers : AddrSets]

ASSUME NoRespAssumption == \A m \in Response : NoResp # m

VARIABLES
    \* the Kafka cluster
    version, brokers, alive,
    \* Cluster
    epoch,      \* the counter of refreshes
    refLock,    \* the call whose goroutine holds refLock
    mu,         \* the call whose goroutine writes under mu
    created,    \* version of the cached metadata, 0 before the first
    nodes,      \* addresses of the cached brokers
    endpoint,   \* version that a partition's cached leader is from, 0 if none
    addrs,      \* addresses of the metadata pool, which Fetch asks
    \* RefreshMetadata
    caller,     \* [Calls -> where the caller is]
    began,      \* [Calls -> epoch when the call was made]
    go,         \* [Calls -> where the goroutine is]
    ctr1,       \* [Calls -> the epoch it loaded]
    todo,       \* [Calls -> addresses Fetch has yet to try]
    resp,       \* [Calls -> the response Fetch returned]
    update      \* [Calls -> content of updateChan]

kafkaVars == <<version, brokers, alive>>
metaVars == <<created, nodes, endpoint, addrs>>
goVars == <<go, ctr1, todo, resp, update>>
vars == <<kafkaVars, epoch, refLock, mu, metaVars, caller, began, goVars>>

Init ==
    /\ version = 1
    /\ \E s \in Shapes : brokers = s.brokers /\ alive = s.alive
    /\ epoch = 0
    /\ refLock = NoCall
    /\ mu = NoCall
    /\ created = 0
    /\ nodes = {}
    /\ endpoint = 0
    /\ addrs \in AddrSets \ {{}}
    /\ caller = [r \in Calls |-> "none"]
    /\ began = [r \in Calls |-> 0]
    /\ go = [r \in Calls |-> "none"]
    /\ ctr1 = [r \in Calls |-> 0]
    /\ todo = [r \in Calls |-> {}]
    /\ resp = [r \in Calls |-> NoResp]
    /\ update = [r \in Calls |-> "none"]

-----------------------------------------------------------------------------
(* The Kafka cluster changes.  Two refreshes may be needed to learn of it, *)
(* one that has its answer already and one more; where it matters that     *)
(* they fit under MaxEpoch, LastChange is that much smaller.               *)
Change(s) ==
    /\ version < MaxVersion
    /\ epoch <= LastChange
    /\ version' = version + 1
    /\ brokers' = s.brokers
    /\ alive' = s.alive
    /\ UNCHANGED <<epoch, refLock, mu, metaVars, caller, began, goVars>>

-----------------------------------------------------------------------------
(* A user of the cluster, or the periodic refresh, calls RefreshMetadata,  *)
(* which starts its goroutine.                                             *)
RefreshMetadata(r) ==
    /\ caller[r] = "none"
    /\ go[r] = "none"
    /\ caller' = [caller EXCEPT ![r] = "start"]
    /\ began' = [began EXCEPT ![r] = epoch]
    /\ go' = [go EXCEPT ![r] = "load"]
    /\ UNCHANGED <<kafkaVars, epoch, refLock, mu, metaVars,
                   ctr1, todo, resp, update>>

(* ctr1 is loaded before the lock is taken.                                *)
LoadEpoch(r) ==
    /\ go[r] = "load"
    /\ ctr1' = [ctr1 EXCEPT ![r] = epoch]
    /\ go' = [go EXCEPT ![r] = "lock"]
    /\ UNCHANGED <<kafkaVars, epoch, refLock, mu, metaVars, caller,
                   began, todo, resp, update>>

(* The goroutine's answer, for nobody if the caller has left.              *)
Send(r, answer) ==
    update' = [update EXCEPT ![r] = IF caller[r] = "none" THEN "none" ELSE answer]

(* The goroutine ends, and its locals with it.                             *)
End(r) ==
    /\ go' = [go EXCEPT ![r] = "none"]
    /\ ctr1' = [ctr1 EXCEPT ![r] = 0]

(* Someone else refreshed since ctr1 was loaded.  Mutants: the test is     *)
(* left out; it holds without a refresh.                                   *)
NeverMind(r) == FALSE
NotOlder(r) == epoch >= ctr1[r]
Refreshed(r) == epoch > ctr1[r]

(* refLock is free.  Mutant: there is no lock.                             *)
NoLock == TRUE
Unlocked == refLock = NoCall

Piggyback(r) ==
    /\ go[r] = "lock"
    /\ Unlocked
    /\ Refreshed(r)
    /\ Send(r, "nil")
    /\ End(r)
    /\ UNCHANGED <<kafkaVars, epoch, refLock, mu, metaVars, caller,
                   began, todo, resp>>

(* Nobody did: Fetch starts, with the addresses of the metadata pool.      *)
Lock(r) ==
    /\ go[r] = "lock"
    /\ Unlocked
    /\ ~Refreshed(r)
    /\ refLock' = r
    /\ todo' = [todo EXCEPT ![r] = addrs]
    /\ go' = [go EXCEPT ![r] = "fetch"]
    /\ UNCHANGED <<kafkaVars, epoch, mu, metaVars, caller, began,
                   ctr1, resp, update>>

(* Fetch dials an address in turn, in any order, and gets an answer (not   *)
(* any more at the bound) ...                                              *)
FetchAnswer(r, a) ==
    /\ go[r] = "fetch"
    /\ epoch < MaxEpoch
    /\ a \in todo[r] \cap alive
    /\ resp' = [resp EXCEPT ![r] = [version |-> version, brokers |-> brokers]]
    /\ todo' = [todo EXCEPT ![r] = {}]
    /\ go' = [go EXCEPT ![r] = "cache"]
    /\ UNCHANGED <<kafkaVars, epoch, refLock, mu, metaVars, caller,
                   began, ctr1, update>>

(* ... or fails, to dial or in the request, and goes on to the next.       *)
FetchFail(r, a) ==
    /\ go[r] = "fetch"
    /\ a \in todo[r]
    /\ todo' = [todo EXCEPT ![r] = @ \ {a}]
    /\ UNCHANGED <<kafkaVars, epoch, refLock, mu, metaVars, caller,
                   began, go, ctr1, resp, update>>

(* "cannot fetch metadata": the epoch stays as it is.                      *)
FetchError(r) ==
    /\ go[r] = "fetch"
    /\ todo[r] = {}
    /\ Send(r, "err")
    /\ refLock' = NoCall
    /\ End(r)
    /\ UNCHANGED <<kafkaVars, epoch, mu, metaVars, caller, began,
                   todo, resp>>

(* cache refuses a response without brokers.  Mutant: it does not.         *)
NeverRefused(bs) == FALSE
Refused(bs) == bs = {}

RefuseResponse(r) ==
    /\ go[r] = "cache"
    /\ Refused(resp[r].brokers)
    /\ go' = [go EXCEPT ![r] = "store"]
    /\ UNCHANGED <<kafkaVars, epoch, refLock, mu, metaVars, caller,
                   began, ctr1, todo, resp, update>>

(* Under mu the metadata is replaced as a whole, and then, with mu still   *)
(* held, the addresses of the pools (reinitializeAddrs).                   *)
Cache(r) ==
    /\ go[r] = "cache"
    /\ ~Refused(resp[r].brokers)
    /\ mu = NoCall
    /\ mu' = r
    /\ created' = resp[r].version
    /\ nodes' = resp[r].brokers
    /\ endpoint' = resp[r].version
    /\ go' = [go EXCEPT ![r] = "reinit"]
    /\ UNCHANGED <<kafkaVars, epoch, refLock, addrs, caller, began, ctr1,
                   todo, resp, update>>

ReinitializeAddrs(r) ==
    /\ go[r] = "reinit"
    /\ addrs' = resp[r].brokers
    /\ mu' = NoCall
    /\ go' = [go EXCEPT ![r] = "store"]
    /\ UNCHANGED <<kafkaVars, epoch, refLock, created, nodes, endpoint, caller,
                   began, ctr1, todo, resp, update>>

(* The epoch is stored, not incremented; the answer is sent ...            *)
StoreEpoch(r) ==
    /\ go[r] = "store"
    /\ epoch' = ctr1[r] + 1
    /\ Send(r, "nil")
    /\ resp' = [resp EXCEPT ![r] = NoResp]
    /\ go' = [go EXCEPT ![r] = "unlock"]
    /\ UNCHANGED <<kafkaVars, refLock, mu, metaVars, caller, began,
                   ctr1, todo>>

(* ... and the deferred Unlock runs.                                       *)
Unlock(r) ==
    /\ go[r] = "unlock"
    /\ refLock' = NoCall
    /\ End(r)
    /\ UNCHANGED <<kafkaVars, epoch, mu, metaVars, caller, began,
                   todo, resp, update>>

-----------------------------------------------------------------------------
(* The caller reads the timeout under mu before it waits.                  *)
GetTimeout(r) ==
    /\ caller[r] = "start"
    /\ mu = NoCall
    /\ caller' = [caller EXCEPT ![r] = "wait"]
    /\ UNCHANGED <<kafkaVars, epoch, refLock, mu, metaVars, began,
                   goVars>>

Return(r) ==
    /\ caller[r] = "wait"
    /\ update[r] # "none"
    /\ caller' = [caller EXCEPT ![r] = "none"]
    /\ began' = [began EXCEPT ![r] = 0]
    /\ update' = [update EXCEPT ![r] = "none"]
    /\ UNCHANGED <<kafkaVars, epoch, refLock, mu, metaVars,
                   go, ctr1, todo, resp>>

(* "timed out refreshing metadata": the goroutine goes on.                 *)
Timeout(r) ==
    /\ caller[r] = "wait"
    /\ caller' = [caller EXCEPT ![r] = "none"]
    /\ began' = [began EXCEPT ![r] = 0]
    /\ update' = [update EXCEPT ![r] = "none"]
    /\ UNCHANGED <<kafkaVars, epoch, refLock, mu, metaVars,
                   go, ctr1, todo, resp>>

-----------------------------------------------------------------------------
ForgetEndpoint ==
    /\ mu = NoCall
    /\ endpoint # 0
    /\ endpoint' = 0
    /\ UNCHANGED <<kafkaVars, epoch, refLock, mu, created, nodes, addrs,
                   caller, began, goVars>>

-----------------------------------------------------------------------------
GoNext(r) ==
    \/ LoadEpoch(r) \/ Piggyback(r) \/ Lock(r)
    \/ \E a \in Addrs : FetchAnswer(r, a)
    \/ \E a \in Addrs : FetchFail(r, a)
    \/ FetchError(r)
    \/ RefuseResponse(r) \/ Cache(r)
    \/ ReinitializeAddrs(r) \/ StoreEpoch(r) \/ Unlock(r)

CallerNext(r) ==
    RefreshMetadata(r) \/ GetTimeout(r) \/ Return(r) \/ Timeout(r)

Next ==
    \/ \E s \in Shapes : Change(s)
    \/ \E r \in Calls : CallerNext(r) \/ GoNext(r)
    \/ ForgetEndpoint

Spec == Init /\ [][Next]_vars

(* Fairness.  Goroutines run, and get a lock they wait for (sync.Mutex     *)
(* does not starve a waiter).  Dials and requests time out, so does the    *)
(* caller.  MetadataRefreshFrequency is set: the metadata is refreshed     *)
(* again and again.  Of the brokers: one that answers is not asked again   *)
(* and again without ever answering in time.                               *)
Fairness ==
    \A r \in Calls :
        /\ SF_vars(GoNext(r))
        /\ SF_vars(GetTimeout(r) \/ Return(r) \/ Timeout(r))
        /\ SF_vars(\E a \in Addrs : FetchAnswer(r, a))
        /\ WF_vars(RefreshMetadata(r))

FairSpec == Spec /\ Fairness

-----------------------------------------------------------------------------
(* The type invariant; the epoch is never below one that a call has read.  *)
TypeOK ==
    /\ version \in Versions
    /\ brokers \in AddrSets
    /\ alive \in AddrSets
    /\ epoch \in 0..MaxEpoch
    /\ refLock \in Calls \cup {NoCall}
    /\ mu \in Calls \cup {NoCall}
    /\ created \in 0..MaxVersion
    /\ nodes \in AddrSets
    /\ endpoint \in 0..MaxVersion
    /\ addrs \in AddrSets
    /\ caller \in [Calls -> {"none", "start", "wait"}]
    /\ began \in [Calls -> 0..epoch]
    /\ go \in [Calls -> {"none", "load", "lock", "fetch", "cache", "reinit",
                         "store", "unlock"}]
    /\ ctr1 \in [Calls -> 0..epoch]
    /\ todo \in [Calls -> AddrSets]
    /\ resp \in [Calls -> {NoResp} \cup Response]
    /\ update \in [Calls -> {"none", "nil", "err"}]

(* The refinement: Kafka as far as a response tells of it, the response    *)
(* that is not cached yet, and for each call whether the epoch has moved   *)
(* since it was made.                                                      *)
Content(v, bs) == [leader |-> v, brokers |-> bs]

Cached(r) == go[r] \in {"reinit", "store"} /\ resp[r].brokers # {}
Uncached(r) == go[r] = "cache" \/ (go[r] = "store" /\ resp[r].brokers = {})

Installed == \E r \in Calls : Cached(r)

Fetched ==
    {Content(resp[r].version, resp[r].brokers) : r \in {q \in Calls : Uncached(q)}}

Status ==
    [r \in Calls |->
        IF caller[r] = "none" THEN "idle"
        ELSE IF update[r] = "nil" THEN "nil"
        ELSE IF epoch > began[r] THEN "refreshed" ELSE "pending"]

Meta == INSTANCE Metadata WITH
    NoEntry <- 0,
    kafka <- Content(version, brokers),
    fetched <- Fetched,
    installed <- Installed,
    status <- Status

(* RefreshMetadata does what Metadata says: one refresh at a time, each    *)
(* taking what Kafka was like after the one before it, the metadata        *)
(* replaced as a whole, and nil only for a call during which a refresh     *)
(* ended.  The epoch is stored as ctr1 + 1 with ctr1 loaded before the     *)
(* lock was taken, and still no refresh is lost on a call that waits, nor  *)
(* undone by a goroutine that its caller has left.                         *)
ImplementsMetadata == Meta!Spec

(* There is always a broker to ask: no answer of the cluster leaves the    *)
(* client without an address to refresh from.                              *)
NeverStranded == addrs # {}

(* If in the end some address of the metadata pool answers and names       *)
(* brokers, the client learns the last version and keeps it.               *)
Converges ==
    <>[](addrs \cap alive # {} /\ brokers # {})
      => <>[](created = version)
=============================================================================
