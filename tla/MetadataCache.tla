---------------------------- MODULE MetadataCache ----------------------------
(***************************************************************************)
(* How brokers come to share what they use (metadata_cache.go,             *)
(* connection_cache.go, NewCluster and NewBroker): a Cluster by the name   *)
(* of the Kafka cluster, and for each Cluster a connection pool by client  *)
(* ID, which follows the addresses that the Cluster learns.                *)
(*                                                                         *)
(* A thread is one call of NewBroker; the Cluster and the throw-away cache *)
(* it makes, if it makes one, bear its name.  A Cluster refreshes itself   *)
(* as Metadata says: one refresh at a time, started by NewCluster or       *)
(* periodically, also if NewCluster has given up on it.  Addresses are     *)
(* known by their version, 0 being the list that the user gave.            *)
(***************************************************************************)
EXTENDS Integers, FiniteSets

CONSTANTS
    Threads,         \* calls of NewBroker
    Globals,         \* caches that InitializeMetadataCache may make
    Names,           \* names of Kafka clusters
    Clients,         \* client IDs
    MetadataClient,  \* metadataCacheClientID
    DialRetryLimit,  \* attempts of NewCluster
    MaxVersion,      \* bound: versions of the addresses
    NoCache, NoThread, NoCluster, NoPool

Caches == Globals \cup Threads
Pools == Clients \cup {MetadataClient}
Versions == 1..MaxVersion

ASSUME MetadataCacheAssumption ==
    /\ Globals \cap Threads = {}
    /\ MetadataClient \notin Clients
    /\ DialRetryLimit \in Nat
    /\ MaxVersion \in Nat \ {0}
    /\ NoCache \notin Caches
    /\ NoThread \notin Threads
    /\ NoCluster \notin Threads
    /\ NoPool \notin 0..MaxVersion

VARIABLES
    \* Kafka
    kafka,        \* version of the addresses of the Kafka clusters
    \* the caches
    global,       \* globalMetadataCache
    lock,         \* [Caches -> the thread that holds its lock]
    metadataMap,  \* [Caches -> [Names -> Cluster]]
    \* the Clusters
    refresh,      \* [Threads -> where the refresh of its Cluster is]
    fetched,      \* [Threads -> the version it has fetched]
    left,         \* [Threads -> pools that reinitializeAddrs has yet to update]
    pools,        \* [Threads -> [Pools -> addresses of the pool]]
    \* NewBroker
    pc,           \* [Threads -> where the call is]
    name, client, cache, cluster,  \* [Threads -> what it is about]
    try,          \* [Threads -> attempts of NewCluster]
    told,         \* threads during whose attempt a refresh ended
    want          \* [Threads -> addresses read by connectionPoolForClient]

cacheVars == <<global, lock, metadataMap>>
clusterVars == <<refresh, fetched, left, pools>>
argVars == <<name, client>>
callVars == <<argVars, cache, cluster, try, want>>
vars == <<kafka, cacheVars, clusterVars, pc, callVars, told>>

Init ==
    /\ kafka = 1
    /\ global = NoCache
    /\ lock = [k \in Caches |-> NoThread]
    /\ metadataMap = [k \in Caches |-> [n \in Names |-> NoCluster]]
    /\ refresh = [t \in Threads |-> "none"]
    /\ fetched = [t \in Threads |-> 0]
    /\ left = [t \in Threads |-> {}]
    /\ pools = [t \in Threads |-> [p \in Pools |-> NoPool]]
    /\ pc = [t \in Threads |-> "start"]
    /\ name \in [Threads -> Names]
    /\ client \in [Threads -> Clients]
    /\ cache = [t \in Threads |-> NoCache]
    /\ cluster = [t \in Threads |-> NoCluster]
    /\ try = [t \in Threads |-> 0]
    /\ told = {}
    /\ want = [t \in Threads |-> NoPool]

-----------------------------------------------------------------------------
(* The brokers of the Kafka clusters move to other addresses.              *)
Change ==
    /\ kafka < MaxVersion
    /\ kafka' = kafka + 1
    /\ UNCHANGED <<cacheVars, clusterVars, pc, callVars, told>>

(* A new cache; the brokers made before keep theirs.                       *)
InitializeMetadataCache(g) ==
    /\ g # global
    /\ \A n \in Names : metadataMap[g][n] = NoCluster
    /\ \A t \in Threads : cache[t] # g
    /\ global' = g
    /\ UNCHANGED <<kafka, lock, metadataMap, clusterVars, pc, callVars, told>>

uninitializeMetadataCache ==
    /\ global # NoCache
    /\ global' = NoCache
    /\ UNCHANGED <<kafka, lock, metadataMap, clusterVars, pc, callVars, told>>

-----------------------------------------------------------------------------
(* NewBroker: the global cache, or one made for this call alone.           *)
getMetadataCache(t) ==
    /\ pc[t] = "start"
    /\ cache' = [cache EXCEPT ![t] = IF global = NoCache THEN t ELSE global]
    /\ pc' = [pc EXCEPT ![t] = "get"]
    /\ UNCHANGED <<kafka, cacheVars, clusterVars, argVars, cluster, try, want, told>>

(* getOrCreateMetadata, with the lock of the cache.  Mutant: without.      *)
NoLock(t) == TRUE
Unlocked(t) == lock[cache[t]] = NoThread

Entry(t) == metadataMap[cache[t]][name[t]]

Found(t) ==
    /\ pc[t] = "get"
    /\ Unlocked(t)
    /\ Entry(t) # NoCluster
    /\ cluster' = [cluster EXCEPT ![t] = Entry(t)]
    /\ pc' = [pc EXCEPT ![t] = "addrs"]
    /\ UNCHANGED <<kafka, cacheVars, clusterVars, argVars, cache, try, want, told>>

(* NewCluster, for as long as it takes with the lock held: the pool for    *)
(* metadata gets the user's addresses.                                     *)
NewCluster(t) ==
    /\ pc[t] = "get"
    /\ Unlocked(t)
    /\ Entry(t) = NoCluster
    /\ lock' = [lock EXCEPT ![cache[t]] = t]
    /\ pools' = [pools EXCEPT ![t][MetadataClient] = 0]
    /\ refresh' = [refresh EXCEPT ![t] = "idle"]
    /\ pc' = [pc EXCEPT ![t] = "connect"]
    /\ UNCHANGED <<kafka, global, metadataMap, fetched, left, callVars, told>>

(* An attempt: RefreshMetadata, in a goroutine of its own.  Mutant: one    *)
(* attempt too many.                                                       *)
AttemptsAndOne(n) == n <= DialRetryLimit
MoreAttempts(n) == n < DialRetryLimit

Attempt(t) ==
    /\ pc[t] = "connect"
    /\ MoreAttempts(try[t])
    /\ try' = [try EXCEPT ![t] = @ + 1]
    /\ pc' = [pc EXCEPT ![t] = "wait"]
    /\ UNCHANGED <<kafka, cacheVars, clusterVars, argVars, cache, cluster, want, told>>

(* It fails, or is given up after DialTimeout though it goes on.           *)
AttemptFails(t) ==
    /\ pc[t] = "wait"
    /\ pc' = [pc EXCEPT ![t] = "connect"]
    /\ told' = told \ {t}
    /\ UNCHANGED <<kafka, cacheVars, clusterVars, callVars>>

(* The deferred Unlock.  Mutant: not on the way out with an error.         *)
StaysLocked(t) == UNCHANGED lock
Unlocks(t) == lock' = [lock EXCEPT ![cache[t]] = NoThread]

(* It succeeds: the Cluster is put into the map.                           *)
Created(t) ==
    /\ pc[t] = "wait"
    /\ t \in told
    /\ told' = told \ {t}
    /\ metadataMap' = [metadataMap EXCEPT ![cache[t]][name[t]] = t]
    /\ lock' = [lock EXCEPT ![cache[t]] = NoThread]
    /\ cluster' = [cluster EXCEPT ![t] = t]
    /\ try' = [try EXCEPT ![t] = 0]
    /\ pc' = [pc EXCEPT ![t] = "addrs"]
    /\ UNCHANGED <<kafka, global, clusterVars, argVars, cache, want>>

(* "cannot connect (exhausted retries)": nothing is cached.                *)
NewClusterFails(t) ==
    /\ pc[t] = "connect"
    /\ ~MoreAttempts(try[t])
    /\ Unlocks(t)
    /\ try' = [try EXCEPT ![t] = 0]
    /\ pc' = [pc EXCEPT ![t] = "failed"]
    /\ UNCHANGED <<kafka, global, metadataMap, clusterVars, argVars, cache,
                   cluster, want, told>>

-----------------------------------------------------------------------------
(* connectionPoolForClient reads the metadata pool's addresses ...         *)
connectionPoolForClient(t) ==
    /\ pc[t] = "addrs"
    /\ want' = [want EXCEPT ![t] = pools[cluster[t]][MetadataClient]]
    /\ pc' = [pc EXCEPT ![t] = "pool"]
    /\ UNCHANGED <<kafka, cacheVars, clusterVars, argVars, cache, cluster, try, told>>

(* The lock of a Cluster's pool cache is free.                             *)
PoolsUnlocked(k) == refresh[k] # "reinit"

(* ... and only then takes the pool cache's lock: an existing pool is      *)
(* returned as it is, a new one gets those addresses.                      *)
getOrCreateConnectionPool(t) ==
    LET k == cluster[t] IN
    /\ pc[t] = "pool"
    /\ PoolsUnlocked(k)
    /\ pools' = [pools EXCEPT ![k][client[t]] = IF @ = NoPool THEN want[t] ELSE @]
    /\ want' = [want EXCEPT ![t] = NoPool]
    /\ pc' = [pc EXCEPT ![t] = "done"]
    /\ UNCHANGED <<kafka, cacheVars, refresh, fetched, left, argVars, cache,
                   cluster, try, told>>

-----------------------------------------------------------------------------
(* A refresh ends without an error, during an attempt of NewCluster or not. *)
Ended(k) == told' = IF pc[k] = "wait" THEN told \cup {k} ELSE told

(* A refresh of Cluster k: it reads the addresses, ...                     *)
Fetch(k) ==
    /\ refresh[k] = "idle"
    /\ fetched' = [fetched EXCEPT ![k] = kafka]
    /\ refresh' = [refresh EXCEPT ![k] = "cache"]
    /\ UNCHANGED <<kafka, cacheVars, left, pools, pc, callVars, told>>

(* The pools that reinitializeAddrs goes through.  Mutant: none if the     *)
(* addresses are those that Fetch asks already.                            *)
OnlyIfNew(k) ==
    {p \in Pools : pools[k][p] # NoPool /\ pools[k][MetadataClient] # fetched[k]}
Known(k) == {p \in Pools : pools[k][p] # NoPool}

(* ... takes the lock of the pool cache (reinitializeAddrs), ...           *)
Cache(k) ==
    /\ refresh[k] = "cache"
    /\ left' = [left EXCEPT ![k] = Known(k)]
    /\ refresh' = [refresh EXCEPT ![k] = "reinit"]
    /\ UNCHANGED <<kafka, cacheVars, fetched, pools, pc, callVars, told>>

(* ... unless it refuses a response that lists no broker, without an       *)
(* error, ...                                                              *)
Refused(k) ==
    /\ refresh[k] = "cache"
    /\ refresh' = [refresh EXCEPT ![k] = "idle"]
    /\ fetched' = [fetched EXCEPT ![k] = 0]
    /\ Ended(k)
    /\ UNCHANGED <<kafka, cacheVars, left, pools, pc, callVars>>

(* ... gives each pool the addresses in turn, ...                          *)
InitializeAddrs(k, p) ==
    /\ refresh[k] = "reinit"
    /\ p \in left[k]
    /\ pools' = [pools EXCEPT ![k][p] = fetched[k]]
    /\ left' = [left EXCEPT ![k] = @ \ {p}]
    /\ UNCHANGED <<kafka, cacheVars, refresh, fetched, pc, callVars, told>>

(* ... and ends.                                                           *)
Refreshed(k) ==
    /\ refresh[k] = "reinit"
    /\ left[k] = {}
    /\ refresh' = [refresh EXCEPT ![k] = "idle"]
    /\ fetched' = [fetched EXCEPT ![k] = 0]
    /\ Ended(k)
    /\ UNCHANGED <<kafka, cacheVars, left, pools, pc, callVars>>

-----------------------------------------------------------------------------
CallNext(t) ==
    \/ getMetadataCache(t) \/ Found(t) \/ NewCluster(t) \/ Attempt(t)
    \/ AttemptFails(t) \/ Created(t) \/ NewClusterFails(t)
    \/ connectionPoolForClient(t) \/ getOrCreateConnectionPool(t)

RefreshNext(k) ==
    \/ Fetch(k) \/ Cache(k) \/ Refused(k) \/ Refreshed(k)
    \/ \E p \in Pools : InitializeAddrs(k, p)

Next ==
    \/ Change
    \/ \E g \in Globals : InitializeMetadataCache(g)
    \/ uninitializeMetadataCache
    \/ \E t \in Threads : CallNext(t) \/ RefreshNext(t)

Spec == Init /\ [][Next]_vars

(* Fairness.  An attempt ends, by DialTimeout if nothing else; a mutex     *)
(* does not starve those that wait for it; refreshes go on, periodically   *)
(* if MetadataRefreshFrequency is set, and not every response lists no     *)
(* broker.                                                                 *)
Fairness ==
    \A t \in Threads :
        /\ SF_vars(CallNext(t))
        /\ WF_vars(RefreshNext(t))
        /\ SF_vars(Cache(t))

FairSpec == Spec /\ Fairness

-----------------------------------------------------------------------------
(* The type invariant.                                                     *)
TypeOK ==
    /\ kafka \in Versions
    /\ global \in {NoCache} \cup Globals
    /\ lock \in [Caches -> {NoThread} \cup Threads]
    /\ metadataMap \in [Caches -> [Names -> {NoCluster} \cup Threads]]
    /\ refresh \in [Threads -> {"none", "idle", "cache", "reinit"}]
    /\ fetched \in [Threads -> 0..MaxVersion]
    /\ left \in [Threads -> SUBSET Pools]
    /\ pools \in [Threads -> [Pools -> {NoPool} \cup 0..MaxVersion]]
    /\ pc \in [Threads -> {"start", "get", "connect", "wait", "addrs", "pool",
                           "done", "failed"}]
    /\ name \in [Threads -> Names]
    /\ client \in [Threads -> Clients]
    /\ cache \in [Threads -> {NoCache} \cup Caches]
    /\ cluster \in [Threads -> {NoCluster} \cup Threads]
    /\ try \in [Threads -> 0..DialRetryLimit]
    /\ told \subseteq Threads
    /\ want \in [Threads -> {NoPool} \cup 0..MaxVersion]

(* "Entries are never removed or changed": brokers for one Kafka cluster,  *)
(* made through one cache, share one Cluster, which is the one that the    *)
(* cache still has, though NewCluster may take long, and fail, in between. *)
Shared ==
    \A t \in Threads : cluster[t] # NoCluster =>
        /\ Entry(t) = cluster[t]
        /\ name[cluster[t]] = name[t]

(* A refresh leaves every client's pool with the addresses it learned,     *)
(* the one Fetch asks too, also a pool that was made, from older           *)
(* addresses, while it fetched.                                            *)
PoolsFollow ==
    [][\A k \in Threads : refresh[k] = "reinit" /\ refresh'[k] = "idle" =>
          \A p \in Pools : pools[k][p] \in {NoPool, fetched[k]}]_vars

(* In the end every pool has the addresses that Kafka's brokers have, also *)
(* one that was made, from addresses read before, after the refresh that   *)
(* brought the last ones had gone through the pools.                       *)
PoolsLearn ==
    <>[](\A k \in Threads, p \in Pools : pools[k][p] \in {NoPool, kafka})

(* NewBroker returns, however many calls before it fail under the lock: as *)
(* a thread makes one call, in the end none is inside.                     *)
NewBrokerReturns ==
    <>[](\A t \in Threads : pc[t] \in {"start", "done", "failed"})
=============================================================================
