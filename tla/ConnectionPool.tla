--------------------------- MODULE ConnectionPool ---------------------------
(***************************************************************************)
(* The per-client connection pool of connection_pool.go: a map from broker *)
(* address to a backend, each backend with a buffered channel of idle      *)
(* connections, the list of every connection it tracks and the counter     *)
(* that is held against ConnectionLimit.                                   *)
(*                                                                         *)
(* Many goroutines share one pool.  Threads ask for a connection by        *)
(* address (GetConnectionByAddr) or for any idle one (GetIdleConnection),  *)
(* use it and give it back through a goroutine of its own (go Idle).       *)
(* Meanwhile a metadata refresh calls InitializeAddrs, which creates and   *)
(* closes backends.  A thread keeps the *backend it looked up, so it may   *)
(* work on a backend that has left the map.  A backend is named by its     *)
(* address and its generation, <<a, g>>: an address that is removed and    *)
(* added again gets a new backend object.                                  *)
(*                                                                         *)
(* Atomicity.  A step is what happens under one acquisition of a mutex, or *)
(* one channel operation.  A receive or send on the channel is merged with *)
(* the IsClosed test beside it: only backend.Close closes a connection     *)
(* that it does not own, and that commutes with the channel operation.     *)
(* The dial inside getNewConnection is a step of its own because it        *)
(* happens with the backend's mutex held and may take DialTimeout.         *)
(* debugHitMaxConnections only logs and is left out.                       *)
(***************************************************************************)
EXTENDS Integers, Sequences, FiniteSets

CONSTANTS
    Threads,    \* goroutines that use the pool
    Conns,      \* connection objects; bounds the number of successful dials
    Addrs,      \* broker addresses
    Limit,      \* ConnectionLimit
    MaxGen,     \* bound: backend objects ever created for one address
    MaxHeld,    \* bound: connections one thread holds at a time
    NoThread,   \* the owner of a mutex nobody holds
    NoBackend   \* the nil *backend

Backends == Addrs \X (1..MaxGen)

ASSUME PoolAssumption ==
    /\ Limit \in Nat
    /\ MaxGen \in Nat \ {0}
    /\ MaxHeld \in Nat \ {0}
    /\ NoThread \notin Threads
    /\ NoBackend \notin Backends
    /\ IsFiniteSet(Conns)

VARIABLES
    \* connectionPool
    backends,       \* [Addrs -> 0..MaxGen]: generation in the map, 0 = no key
    created,        \* [Addrs -> 0..MaxGen]: backend objects created so far
    deletedAddrs,   \* addresses InitializeAddrs still has to close; cp.mu is
                    \* write-locked exactly while this is not empty
    \* backend
    channel,        \* [Backends -> Seq(Conns)]: idle connections
    conns,          \* [Backends -> SUBSET Conns]: every tracked connection
    counter,        \* [Backends -> Int]
    mu,             \* [Backends -> Threads or NoThread]: who dials under b.mu
    \* connection
    dialedBy,       \* [Conns -> Backends or NoBackend]: NoBackend = not dialled
    closed,         \* connections whose closed flag is set
    \* goroutines
    pc,             \* [Threads -> where in which call the thread is]
    be,             \* [Threads -> the *backend of the call in progress]
    popped,         \* [Threads -> set holding a closed connection to remove]
    todo,           \* [Threads -> addresses GetIdleConnection has yet to try]
    held,           \* [Threads -> connections in use by the thread]
    idle,           \* [Conns -> where the goroutine running Idle(c) is]
    idleBe          \* [Conns -> the *backend that goroutine looked up]

poolVars == <<backends, created, deletedAddrs>>
backendVars == <<channel, conns, counter, mu>>
connVars == <<dialedBy, closed>>
threadVars == <<pc, be, popped, todo, held>>
idleVars == <<idle, idleBe>>
vars == <<poolVars, backendVars, connVars, threadVars, idleVars>>

-----------------------------------------------------------------------------
(* Vocabulary.                                                             *)

Fresh == {c \in Conns : dialedBy[c] = NoBackend}
Open(c) == dialedBy[c] # NoBackend /\ c \notin closed
Addr(b) == b[1]
InChannel(b) == {channel[b][i] : i \in DOMAIN channel[b]}

(* The backend in the map is the one a lookup finds now.                   *)
Live(b) == backends[Addr(b)] = b[2]

(* cp.mu can be read-locked.                                               *)
Unlocked == deletedAddrs = {}

(* getBackend: the pointer in the map, or nil.                             *)
getBackend(a) == IF backends[a] = 0 THEN NoBackend ELSE <<a, backends[a]>>

GetAllAddrs == {a \in Addrs : backends[a] # 0}

-----------------------------------------------------------------------------
(* newConnectionPool creates backends for the seed addresses.              *)
Init ==
    /\ \E nodes \in SUBSET Addrs :
          /\ backends = [a \in Addrs |-> IF a \in nodes THEN 1 ELSE 0]
          /\ created = backends
    /\ deletedAddrs = {}
    /\ channel = [b \in Backends |-> <<>>]
    /\ conns = [b \in Backends |-> {}]
    /\ counter = [b \in Backends |-> 0]
    /\ mu = [b \in Backends |-> NoThread]
    /\ dialedBy = [c \in Conns |-> NoBackend]
    /\ closed = {}
    /\ pc = [t \in Threads |-> "run"]
    /\ be = [t \in Threads |-> NoBackend]
    /\ popped = [t \in Threads |-> {}]
    /\ todo = [t \in Threads |-> {}]
    /\ held = [t \in Threads |-> {}]
    /\ idle = [c \in Conns |-> "none"]
    /\ idleBe = [c \in Conns |-> NoBackend]

-----------------------------------------------------------------------------
(* The keys of the map that the new list does not name.  Mutant: every     *)
(* address it does not name, in the map or not.                            *)
DeletedAnyAddrs(addrs) == Addrs \ addrs
DeletedAddrs(addrs) == GetAllAddrs \ addrs

(* connectionPool.InitializeAddrs.  The first step creates the missing     *)
(* backends and finds the addresses that are gone; each of those is then   *)
(* closed under its backend's mutex, with cp.mu held for writing all the   *)
(* while.  Other addresses of the cluster are not in Addrs, so an update   *)
(* may name none of these.                                                 *)
InitializeAddrs(addrs) ==
    /\ Unlocked
    /\ \A a \in addrs : backends[a] = 0 => created[a] < MaxGen
    /\ created' = [a \in Addrs |-> IF a \in addrs /\ backends[a] = 0
                                   THEN created[a] + 1 ELSE created[a]]
    /\ backends' = [a \in Addrs |-> IF a \in addrs /\ backends[a] = 0
                                    THEN created[a] + 1 ELSE backends[a]]
    /\ deletedAddrs' = DeletedAddrs(addrs)
    /\ UNCHANGED <<backendVars, connVars, threadVars, idleVars>>

(* backend.Close and the delete that follows it.  The counter is cleared,  *)
(* the list of connections is not.                                         *)
CloseBackend(a) ==
    LET b == <<a, backends[a]>> IN
    /\ a \in deletedAddrs
    /\ mu[b] = NoThread
    /\ closed' = closed \cup conns[b]
    /\ counter' = [counter EXCEPT ![b] = 0]
    /\ backends' = [backends EXCEPT ![a] = 0]
    /\ deletedAddrs' = deletedAddrs \ {a}
    /\ UNCHANGED <<created, channel, conns, mu, dialedBy, threadVars, idleVars>>

-----------------------------------------------------------------------------
(* GetConnectionByAddr: look the backend up; without one the call fails    *)
(* at once and changes nothing.                                            *)
CallGetConnectionByAddr(t, a) ==
    /\ pc[t] = "run"
    /\ Unlocked
    /\ Cardinality(held[t]) < MaxHeld
    /\ getBackend(a) # NoBackend
    /\ pc' = [pc EXCEPT ![t] = "get"]
    /\ be' = [be EXCEPT ![t] = getBackend(a)]
    /\ UNCHANGED <<poolVars, backendVars, connVars, popped, todo, held, idleVars>>

(* The receive case shared by the selects of backend.GetConnection and     *)
(* backend.GetIdleConnection: an open connection is returned, a closed one *)
(* is taken to removeConnection.                                           *)
Receive(t, remove) ==
    LET b == be[t]
        c == Head(channel[b])
    IN  /\ channel[b] # <<>>
        /\ channel' = [channel EXCEPT ![b] = Tail(@)]
        /\ \/ /\ c \notin closed
              /\ held' = [held EXCEPT ![t] = @ \cup {c}]
              /\ pc' = [pc EXCEPT ![t] = "run"]
              /\ be' = [be EXCEPT ![t] = NoBackend]
              /\ todo' = [todo EXCEPT ![t] = {}]
              /\ UNCHANGED popped
           \/ /\ c \in closed
              /\ popped' = [popped EXCEPT ![t] = {c}]
              /\ pc' = [pc EXCEPT ![t] = remove]
              /\ UNCHANGED <<held, be, todo>>
        /\ UNCHANGED <<poolVars, conns, counter, mu, connVars, idleVars>>

GetConnectionReceive(t) == pc[t] = "get" /\ Receive(t, "getremove")

(* 2 * DialTimeout has passed: NoConnectionsAvailable.                     *)
GetConnectionTimeout(t) ==
    /\ pc[t] = "get"
    /\ pc' = [pc EXCEPT ![t] = "run"]
    /\ be' = [be EXCEPT ![t] = NoBackend]
    /\ UNCHANGED <<poolVars, backendVars, connVars, popped, todo, held, idleVars>>

(* The quota test of getNewConnection.  Mutant: off by one.                *)
AboveLimit(b) == counter[b] > Limit
AtLimit(b) == counter[b] >= Limit

(* IdleConnectionWait has passed: getNewConnection takes the mutex.  At    *)
(* the limit it drops the closed connections from its list; if there were  *)
(* none it gives up (nil, nil) and GetConnection loops, otherwise, and     *)
(* below the limit, it goes on to dial with the mutex held.                *)
getNewConnection(t) ==
    LET b == be[t]
        newConns == {c \in conns[b] : c \notin closed}
    IN  /\ pc[t] = "get"
        /\ mu[b] = NoThread
        /\ ~(AtLimit(b) /\ Cardinality(newConns) = counter[b])
        /\ IF AtLimit(b)
           THEN /\ conns' = [conns EXCEPT ![b] = newConns]
                /\ counter' = [counter EXCEPT ![b] = Cardinality(newConns)]
           ELSE UNCHANGED <<conns, counter>>
        /\ mu' = [mu EXCEPT ![b] = t]
        /\ pc' = [pc EXCEPT ![t] = "dial"]
        /\ UNCHANGED <<poolVars, channel, connVars, be, popped, todo, held, idleVars>>

(* The deferred Unlock.                                                    *)
Unlock(b) == mu' = [mu EXCEPT ![b] = NoThread]

(* newTCPConnection succeeds: count the connection and return it.          *)
DialOK(t, c) ==
    LET b == be[t] IN
    /\ pc[t] = "dial"
    /\ c \in Fresh
    /\ dialedBy' = [dialedBy EXCEPT ![c] = b]
    /\ counter' = [counter EXCEPT ![b] = @ + 1]
    /\ conns' = [conns EXCEPT ![b] = @ \cup {c}]
    /\ Unlock(b)
    /\ held' = [held EXCEPT ![t] = @ \cup {c}]
    /\ pc' = [pc EXCEPT ![t] = "run"]
    /\ be' = [be EXCEPT ![t] = NoBackend]
    /\ UNCHANGED <<poolVars, channel, closed, popped, todo, idleVars>>

(* Mutant: a failed dial is tried again, with the mutex still held.        *)
DialAgain(t) == pc[t] = "dial" /\ UNCHANGED vars

(* newTCPConnection fails: the error is returned, nothing is counted.      *)
DialFail(t) ==
    /\ pc[t] = "dial"
    /\ Unlock(be[t])
    /\ pc' = [pc EXCEPT ![t] = "run"]
    /\ be' = [be EXCEPT ![t] = NoBackend]
    /\ UNCHANGED <<poolVars, channel, conns, counter, connVars, popped, todo,
                   held, idleVars>>

(* removeConnection: only a connection that is still tracked is counted    *)
(* down (getNewConnection may have dropped it from the list before).       *)
(* Mutant: it is counted down in any case.                                 *)
LessOne(b, c) == counter[b] - 1
Less(b, c) == IF c \in conns[b] THEN counter[b] - 1 ELSE counter[b]

removeConnection(b, c) ==
    /\ mu[b] = NoThread
    /\ conns' = [conns EXCEPT ![b] = @ \ {c}]
    /\ counter' = [counter EXCEPT ![b] = Less(b, c)]

(* The closed connection a receive turned up is removed, and the loop of   *)
(* the caller goes round again.                                            *)
RemoveReceived(t) ==
    /\ pc[t] \in {"getremove", "scanremove"}
    /\ \E c \in popped[t] : removeConnection(be[t], c)
    /\ popped' = [popped EXCEPT ![t] = {}]
    /\ pc' = [pc EXCEPT ![t] = IF @ = "getremove" THEN "get" ELSE "scanbackend"]
    /\ UNCHANGED <<poolVars, channel, mu, connVars, be, todo, held, idleVars>>

-----------------------------------------------------------------------------
(* connectionPool.GetIdleConnection: a snapshot of the addresses, each     *)
(* tried in a random order, its backend looked up when its turn comes.     *)
CallGetIdleConnection(t) ==
    /\ pc[t] = "run"
    /\ Unlocked
    /\ Cardinality(held[t]) < MaxHeld
    /\ pc' = [pc EXCEPT ![t] = "scan"]
    /\ todo' = [todo EXCEPT ![t] = GetAllAddrs]
    /\ UNCHANGED <<poolVars, backendVars, connVars, be, popped, held, idleVars>>

ScanNextAddr(t, a) ==
    /\ pc[t] = "scan"
    /\ Unlocked
    /\ a \in todo[t]
    /\ todo' = [todo EXCEPT ![t] = @ \ {a}]
    /\ be' = [be EXCEPT ![t] = getBackend(a)]
    /\ pc' = [pc EXCEPT ![t] = IF getBackend(a) = NoBackend THEN "scan"
                               ELSE "scanbackend"]
    /\ UNCHANGED <<poolVars, backendVars, connVars, popped, held, idleVars>>

ScanReceive(t) == pc[t] = "scanbackend" /\ Receive(t, "scanremove")

(* The channel is empty: backend.GetIdleConnection returns nil.            *)
ScanBackendEmpty(t) ==
    /\ pc[t] = "scanbackend"
    /\ channel[be[t]] = <<>>
    /\ pc' = [pc EXCEPT ![t] = "scan"]
    /\ be' = [be EXCEPT ![t] = NoBackend]
    /\ UNCHANGED <<poolVars, backendVars, connVars, popped, todo, held, idleVars>>

(* Every address tried: the pool's GetIdleConnection returns nil.          *)
ScanDone(t) ==
    /\ pc[t] = "scan"
    /\ todo[t] = {}
    /\ pc' = [pc EXCEPT ![t] = "run"]
    /\ UNCHANGED <<poolVars, backendVars, connVars, be, popped, todo, held, idleVars>>

-----------------------------------------------------------------------------
(* The user of a connection closes it when a request on it fails.          *)
CloseHeld(t, c) ==
    /\ pc[t] = "run"
    /\ c \in held[t] \ closed
    /\ closed' = closed \cup {c}
    /\ UNCHANGED <<poolVars, backendVars, dialedBy, threadVars, idleVars>>

(* What a thread still uses once it has given c back.  Mutant: c too.      *)
KeepUsing(t, c) == held[t]
StopUsing(t, c) == held[t] \ {c}

(* The user is done with it: go Idle(c).                                   *)
Release(t, c) ==
    /\ pc[t] = "run"
    /\ c \in held[t]
    /\ held' = [held EXCEPT ![t] = StopUsing(t, c)]
    /\ idle' = [idle EXCEPT ![c] = "lookup"]
    /\ UNCHANGED <<poolVars, backendVars, connVars, pc, be, popped, todo, idleBe>>

(* What Idle does with the backend it finds.  Mutant: without a backend    *)
(* the connection is dropped and stays open.                               *)
DropOrPut(b) == IF b = NoBackend THEN "none" ELSE "put"
CloseOrPut(b) == IF b = NoBackend THEN "close" ELSE "put"

(* connectionPool.Idle looks the backend of the connection's address up,   *)
(* which need not be the backend that dialled it.                          *)
IdleLookup(c) ==
    LET b == getBackend(Addr(dialedBy[c])) IN
    /\ idle[c] = "lookup"
    /\ Unlocked
    /\ idle' = [idle EXCEPT ![c] = CloseOrPut(b)]
    /\ idleBe' = [idleBe EXCEPT ![c] = b]
    /\ UNCHANGED <<poolVars, backendVars, connVars, threadVars>>

(* The test Idle makes before it queues.  Mutant: it makes none.           *)
AnyConn(c) == TRUE
NotClosed(c) == c \notin closed

(* backend.Idle: a closed connection is only removed, an open one is       *)
(* queued if the channel has room and dropped if it has not.               *)
IdlePut(c) ==
    LET b == idleBe[c]
        room == Len(channel[b]) < Limit
    IN  /\ idle[c] = "put"
        /\ IF NotClosed(c) /\ room
           THEN /\ channel' = [channel EXCEPT ![b] = Append(@, c)]
                /\ idle' = [idle EXCEPT ![c] = "none"]
                /\ idleBe' = [idleBe EXCEPT ![c] = NoBackend]
           ELSE /\ idle' = [idle EXCEPT ![c] = IF NotClosed(c) THEN "excess"
                                               ELSE "remove"]
                /\ UNCHANGED <<channel, idleBe>>
        /\ UNCHANGED <<poolVars, conns, counter, mu, connVars, threadVars>>

(* removeConnection as called by Idle, for a closed or an excess one.      *)
IdleRemove(c) ==
    /\ idle[c] \in {"remove", "excess"}
    /\ removeConnection(idleBe[c], c)
    /\ idle' = [idle EXCEPT ![c] = IF @ = "excess" THEN "close" ELSE "none"]
    /\ idleBe' = [idleBe EXCEPT ![c] = NoBackend]
    /\ UNCHANGED <<poolVars, channel, mu, connVars, threadVars>>

(* conn.Close at the end of Idle: no backend, or one connection too many.  *)
IdleClose(c) ==
    /\ idle[c] = "close"
    /\ closed' = closed \cup {c}
    /\ idle' = [idle EXCEPT ![c] = "none"]
    /\ UNCHANGED <<poolVars, backendVars, dialedBy, threadVars, idleBe>>

-----------------------------------------------------------------------------
ThreadNext(t) ==
    \/ \E a \in Addrs : CallGetConnectionByAddr(t, a)
    \/ GetConnectionReceive(t)
    \/ GetConnectionTimeout(t)
    \/ getNewConnection(t)
    \/ \E c \in Conns : DialOK(t, c)
    \/ DialFail(t)
    \/ RemoveReceived(t)
    \/ CallGetIdleConnection(t)
    \/ \E a \in Addrs : ScanNextAddr(t, a)
    \/ ScanReceive(t)
    \/ ScanBackendEmpty(t)
    \/ ScanDone(t)
    \/ \E c \in Conns : CloseHeld(t, c)
    \/ \E c \in Conns : Release(t, c)

IdleNext(c) == IdleLookup(c) \/ IdlePut(c) \/ IdleRemove(c) \/ IdleClose(c)

Next ==
    \/ \E addrs \in SUBSET Addrs : InitializeAddrs(addrs)
    \/ \E a \in Addrs : CloseBackend(a)
    \/ \E t \in Threads : ThreadNext(t)
    \/ \E c \in Conns : IdleNext(c)

Spec == Init /\ [][Next]_vars

(* Fairness.  Goroutines that can run do run.  A step that needs a mutex   *)
(* gets it in the end, however often others take it: sync.Mutex hands a    *)
(* waiter the lock after it has starved for a millisecond (so strong       *)
(* fairness).  A dial ends, by net.DialTimeout.  The timer of              *)
(* GetConnection stays ready once it has fired and select chooses          *)
(* uniformly among what is ready, so it is not passed over for ever.       *)
(* Nothing forces a thread to make a call, to close what it holds, or a    *)
(* refresh to happen.                                                      *)
Fairness ==
    /\ \A a \in Addrs : SF_vars(CloseBackend(a))
    /\ \A t \in Threads :
          /\ SF_vars(GetConnectionTimeout(t))
          /\ WF_vars(DialFail(t) \/ \E c \in Conns : DialOK(t, c))
          /\ SF_vars(RemoveReceived(t))
          /\ SF_vars(\E a \in Addrs : ScanNextAddr(t, a))
          /\ WF_vars(ScanReceive(t) \/ ScanBackendEmpty(t) \/ ScanDone(t))
    /\ \A c \in Conns : SF_vars(IdleNext(c))

FairSpec == Spec /\ Fairness

-----------------------------------------------------------------------------
ThreadPCs ==
    {"run", "get", "dial", "getremove", "scan", "scanbackend", "scanremove"}

(* The type invariant.                                                     *)
TypeOK ==
    /\ backends \in [Addrs -> 0..MaxGen]
    /\ created \in [Addrs -> 0..MaxGen]
    /\ deletedAddrs \subseteq GetAllAddrs
    /\ channel \in [Backends -> Seq(Conns)]
    /\ conns \in [Backends -> SUBSET Conns]
    /\ counter \in [Backends -> Int]
    /\ mu \in [Backends -> Threads \cup {NoThread}]
    /\ dialedBy \in [Conns -> Backends \cup {NoBackend}]
    /\ closed \subseteq Conns
    /\ pc \in [Threads -> ThreadPCs]
    /\ be \in [Threads -> Backends \cup {NoBackend}]
    /\ popped \in [Threads -> SUBSET Conns]
    /\ todo \in [Threads -> SUBSET Addrs]
    /\ held \in [Threads -> SUBSET Conns]
    /\ idle \in [Conns -> {"none", "lookup", "put", "remove", "excess", "close"}]
    /\ idleBe \in [Conns -> Backends \cup {NoBackend}]

(* The accounting of a backend in the map is exact: the counter that       *)
(* getNewConnection holds against ConnectionLimit is the number of tracked *)
(* connections and never exceeds the limit, and every open connection the  *)
(* backend dialled is tracked (unless Idle is just closing it as excess).  *)
(* Decrements come from three places (removal after a receive, removal by  *)
(* Idle, the recount at the limit) that race for the same connection.      *)
QuotaExact ==
    \A b \in Backends : Live(b) =>
        /\ counter[b] = Cardinality(conns[b])
        /\ counter[b] <= Limit
        /\ \A c \in Conns :
              dialedBy[c] = b /\ Open(c) /\ idle[c] # "close" => c \in conns[b]

(* A connection is NOT THREAD SAFE and must be owned by one caller at a    *)
(* time (connection.go): no two threads hold it, and one that is held, or  *)
(* in the hands of an Idle goroutine, is in no channel.                    *)
ExclusiveOwner ==
    \A c \in Conns :
        /\ \A t, u \in Threads : c \in held[t] \cap held[u] => t = u
        /\ \A t \in Threads : c \in held[t] => idle[c] = "none"
        /\ \A b \in Backends :
              /\ \A i, j \in DOMAIN channel[b] :
                    channel[b][i] = c /\ channel[b][j] = c => i = j
              /\ c \in InChannel(b) =>
                    /\ idle[c] = "none"
                    /\ \A t \in Threads : c \notin held[t]
                    /\ \A d \in Backends \ {b} : c \notin InChannel(d)

(* As long as an address has not been removed and added again, Idle finds  *)
(* room in the channel ("in theory this can never happen").                *)
NoExcess ==
    \A c \in Conns :
        idle[c] = "excess" => created[Addr(dialedBy[c])] > 1

(* As long as an address has not been removed and added again, no          *)
(* connection leaks: one that is open and in nobody's hands waits in the   *)
(* channel of a backend that callers can still find.                       *)
NoLeak ==
    \A c \in Conns :
        Open(c) /\ idle[c] = "none" /\ (\A t \in Threads : c \notin held[t])
          => \/ \E b \in Backends : Live(b) /\ c \in InChannel(b)
             \/ created[Addr(dialedBy[c])] > 1

(* A closed connection is never queued in the channel of a live backend:   *)
(* whoever receives from it gets a connection that can be used.            *)
IdleIsOpen ==
    \A b \in Backends : Live(b) => InChannel(b) \cap closed = {}

(* Nothing hangs between the pool's lock, the backends' mutexes and a dial *)
(* in progress: every call for a connection returns, with one or without;  *)
(* InitializeAddrs ends although it waits, with cp.mu held, for mutexes    *)
(* under which other goroutines dial; and so does the goroutine that gives *)
(* a connection back.                                                      *)
CallsReturn ==
    /\ \A t \in Threads : pc[t] # "run" ~> pc[t] = "run"
    /\ deletedAddrs # {} ~> deletedAddrs = {}
    /\ \A c \in Conns : idle[c] # "none" ~> idle[c] = "none"
=============================================================================
