# A TLA+ model of the kafka client

The repository is a Go client for Apache Kafka. Most of its own logic is in what
many goroutines share: the connections, the metadata, the partitions a producer
distributes to; the rest is the wire protocol. This project models these parts
(TLA+), checks the models on small instances (TLC) and proves the safety
properties of every part but the wire protocol for every instance (TLAPS).

## 1. The system

| component | source | state it keeps | operations |
|---|---|---|---|
| connection pool | `connection_pool.go` | map address → `backend`; per backend a channel of idle connections, the list `conns`, `counter`, a mutex | `GetConnectionByAddr`, `GetIdleConnection`, `getNewConnection`, `removeConnection`, `Idle`, `InitializeAddrs`, `Close` |
| connection | `connection.go` | socket, `closed` flag | `sendRequest` and its goroutine, `Produce` without acknowledgement, `Fetch` with its trimming, `Close` |
| cluster metadata | `cluster.go` | brokers, endpoints, partition counts, `epoch`, `refLock`, `mu` | `NewCluster`, `RefreshMetadata`, `Fetch`, `cache`, `ForgetEndpoint`, accessors |
| connection pool cache | `connection_cache.go` | map client ID → pool | `getOrCreateConnectionPool`, `reinitializeAddrs` |
| leader lookup, producer, offsets | `broker.go` | none of its own: the metadata, the pool | `getLeaderEndpoint`, `leaderConnection`, `Produce`, `OffsetEarliest`/`OffsetLatest` |
| consumer | `broker.go` | next offset, buffer | `Consume`, `ConsumeBatch`, `fetch`, `SeekToLatest` |
| distributing producer | `distributing_producer.go` | per topic a channel of partitions; per partition `successiveFailures` and a `reset` channel | `Distribute`, `SetPartitionCount`, `GetPartition`, `reEnqueue`, `Success`, `Failure` |
| offset coordinator | `broker.go` | none of its own | `coordinatorConnection`, `Commit`, `Offset` |
| global metadata cache | `metadata_cache.go` | map name → `Cluster`, a mutex | `InitializeMetadataCache`, `getOrCreateMetadata`, with `NewCluster` under the mutex |
| wire protocol | `proto/` | none | `Bytes` and `Read` of each message, message sets, errors |
| test server | `kafkatest/server.go` | topics, committed offsets, listener | a handler per request, `AddMessages`, `Reset`, `ResetTopic`, `Close` |
| broker mock | `kafkatest/broker.go` | channels | a test's own |
| integration cluster, logging | `integration/`, `log.go` | | set-up |

How they interact. A `Broker` is a client's view of a shared `Cluster`. A call
(`Produce`, `offset`, `fetch`) looks the partition's leader up in the metadata,
asks the client's pool for a connection to its address, sends one request on it
and hands it back with `go Idle`. Errors make it forget the endpoint, refresh
the metadata, or both, and try again. A refresh asks any broker the metadata
pool knows, replaces the metadata under `mu` and, with `mu` still held, tells
every pool in the cache the new addresses, which creates and closes backends
under the feet of the calls in progress.

What is hard in it:

* *pointers that outlive the map*: callers keep a `*backend`, a partition
  object or an epoch that has been replaced since;
* *goroutines nobody waits for*: `go Idle`, `reEnqueue`, the goroutines of
  `sendRequest` and `RefreshMetadata` that go on after their caller's time-out;
* *locks held over slow things*: a dial under a backend's mutex, the pools'
  update under `mu`, the wait for a partition under the read lock;
* *retries*: loops inside loops, with different errors remembered, refreshed
  upon and given up on;
* *two descriptions of each message*, one in `Bytes` and one in `Read`, on a
  stream that may end anywhere.

`PROJECT.json` lists each of these at its line, under "hazards", with the
properties that would catch it, or with a note where none does.

What makes each component correct: the pool never lends a connection to two
callers, never miscounts, never leaks, never deadlocks; a connection never
takes one request's answer for another's; the metadata never goes back and
always recovers; calls return, and find the leader in the end; a consumer
returns every message once; a commit reported as done is what is stored; a
distributing producer never loses a partition; brokers that should share a
`Cluster` do; what one side writes is what the other reads, or an error.

## 2. The modules

| module | models | its TLC instance |
|---|---|---|
| `ConnectionPool` | the pool and its backends | `MCConnectionPool` |
| `ConnectionPoolProofs` | theorems about it, that it implements `Lending` among them | |
| `Lending` | abstract: what the pool promises its users | |
| `PartitionManager` | `Distribute` and everything under it, for one topic | `MCPartitionManager` |
| `PartitionManagerProofs` | theorems about it | |
| `PartitionHistory` | the same with a history of failures | |
| `Metadata` | abstract: what a shared `Cluster` promises its users | (through the two below) |
| `Cluster` | the refresh protocol; implements `Metadata` | `MCCluster` |
| `ClusterProofs` | theorems about it, the refinement among them | |
| `MetadataCache` | how Brokers come to share a `Cluster`, and clients a pool | `MCMetadataCache` |
| `MetadataCacheProofs` | theorems about it | |
| `Connection` | one connection and its goroutines | `MCConnection` |
| `ConnectionProofs` | theorems about it | |
| `Broker` | leader lookup under `Produce` and `offset`, on `Metadata` | `MCBroker` |
| `BrokerProofs` | theorems about it, and that it uses `Metadata` as that allows | |
| `Consumer` | a consumer of one partition | `MCConsumer` |
| `ConsumerProofs` | theorems about it, and about `MessageSets` under it | |
| `OffsetCoordinator` | commits and reads of a group's offset | `MCOffsetCoordinator` |
| `OffsetCoordinatorProofs` | theorems about it | |
| `MessageSets` | message sets as written, as read and as Kafka sends them | (through `Server`) |
| `Wire` | encoder, decoder, frames | (through `Server`) |
| `Messages` | the 14 messages, as written and as read | (through `Server`) |
| `Server` | the test server, and a client's requests on the wire to it | `MCServer` |

How they are composed. `Metadata` stands between the two halves of the client:
`Cluster` is shown to implement it (`ImplementsMetadata`), and `Broker` takes
its refresh steps from it (`Meta!Fetch`, `Meta!Install`, `Meta!Refreshed`,
`Meta!Call`, ...) in place of the details of the epoch protocol; that all its
other steps leave `Metadata`'s view alone or are steps of it too is proved
(`BrokerUsesMetadata`). What joins them is this specification: nothing is proved of
the two run together, and what is shown of `Broker` is shown of calls on top of
`Metadata`. (For liveness `Broker` assumes that a refresh under way goes on, as
`Cluster`'s fairness says.)
`Broker` and `OffsetCoordinator` take from the pool that a connection is to be
had while fewer than `ConnectionLimit` are in use (`ConnectionPool!QuotaExact`).
`Server` extends `Messages`, which extends `Wire`, which extends `MessageSets`.
What `Consumer` takes for a fetch (`Fetchable`: the stored messages in order, from
the start of a batch or from the offset, up to a cut or to damage) is proved to be
what is read of the message sets that Kafka sends (`FetchIsFetchable`), unless a
message inside a compressed batch is damaged: there the code passes over messages
(`LostInBatch`), and `Consumer` leaves that case out.

### ConnectionPool

The variables are the fields of `connectionPool` (`backends`), of `backend`
(`channel`, `conns`, `counter`, `mu`) and of `connection` (`closed`), and for
each goroutine where it is and which `*backend` it holds. A backend object is
`<<address, generation>>`, since an address that is removed and added again gets
a new object while goroutines still hold the old one. `cp.mu` is write-locked
exactly while `deletedAddrs` is not empty, `mu[b]` is held exactly during a
dial: these are the two places where a lock is held over another wait; all
other critical sections are single steps. `Release` is `go cp.Idle(conn)`: from
there `IdleLookup`, `IdlePut`, `IdleRemove`, `IdleClose` are the goroutine.

### PartitionManager

A channel that `SetPartitionCount` builds is a generation; an object is
`<<generation, partition>>`. The `reEnqueue` goroutines of an object are counted
per place (`check`, `sleep`, `send`) rather than assumed to be one. The read
lock is held exactly while a thread is at `wait`.

### Metadata and Cluster

In `Cluster` a version of the Kafka cluster stands for everything its metadata
says; the cached metadata is the version it was read at (`created`), with its
brokers' addresses (`nodes`), the entry of a partition (`endpoint`) and the
addresses `Fetch` asks (`addrs`). A member of `Calls` is a `RefreshMetadata`
call with its goroutine, which may outlive it (`caller[r] = "none"` and
`go[r] # "none"`).

`Metadata` knows nothing of goroutines, locks and epochs: one refresh at a time
takes what Kafka is like (`Fetch`), replaces the cache by it as a whole
(`Install`), and by ending (`Refreshed`) is the refresh of every call then in
progress; a call may return nil only if a refresh ended since it was made. The
refinement mapping (`Meta`, at the end of `Cluster`) takes for `fetched` the
response that the holder of `refLock` has not cached yet, and for a call's
`status` whether the epoch has moved since the call began. That the epoch is
*stored* as `ctr1 + 1`, with `ctr1` loaded before the lock was taken, is where
this could fail: two refreshes under one number would lose a call's refresh.

### MetadataCache

A thread is one call of `NewBroker`; the `Cluster` and the throw-away cache it
makes, if it makes one, bear its name. The addresses a pool has are known by
their version, 0 being the user's list. `NewCluster` runs its attempts with the
cache's lock held; the refresh loop of a `Cluster` that `NewCluster` has given up
on goes on, as `newCluster`'s goroutine does. Refreshes follow `Metadata`: one at
a time, each pool updated in turn under the pool cache's lock. A pool may be made
from addresses that a refresh has just replaced (`cluster.go:142`); `PoolsLearn`
says that it gets the last ones all the same.

### Connection

Requests are numbered, responses named by their request, correlation IDs chosen
freely, so that two may coincide. `out` and `in` are the two directions of the
socket. The broker answers in order; whether it also answers requests with
`RequiredAcksNone`, as `kafkatest/server.go:301` does and Kafka does not, is
chosen in the initial state.

### Broker

One partition. `leader` and `up` are Kafka's truth, `endpoint` and `nodes` the
client's. A thread's `try` counts the attempts of `leaderConnection`, `tries`
those of `offset`; `held` are the connections a call will give back when it
returns, which for `offset` is one per try, since it defers `Idle` in its loop.
`fetched`, `installed` and `status` are `Metadata`'s. The refresh that a failed
`Produce` starts (`background`) may fail, and nobody learns of it. `go Idle` is part
of the step that returns. Time-outs and broken
connections are counted against `MaxFaults`, so that `Recovers` need not assume
that they stop.

### Consumer

A message is its offset. The partition grows by batches and loses messages to
compaction; a fetch may return messages from the start of a compressed batch
and may be cut anywhere. `from`, `seen` and `failed` are history variables: where
reading began, what was returned since, in turn, and the attempts that failed
since the last response. `seen` is a sequence, so that a message returned twice
or out of order shows.

### OffsetCoordinator

One group and one partition. `committed` is what the coordinator has stored, as
the test server does (`kafkatest/server.go:521-594`). A request that
`sendRequest` gave up stays under way (`late`) and may be handled at any later
time, or never. `possible` is what callers may believe to be stored, from the
commits they started and the results they got; `Accounted` says that they are
never wrong. The limit on attempts is chosen in the initial state and may be 0,
with which a call returns at once (`NoAttempt`). `held` counts the connections a
call keeps: one per attempt whose connection is still open, since `commit` and
`Offset` defer `Idle` in their loops.

### MessageSets, Wire, Messages and Server

A frame is a sequence of cells, one for each value that the encoder writes; a
cell has a type and a value, and a cell that was written as one type cannot be
read as another. In `Messages` each message has two layouts, taken from its
`Bytes` method and from its `Read` function: the two are separate code. `Write`
and `Read` of `Wire` interpret layouts. Conversions do what the code does: a
duration keeps its milliseconds, a `[]byte` of length 0 is read as nil, an
unknown error number becomes one error, and a string of 2^15 to 2^16 - 1 bytes
is written with a length that is read as negative, so that it becomes "" and its
text is left over (longer ones are not modelled). In a message set the CRC is
the content it was computed of (CRCs do not collide) and compression is a
constructor that only the same codec undoes.

The loop of `readMessageSet` is written in `MessageSets` without recursion, which
the prover needs: the messages of a set have seven cells each, so the set is cut
into as many `Chunk`s as fit, each gives something by itself (`readMessage`:
messages, the end because its CRC is wrong, or an error), and the result is what
the first of them give, up to the first that gives no messages (`Collected`). The
recursive call for a compressed set is a second reader, `readInnerSet`, for which
any set inside that one fails (a bound: neither the client nor the brokers it
talks to compress twice).

`Server` is one client's connection to a peer: a request is built as the code in
`broker.go` and `cluster.go` builds it, written, perhaps cut off, read by
`handleClient`, handled, and the response written, perhaps cut off, and read. The
peer is the test server, with a test that adds messages and resets while the
request is under way, or Kafka (external), which does the same except that it
may refuse a commit and that it answers a fetch from its disk: the batch may
begin before the offset asked for and be compressed, by a codec the client may
not know, any message may be damaged, and the set ends anywhere.

## 3. The runs

All bounds are constants of the modules, commented as such where declared.

| run | instance | states | what it shows |
|---|---|---|---|
| `pool_safety` | 2 threads, 3 connections, 1 address, limit 1, 2 generations | 1.25 M | quota exact, one owner, no excess, no leak, idle connections open |
| `pool_liveness` | 2 threads, 2 connections, limit 1 | 13 K | every call, every `InitializeAddrs`, every `Idle` goroutine ends |
| `partition_manager` | 2 threads, counts 0 and 2, 2 generations | 61,730 | partitions conserved, no "programmer error", set aside ones come back, calls return |
| `pm_set_aside` | 2 threads, 2 partitions | | **violated**: a partition that has just failed is handed out at once |
| `cluster` | 2 calls, 2 addresses, 3 shapes of the Kafka cluster, 2 versions, 3 refreshes | 136 K | the epoch protocol implements `Metadata`; an address is always left; the last version is learned |
| `metadata_cache` | 2 `NewBroker` calls, 1 global cache, 1 name, 1 client, 2 attempts, 2 versions | 309 K | one `Cluster` per cache and name, every pool learns the last addresses, `NewBroker` returns |
| `connection` | 3 requests, all ID assignments | 76 K | no answer to the wrong request, idle connections in sync, calls and goroutines end |
| `broker` | a producer and an asker, 2 nodes, 2 tries, limit 2, 1 change, 1 fault | 324 K | no call uses the pool up against itself; calls return, and stop failing once the leader stays |
| `consumer` | 4 offsets, both limits small | 223 K | every message once, in order, none skipped; calls return |
| `offset_coordinator` | 2 threads, 2 offsets, no attempts or 2, limit 2, 1 late request per offset | 116 K | what callers may conclude is true; no call uses the pool up against itself; calls return |
| `wire` | 1 topic, 2 partitions, 3 messages, all codecs, a long string, a known and an unknown error | 175 K | requests and responses arrive as written or not at all; fetched messages have no gap; the test server panics in two cases only |
| `consumer_err_limit` | 2 offsets, no `RetryLimit` | | **violated**: attempts without end although `RetryErrLimit` is 2 |

Why the bounds are enough. Two threads are the least that race, and every hazard
listed is between two parties: caller and caller, caller and goroutine, caller
and refresh. Two generations (of a backend, of a channel) are the least in which
an old object and its successor live side by side; a limit of one connection
makes the limit be met at once; three connections allow one in use, one idle and
one dialled by a backend that is gone. Two versions of the Kafka cluster and two
refreshes are the least in which a late answer can overwrite a newer one; a
third refresh lets the last change, made while the first is under way, be
learned. In `MetadataCache` two calls are the least that can share, and each may
run with the global cache or without. In `Server` three messages allow a
compressed batch of two that begins before the offset asked for, and one behind
it; two partitions allow one without its predecessor. Three requests are the
least in which an answer can skip the one after it. Counts 0 and 2 include the
topic without partitions (a channel of capacity 0). Four offsets allow a batch,
a gap in it and a message behind it.

`Connection`, `MetadataCache` and `Server` are checked without deadlock detection:
when the bound on requests is met the connection is closed, when both calls have
returned no more are made, and when the server has panicked the process is gone.

Every property of a passing run has a mutant in `PROJECT.json`: an operator
beside the one it mutates, commented as such, that breaks the code the way a
plausible slip would and that TLC then catches with that property.

## 4. Fairness

Liveness runs use `FairSpec`. What is assumed, and why the code justifies it:

* goroutines that can run do (weak fairness);
* a goroutine that waits for a `sync.Mutex` or `sync.RWMutex` gets it (strong
  fairness): the former hands the lock over after a millisecond of starvation,
  the latter turns new readers away while a writer waits;
* waits end: `DialTimeout`, the request time-out, `PartitionFetchTimeout` and the
  sleeps are all finite. A timer that has fired stays ready, so a `select` with it
  goes on, by the timer or by whatever else is ready;
* in `Cluster`, `MetadataRefreshFrequency` is set, and a broker that is there
  does not time out every single time it is asked;
* in `MetadataCache`, an attempt of `NewCluster` ends, by `DialTimeout` if by
  nothing else, a refresh that has its response goes on, a `Cluster` is refreshed
  again and again (`MetadataRefreshFrequency` is set), and not every response it
  gets is without brokers.

Nothing is assumed of users: no call need be made and no connection given back.
Beyond the last two points no Kafka broker need answer a request, accept a write
or come back.

## 5. What the violations show

* `SetAside`. "when a produce fails, that partition is set aside temporarily"
  (`distributing_producer.go:59-61`). `reEnqueue` is deferred in `GetPartition`,
  so its goroutine may read `successiveFailures` (0) and offer the partition
  again before the produce has failed.
* `RetryErrLimitHolds`. "RetryErrLimit limits the number of retry attempts when
  an error is encountered" (`broker.go:626-627`). In `fetch` an attempt that was
  answered with a leadership error leaves `resErr` nil, so that the last one
  looks like an empty fetch.

Divergences met while modelling that have no run:

* `connection_pool.go:126`: "ConnectionLimit sets a limit on how many outstanding
  connections may exist to a single broker" (`:212`), but the count is per
  `backend` object: a caller that looked a backend up before its address was
  removed still dials for it, and the address's next backend counts from zero.
  `QuotaExact` therefore speaks of one backend, the one in the map, and does not
  bound the connections of a broker whose address was removed and added again.
* `connection_pool.go:147`: a caller that holds the backend of a removed address
  still dials for it; the comment at `:289-290` says "If an addr is removed, ...
  no further connections can be made".
* `connection_pool.go:182`: "in theory this can never happen" holds only until
  an address is removed and added again; `NoExcess`, and `NoLeak` likewise, speak
  of addresses that were not.
* `connection_pool.go:204`: `Close` ("shuts down all connections", `:199`) walks
  `conns`, not the channel, and misses what is dialled or queued after it.
* `connection.go:121`: "Calling this method on closed connection will always
  return ErrClosed", an error that nothing returns.
* `distributing_producer.go:162`: goroutines offer partitions in the order they
  are scheduled in, so the "round robin" of `:59` is not an order.
* `distributing_producer.go:71`: for a topic with no partitions the error says
  that all are suspended due to previous failures.
* `cluster.go:171`: an empty response is refused without an error, so a refresh,
  and `NewCluster`, may succeed with nothing learned.
* `broker.go:202`: between a refresh and the lookup that follows another thread
  may forget the endpoint, and the call reports an unknown topic.
* `broker.go:215-222`: the metadata of a topic just created is not cached.
* `broker.go:465-474`: `RetryLimit` and `RetryWait` of the producer's
  configuration are not used by `Produce` (`:504`).
* `broker.go:1000`: an error in the coordinator's answer ends `commit` at once,
  also one that a retry would mend (the coordinator has moved); "Commit can retry
  saving offset information on common errors" (`:927`) is true of connection
  errors only.
* `broker.go:958`, `:1020`: with `RetryErrLimit` 0 `Commit` returns nil and `Offset`
  returns 0 and no error, without a request having been sent (`OffsetNothingSent`).
  `Accounted` is false of that value and says so: it has `retryErrLimit > 0` as a
  premise. Of commits that overlap it says only that one of them is stored.
* `broker.go:963`, `:1025`: "get a copy of our connection with the lock": there is
  none; `mu` and `conn` of `offsetCoordinator` are never used.
* `kafkatest/server.go:301` answers requests that ask for no acknowledgement.
* `kafkatest/server.go:407` answers a produce with the offset of the last message,
  Kafka with that of the first, which `broker.go:515` relies on ("offset is the
  offset value of first published messages"): with the test server the offsets
  that `Produce` sets on several messages are too high.
* `kafkatest/server.go:622`: `Reset` forgets the partitions, a client does not:
  after a produce to partition 1 alone the next metadata request panics.
  `:503`: `GroupCoordinator` panics if `Close` came first, though connections are
  still served. `NeverPanics` excuses these two and shows that there is no third.
* `proto/messages.go:283-284`: "because we want to have constant history, do not
  process anything more" is done for the set in which the CRC is wrong. Inside a
  compressed set that is the inner one only: what comes after the batch is still
  read, and the consumer's offset passes over the gap. `FetchedInOrder` therefore
  speaks of damage outside a compressed set; `LostInBatch` proves what is lost.
* `proto/serialization.go:323`: a string longer than 2^15 - 1 bytes, the metadata of
  `CommitFull` for instance, is not refused; the other side reads "" and, if
  something follows, the text as the next fields. `RequestIntact` expects this
  (`RequestAsRead`) rather than catch it. From 2^16 bytes on the length wraps
  around and a prefix is read, which is not modelled.
* `distributing_producer.go:170-171`: a reset token of long ago may end a backoff
  early, as the comment there accepts; it is modelled (`ResetEnds`), and no property
  forbids it.
* `proto/serialization.go:337-342`: `EncodeError` of an error that is no
  `*KafkaError` sets `err` and goes on to dereference nil. A server could not
  hand on an error it read as unknown; nothing here does.
* `metadata_cache.go:39-41` describes a lookup before the lock; the code locks
  first (`:58`), and so one slow `NewCluster` delays every `NewBroker`, also for
  other Kafka clusters.
* `cluster.go:46-57`: the periodic refresh is started before the first attempt;
  if `NewCluster` fails it is never stopped.
* `cluster.go:142`: the addresses for a new pool are read before the pool cache's
  lock is taken, so a pool may be made with the addresses of the refresh before;
  the next refresh brings it the new ones (`PoolsLearn`, which a refresh that skipped
  pools when the addresses are not new would break).

## 6. What is proved

Each `...Proofs` module holds theorems about `Spec` of its module, for every value
of the constants that the module's `ASSUME` allows: limits and bounds that are
numbers, markers such as
`NoThread` or `NoLeader` that are not members of the sets they stand outside of,
a finite set of connections (`PoolAssumption`) or of threads (`PMAssumption`,
`OffsetCoordinatorAssumption`), shapes of the Kafka cluster whose brokers answer
(`ClusterAssumption`). `ConnectionLimit` and the limits of attempts may be 0, except
`LeaderRetryLimit` (`BrokerAssumption`): with 0 every call on a leader fails at
once, with "programmer error in leaderConnection" (`broker.go:284`) or, from
`offset`, "incomplete fetch response" (`:435`), and touches nothing. The bounds of
the models (`MaxGen`, `MaxHeld`, `MaxVersion`, `MaxFailures`) are positive, since
with 0 nothing could happen. TLC evaluates these in every run. Fairness plays no part in
the proofs. Every inductive invariant was checked by TLC on the instance of its
component's run before it was proved.

**The pool.** None of the properties is inductive alone. The invariant is built
in four layers, each proved from the ones before it:

1. `Shape`: the types, and that whoever works on a backend works on one that
   exists and whoever has a connection has one that was dialled. Without it the
   map lookups of a goroutine that kept an old `*backend` could not be followed.
   Gives `PoolTypeOK`.
2. `Owned`: no connection is in two hands or in two places of the channels.
   It restates `ExclusiveOwner` position by position, which is what a receive
   (everything moves up by one) and a send (one more at the end) preserve. Gives
   `PoolExclusiveOwner`.
3. `Quota`: `QuotaExact` with what it needs. A backend that was not created yet has
   dialled nothing; `conns` lists only connections its backend dialled; whoever
   dials holds the mutex and found the counter below the limit, so that the
   increment after the dial is safe although the count was made before it; only
   a connection that is closed, or that its own goroutine is about to close, is
   taken off the list. Gives `PoolQuotaExact`.
4. `Parked`: where connections wait. A connection that is in a channel, or that
   `Idle` is about to put there, is at a backend of its own address that has been
   created (so a backend is empty when it appears in the map); what waits at the
   backend that dialled it is closed once that backend has left the map, since
   `Close` walks the list and by layer 3 the list is complete; and an open
   connection in nobody's hands is in some channel. Gives `PoolIdleIsOpen`. While
   an address has had one backend, what waits at it was dialled by it
   (`OneBackend`), so an open connection waits at a live one (`PoolNoLeak`), and
   a full channel with one connection more would be `ConnectionLimit` + 1 distinct
   connections on a list that has no more than the limit (`FullChannel`, which
   gives `PoolNoExcess`).

With these the pool is shown to implement `Lending` (`PoolImplementsLending`), which
knows no backends, channels, mutexes or quotas: a call asks for one address
(`GetConnectionByAddr`) or for any (`GetIdleConnection`) and returns with a
connection to an address it asked for, new or idle, that is open and that nobody
else has, or with none; a connection is given back by its user, once, and the
pool keeps or closes it; when a broker is gone, connections to it, and no others,
are closed, also under their users. That is what the comments of
`connection_pool.go` promise ("returns a valid/open connection to this server"),
however the lookups, receives and dials interleave with `InitializeAddrs` and
with callers that work on a backend that has left the map. What a call wants is
the address of the backend it kept (`Want`), so the step that lends needs layer 4
(what waits in a channel is connected to the channel's address) and layer 2 (it
is in no other hands); that a new connection is open needs one fact more
(`ClosedDialed`: only what was dialled is ever closed). TLC agreed on the instance
of `pool_safety` and on one with two addresses before it was proved.

**The partition manager.** `Types` adds to the types that a thread that waits has a
channel to wait at and one that produces has a partition, and that the bound
`MaxGen` leaves room for every thread that has decided to rebuild the channel.
`Offers` adds to `Conservation` that a channel holds only its own partitions and
that nothing is on offer in one that is not built. From these follow
`PartitionTypeOK` and `PartitionConservation`; `PartitionNoProgrammerError` follows
by counting: what is in the channel is distinct and of `size` many partitions,
the one in the goroutine's hands is not among it, so by the pigeonhole principle
the channel is not full.

**The metadata.** The invariant `IInv` has four parts beside the types. `Sole`: only
the holder of `refLock` is past the test of the epoch. `Fresh`: what it loaded
before it had the lock is still the epoch, since nobody else can have stored one
after the test; and nobody loads before its call began. `Responses`: a response
is there while it is used, and names brokers if it is cached. `Updates`: an answer
is for a caller that is still there, and nil only if the epoch has moved since.
From it follow `ClusterTypeOK` (the epoch is stored as `ctr1 + 1` and still never
goes down), `ClusterNeverStranded`, and `ClusterImplementsMetadata`: each of the
seventeen steps is a step of `Metadata` or leaves all that it sees as it is. The
two lemmas `SameRefresh` and `SameStatus` say what it sees.

**The metadata cache.** `Locked`: the lock of a cache is held by exactly the call
that is inside `NewCluster` for it. `Entries`: the entry it found missing is still
missing, since nobody else can have filled it, and an entry is of its name. Then
an entry is never overwritten and `CacheShared` follows. `Follow`: while
`reinitializeAddrs` goes through the pools under the pool cache's lock, all that it
is past have the new addresses; when none is left this is `CachePoolsFollow`, a
property of steps, the safety half of what the run checks as `PoolsLearn`.

**The connection.** `Results`: a result is for the owner that waits, and its goroutine
has ended. `Stale`: a goroutine that nobody waits for has its transport closed.
`Wire`: with a broker of Kafka's an open connection carries one thing at most that
will be read, the current request or its response, and only while the current
goroutine reads it. The exception is a request whose result is an error that
`sendRequest` has not looked at yet (`Failing`): it closes the connection next.
From these follow `ConnectionInSync` and `ConnectionRightAnswer`, without any
assumption on correlation IDs; with a broker that answers everything, a goroutine
accepts only its request's ID, and the property asks only for distinct ones.

**Leader lookup.** `Held`: a connection bears the number of the try it was made for,
and between tries these are all below the current one, so that the connections to
one node are fewer than the tries (`OnePerTry`), which gives
`BrokerNeverStarvesItself`. `BrokerUsesMetadata` shows, action by action, that
`Broker` implements `Metadata` under the mapping of its `INSTANCE`: the calls use no
more of the refresh protocol than `ClusterImplementsMetadata` shows it to have. It
is not a proof about `Broker` and `Cluster` run together.

**The offset coordinator.** `Possible` strengthens `Accounted` to everything that may
still be stored: the offsets of commits under way and of requests left behind.
`Alone` says of a commit that no other has overlapped that nothing late is for
another offset than its own, so that when it is answered nothing can overwrite it
unknown to its caller. `Connections` counts one connection per failed attempt.
They give `OffsetAccounted`, for every `RetryErrLimit` but 0, and
`OffsetNeverStarvesItself`. `NothingSent` is the case of 0: no call gets beyond its
start, nothing is stored, and nothing is late (`OffsetNothingSent`).

**The consumer.** `Buffer`: what is buffered is in order, at or after the offset,
and without a gap: it has every stored message from the offset up to its last one.
`Log` and `InRange` say that nothing is stored at or after the end and that an
offset beyond the end is still the one the user chose, so that messages appended
later cannot fall between the start and the offset. `Returned`: what was returned
lies between the start and the offset, in order. Most of the work is in what a
fetch is: `Ascending` lists a set in order (`AscendingIs`), `Trimmed` drops exactly
what is below the offset (`TrimmedIs`), and so a trimmed fetch is, for some cut,
the stored messages from the offset up to it (`FetchedIs`). These are facts about
sets and sequences of any size. They need induction, which is done by the least
counterexample: a set of numbers that is not empty has a least element (`Least`,
from the well-foundedness of `<` on `Nat`), and the sizes for which a statement
fails are such a set. From all this follow `ConsumerNoLoss` and `ConsumerNoRepeat`.
The first rests on `Fetchable`, and so on there being no damage inside a compressed
batch, where `LostInBatch` proves that it fails.

**Message sets.** Theorems about `readMessageSet` itself, for sets of any number of
messages, with any keys and values: a step of no specification, but what the
consumer's rest on. A set is `Rows` of seven cells. `FlattenSeq` of rows is rows
(`FlattenParts`, by the least counterexample, since `FlattenSeq` is a recursive
function chosen by its equation: it is shown that there is one, and that it is
the only one); two sets one after the other are (`RowsJoin`), a cut leaves the
first of them (`RowsCut`), and damage changes one (`RowsDamaged`). Each row gives
its message (`ReadEntry`), nothing (`ReadDamaged`), or what is in it
(`ReadPacked`, `InnerIs`), and what the rows give up to the first bad one is a
prefix (`CollectedIs`). It follows that

* `WrittenIsRead`: what `writeMessageSet` writes is read back, compressed or not;
* `FetchedPrefix`: of what Kafka sends, cut off or damaged outside a compressed
  batch, exactly the messages before that place are read. This is `FetchedInOrder`
  without its bounds, for the message set alone and not the frame around it;
* `LostInBatch`: of damage inside a compressed batch nobody is told, and precisely
  the rest of the batch is missing;
* `FetchIsFetchable`: in every reachable state of `Consumer`, the offsets of what is
  read of the stored messages, without damage inside a compressed batch, are in
  `Fetchable`. There is one increasing sequence
  of a set of numbers (`OneOrder`), so the first w messages read are `Ascending` of
  those stored before the next.

The theorems assume of a set that Kafka sends only what `Server!IsBatch` does
(`Sendable`): one batch first, packed by one of the codecs if it has more than one
message, the rest plain, at most one message damaged at the top level and one in
the batch.

What is only model-checked:

* liveness: the prover does not do fairness;
* the frames of the wire protocol and the test server (`RequestIntact`,
  `AnswerIntact`, `NeverPanics`, and `FetchedInOrder` as a property of `Server`).
  Layouts nest, and `Wire` interprets them by recursive operators, with which the
  prover loses its arithmetic: that reading undoes writing is proved for message
  sets, and checked for the requests the client sends and their answers;
* the two violations, which are counterexamples.

## 7. Plan

Done: the modules of section 2, the pool first because everything else lends
from it, then the refinement of `Metadata` by `Cluster` with `Broker` on top of
it, `MetadataCache`, and the wire protocol with the test server; `Lending`; a
theorem for every safety property of a run but those of `wire`, and for message sets, which
are the part of `wire` that the consumer's theorems need. Left:

1. The layouts of `Wire` without recursion, which would bring `RequestIntact` and
   `AnswerIntact` within the prover's reach as `MessageSets` did message sets.
2. `Broker` and `OffsetCoordinator` take from `PoolQuotaExact` that a connection is
   to be had while fewer than `ConnectionLimit` are in use. `Lending` does not say
   so: the limit is one of each backend and not of each address, and "to be had"
   is about what is enabled, which the prover cannot reach.

Runs are kept few, each a question of its own; a component's safety and liveness
share a run where its size allows.

## 8. What is not modelled, and why

* The bytes of integers, CRCs, gzip and snappy framing (`proto/snappy.go`): a cell
  is a value. Sizes that do not belong to what follows them (a damaged message
  size, a negative array length) are below that level, and so are strings of 2^16
  bytes and more, whose length wraps around, and durations whose milliseconds
  exceed an int32 (`proto/messages.go:575`, `:1205`).
* `EncodeError` of an error that is no `*KafkaError` (`proto/serialization.go:337`).
* The connections of a consumer's `fetch`, which it keeps until it returns
  (`broker.go:840`), as `offset` and `commit` do in `Broker` and `OffsetCoordinator`.
* Requests for several topics or partitions: the client's own code never sends
  one.
* Middleware of the test server, which is the tests' own code; its HTTP page and
  start-up (`Run`, `MustSpawn`), which are I/O.
* The broker mock (`kafkatest/broker.go`): channels a test fills by hand.
* `integration/` runs docker; `log.go` sets up a logger.
* `debugHitMaxConnections` only logs.
* A consumer value used through both of its interfaces (`broker.go:776`), which
  takes a type assertion, and a produce without acknowledgement that blocks in
  its write for ever (`connection.go:145`): `Connection` lets it hang, and no
  property promises that it returns, because the code does not.
