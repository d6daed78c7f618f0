-------------------------- MODULE PartitionManager --------------------------
(***************************************************************************)
(* The error-averse round-robin producer of distributing_producer.go, for  *)
(* one topic.  partitionManager keeps the topic's partitions in a buffered *)
(* channel.  A thread in Distribute receives a partition, which at once    *)
(* starts the goroutine that puts it back (reEnqueue), and then produces   *)
(* to it and reports Success or Failure.  The goroutine looks at the       *)
(* failures counted so far and, if there are any, sleeps before it sends.  *)
(* When the partition count changes the channel is thrown away and built   *)
(* anew: a generation.  A partitionData object is <<g, p>>, partition p    *)
(* of generation g; threads and goroutines may hold one of an old one.     *)
(*                                                                         *)
(* The goroutines of one object are counted, not assumed to be one: that   *)
(* there is at most one is what Conservation says.                         *)
(***************************************************************************)
EXTENDS Integers, Sequences, FiniteSets

CONSTANTS
    Threads,      \* goroutines that call Distribute
    Counts,       \* partition counts the metadata may report for the topic
    MaxCount,     \* bound: the largest of them
    MaxGen,       \* bound: channels ever built
    MaxFailures,  \* bound: successiveFailures
    None          \* no object

Gens == 1..MaxGen
Objects == Gens \X (0..(MaxCount - 1))

ASSUME PMAssumption ==
    /\ MaxCount \in Nat
    /\ Counts \subseteq 0..MaxCount
    /\ MaxGen \in Nat \ {0}
    /\ MaxFailures \in Nat \ {0}
    /\ None \notin Objects
    /\ IsFiniteSet(Threads)

VARIABLES
    \* partitionManager
    gen,        \* generation in the map, 0 before the topic has an entry
    size,       \* [Gens -> 0..MaxCount]: capacity of the channel
    available,  \* [Gens -> Seq(Objects)]: the channel, the objects on offer
    \* partitionData
    failures,   \* [Objects -> Nat]: successiveFailures
    reset,      \* the objects whose reset channel holds its one token
    running,    \* [Places -> [Objects -> Nat]]: goroutines in reEnqueue
    \* threads
    pc,         \* [Threads -> where in Distribute the thread is]
    count,      \* [Threads -> the partition count it was told]
    data        \* [Threads -> the object it produces to, or None]

pmVars == <<gen, size, available>>
dataVars == <<failures, reset, running>>
threadVars == <<pc, count, data>>
vars == <<pmVars, dataVars, threadVars>>

(* Where a reEnqueue goroutine is: about to load successiveFailures, in    *)
(* the select with the timer, about to send.                               *)
Places == {"check", "sleep", "send"}

Gen(o) == o[1]
OnOffer(g) == {available[g][i] : i \in DOMAIN available[g]}
Spawned(o) == running["check"][o] + running["sleep"][o] + running["send"][o]
Move(o, from, to) ==
    running' = [running EXCEPT ![from][o] = @ - 1, ![to][o] = @ + 1]

Init ==
    /\ gen = 0
    /\ size = [g \in Gens |-> 0]
    /\ available = [g \in Gens |-> <<>>]
    /\ failures = [o \in Objects |-> 0]
    /\ reset = {}
    /\ running = [l \in Places |-> [o \in Objects |-> 0]]
    /\ pc = [t \in Threads |-> "idle"]
    /\ count = [t \in Threads |-> 0]
    /\ data = [t \in Threads |-> None]

-----------------------------------------------------------------------------
(* The topic has a channel, and its capacity is n.                         *)
HasCount(n) == IF gen = 0 THEN FALSE ELSE size[gen] = n

(* Distribute asks for the partition count (1 if the topic is unknown) and *)
(* SetPartitionCount compares it, under the read lock, with the capacity   *)
(* of the channel.  The bound on channels leaves one for every thread that *)
(* may be about to build one.                                              *)
Distribute(t, n) ==
    /\ pc[t] = "idle"
    /\ HasCount(n) \/ gen + Cardinality({u \in Threads : pc[u] = "slow"}) < MaxGen
    /\ count' = [count EXCEPT ![t] = n]
    /\ pc' = [pc EXCEPT ![t] = IF HasCount(n) THEN "get" ELSE "slow"]
    /\ UNCHANGED <<pmVars, dataVars, data>>

(* The write lock is free: GetPartition keeps the read lock while it       *)
(* waits for a partition.                                                  *)
NoReader == \A t \in Threads : pc[t] # "wait"

(* SetPartitionCount, slow path: look again under the write lock.          *)
RecheckSame(t) ==
    /\ pc[t] = "slow"
    /\ NoReader
    /\ HasCount(count[t])
    /\ pc' = [pc EXCEPT ![t] = "get"]
    /\ UNCHANGED <<pmVars, dataVars, count, data>>

(* The objects of a new channel.  Mutant: the loop runs to n inclusive.    *)
NewPartitionsLong(g, n) == [i \in 1..(n + 1) |-> <<g, i - 1>>]
NewPartitions(g, n) == [i \in 1..n |-> <<g, i - 1>>]

(* ... and build a new channel, full, if the count has changed.            *)
Rebuild(t) ==
    LET g == gen + 1 IN
    /\ pc[t] = "slow"
    /\ NoReader
    /\ ~HasCount(count[t])
    /\ gen' = g
    /\ size' = [size EXCEPT ![g] = count[t]]
    /\ available' = [available EXCEPT ![g] = NewPartitions(g, count[t])]
    /\ pc' = [pc EXCEPT ![t] = "get"]
    /\ UNCHANGED <<dataVars, count, data>>

(* GetPartition takes the read lock and starts to wait.                    *)
GetPartition(t) ==
    /\ pc[t] = "get"
    /\ pc' = [pc EXCEPT ![t] = "wait"]
    /\ UNCHANGED <<pmVars, dataVars, count, data>>

(* What the channel holds after a receive.  Mutant: the object stays.      *)
Peeked(s) == s
Rest(s) == Tail(s)

(* An object is received; the deferred reEnqueue starts its goroutine      *)
(* before the read lock is released and the call returns.                  *)
Receive(t) ==
    LET o == Head(available[gen]) IN
    /\ pc[t] = "wait"
    /\ available[gen] # <<>>
    /\ available' = [available EXCEPT ![gen] = Rest(@)]
    /\ running' = [running EXCEPT !["check"][o] = @ + 1]
    /\ data' = [data EXCEPT ![t] = o]
    /\ pc' = [pc EXCEPT ![t] = "produce"]
    /\ UNCHANGED <<gen, size, failures, reset, count>>

(* Mutant: GetPartition waits again when the timer fires.                  *)
WaitAgain(t) == pc[t] = "wait" /\ UNCHANGED vars

(* PartitionFetchTimeout: Distribute returns an error.  The select may     *)
(* take the timer also when an object has just come on offer.              *)
Timeout(t) ==
    /\ pc[t] = "wait"
    /\ pc' = [pc EXCEPT ![t] = "idle"]
    /\ UNCHANGED <<pmVars, dataVars, count, data>>

(* The produce failed: Failure counts it and Distribute returns the error. *)
Failure(t) ==
    /\ pc[t] = "produce"
    /\ failures[data[t]] < MaxFailures
    /\ failures' = [failures EXCEPT ![data[t]] = @ + 1]
    /\ data' = [data EXCEPT ![t] = None]
    /\ pc' = [pc EXCEPT ![t] = "idle"]
    /\ UNCHANGED <<pmVars, reset, running, count>>

(* The produce succeeded: Success clears the counter ...                   *)
Success(t) ==
    /\ pc[t] = "produce"
    /\ failures' = [failures EXCEPT ![data[t]] = 0]
    /\ pc' = [pc EXCEPT ![t] = "reset"]
    /\ UNCHANGED <<pmVars, reset, running, count, data>>

(* ... and leaves a token for a sleeping goroutine, unless there is one.   *)
SendReset(t) ==
    /\ pc[t] = "reset"
    /\ reset' = reset \cup {data[t]}
    /\ data' = [data EXCEPT ![t] = None]
    /\ pc' = [pc EXCEPT ![t] = "idle"]
    /\ UNCHANGED <<pmVars, failures, running, count>>

-----------------------------------------------------------------------------
(* The goroutine of reEnqueue: failures make it sleep.                     *)
CheckFailures(o) ==
    /\ running["check"][o] > 0
    /\ Move(o, "check", IF failures[o] > 0 THEN "sleep" ELSE "send")
    /\ UNCHANGED <<pmVars, failures, reset, threadVars>>

(* Mutant: only Success wakes the goroutine.                               *)
BackoffNeverEnds(o) == FALSE

(* Its backoff ends ...                                                    *)
BackoffEnds(o) ==
    /\ running["sleep"][o] > 0
    /\ Move(o, "sleep", "send")
    /\ UNCHANGED <<pmVars, failures, reset, threadVars>>

(* ... or is cut short by a token, which may be an old one.                *)
ResetEnds(o) ==
    /\ running["sleep"][o] > 0
    /\ o \in reset
    /\ reset' = reset \ {o}
    /\ Move(o, "sleep", "send")
    /\ UNCHANGED <<pmVars, failures, threadVars>>

(* What is left of the goroutine after the send.  Mutant: it runs on and   *)
(* sends again.                                                            *)
StillRunning(o) == UNCHANGED running
Ended(o) == running' = [running EXCEPT !["send"][o] = @ - 1]

(* It puts the object back into the channel it came from, or drops it if   *)
(* there is no room ("Programmer error").                                  *)
ReEnqueue(o) ==
    LET g == Gen(o) IN
    /\ running["send"][o] > 0
    /\ available' = IF Len(available[g]) < size[g]
                    THEN [available EXCEPT ![g] = Append(@, o)]
                    ELSE available
    /\ Ended(o)
    /\ UNCHANGED <<gen, size, failures, reset, threadVars>>

-----------------------------------------------------------------------------
ThreadNext(t) ==
    \/ \E n \in Counts : Distribute(t, n)
    \/ RecheckSame(t) \/ Rebuild(t)
    \/ GetPartition(t) \/ Receive(t) \/ Timeout(t)
    \/ Failure(t) \/ Success(t) \/ SendReset(t)

GoroutineNext(o) ==
    CheckFailures(o) \/ BackoffEnds(o) \/ ResetEnds(o) \/ ReEnqueue(o)

Next ==
    \/ \E t \in Threads : ThreadNext(t)
    \/ \E o \in Objects : GoroutineNext(o)

Spec == Init /\ [][Next]_vars

(* Fairness.  A goroutine that can run does, timers fire, a produce ends.  *)
(* A writer gets the lock however often readers take it: sync.RWMutex      *)
(* turns new readers away while one waits.                                 *)
Fairness ==
    /\ \A o \in Objects : WF_vars(GoroutineNext(o))
    /\ \A t \in Threads :
          /\ SF_vars(RecheckSame(t) \/ Rebuild(t))
          /\ WF_vars(GetPartition(t))
          /\ WF_vars(Receive(t) \/ Timeout(t))
          /\ WF_vars(Failure(t) \/ Success(t) \/ SendReset(t))

FairSpec == Spec /\ Fairness

-----------------------------------------------------------------------------
(* The type invariant.                                                     *)
TypeOK ==
    /\ gen \in 0..MaxGen
    /\ size \in [Gens -> 0..MaxCount]
    /\ available \in [Gens -> Seq(Objects)]
    /\ failures \in [Objects -> Nat]
    /\ reset \subseteq Objects
    /\ running \in [Places -> [Objects -> Nat]]
    /\ pc \in [Threads -> {"idle", "slow", "get", "wait", "produce", "reset"}]
    /\ count \in [Threads -> 0..MaxCount]
    /\ data \in [Threads -> Objects \cup {None}]

(* Every partition of every channel that was ever built is either on offer *)
(* in that channel, once, or in the hands of exactly one reEnqueue         *)
(* goroutine: none is lost or offered twice, so no thread can get a        *)
(* partition while its goroutine runs or sleeps.                           *)
Conservation ==
    \A g \in Gens :
        /\ \A i, j \in DOMAIN available[g] : available[g][i] = available[g][j] => i = j
        /\ \A p \in 0..(MaxCount - 1) :
              Spawned(<<g, p>>) = IF p < size[g] /\ <<g, p>> \notin OnOffer(g)
                                  THEN 1 ELSE 0

(* A channel only holds the partitions it was built for.                   *)
OwnPartitions ==
    \A g \in Gens : \A o \in OnOffer(g) : Gen(o) = g /\ o[2] < size[g]

(* reEnqueue always finds room in the channel, a defunct one included      *)
(* ("Programmer error in reEnqueue! This should never happen").            *)
NoProgrammerError ==
    \A o \in Objects : running["send"][o] > 0 => Len(available[Gen(o)]) < size[Gen(o)]

(* A partition that was set aside is offered again.                        *)
ComesBack ==
    \A o \in Objects : Spawned(o) > 0 ~> o \in OnOffer(Gen(o))

(* Every Distribute returns, although a waiting GetPartition keeps the     *)
(* lock that a change of the partition count needs.                        *)
DistributeReturns == \A t \in Threads : pc[t] # "idle" ~> pc[t] = "idle"
=============================================================================
