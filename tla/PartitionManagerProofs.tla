----------------------- MODULE PartitionManagerProofs -----------------------
(***************************************************************************)
(* Proofs about PartitionManager, for any threads, partition counts and    *)
(* bounds.  Conservation is not inductive by itself.  Types adds that      *)
(* whoever waits for or produces to a partition has one to wait for or to  *)
(* produce to; Offers adds that a channel holds only its own partitions    *)
(* and that nothing is known of a channel before it is built.              *)
(* NoProgrammerError then is a matter of counting: distinct partitions of  *)
(* a channel, one of them missing, leave room in it.                       *)
(***************************************************************************)
EXTENDS PartitionManager, FiniteSetTheorems, TLAPS

Slow == {u \in Threads : pc[u] = "slow"}

Types ==
    /\ TypeOK
    /\ gen + Cardinality(Slow) <= MaxGen
    /\ \A t \in Threads : pc[t] \in {"get", "wait"} => gen # 0
    /\ \A t \in Threads : pc[t] \in {"produce", "reset"} => data[t] \in Objects

NotYetBuilt == \A g \in Gens : g > gen => size[g] = 0

Offers == Conservation /\ OwnPartitions /\ NotYetBuilt

(* An object is its generation and its partition.                          *)
LEMMA ObjectPairs ==
    /\ \A o \in Objects : /\ o = <<o[1], o[2]>>
                          /\ o[1] \in Gens
                          /\ o[2] \in 0..(MaxCount - 1)
                          /\ Gen(o) = o[1]
    /\ \A g \in Gens, p \in 0..(MaxCount - 1) :
          /\ <<g, p>> \in Objects
          /\ <<g, p>>[1] = g
          /\ <<g, p>>[2] = p
BY DEF Objects, Gen

(* What a receive takes from a channel, and what it leaves there.          *)
LEMMA HeadTail ==
    ASSUME NEW S, NEW s \in Seq(S), s # <<>>
    PROVE  /\ Head(s) \in S
           /\ Tail(s) \in Seq(S)
           /\ Head(s) = s[1]
           /\ 1 \in DOMAIN s
           /\ \A i \in DOMAIN Tail(s) : /\ i + 1 \in DOMAIN s
                                        /\ i \in Nat \ {0}
                                        /\ Tail(s)[i] = s[i + 1]
           /\ \A i \in DOMAIN s : i = 1 \/ (i - 1 \in DOMAIN Tail(s) /\ i \in Nat)
OBVIOUS

(* What a send adds to a channel.                                          *)
LEMMA AppendLast ==
    ASSUME NEW S, NEW s \in Seq(S), NEW x \in S
    PROVE  /\ Append(s, x) \in Seq(S)
           /\ \A i \in DOMAIN Append(s, x) :
                 \/ i \in DOMAIN s /\ Append(s, x)[i] = s[i]
                 \/ i \notin DOMAIN s /\ i = Len(s) + 1 /\ Append(s, x)[i] = x
           /\ \A i \in DOMAIN s : i \in DOMAIN Append(s, x) /\ Append(s, x)[i] = s[i]
           /\ Len(s) + 1 \in DOMAIN Append(s, x)
           /\ Append(s, x)[Len(s) + 1] = x
OBVIOUS

(* The objects of a new channel.                                           *)
LEMMA NewChannel ==
    ASSUME NEW g \in Gens, NEW n \in 0..MaxCount
    PROVE  /\ NewPartitions(g, n) \in Seq(Objects)
           /\ DOMAIN NewPartitions(g, n) = 1..n
           /\ \A i \in 1..n : NewPartitions(g, n)[i] = <<g, i - 1>>
<1>1. \A i \in 1..n : i - 1 \in 0..(MaxCount - 1)
  BY PMAssumption
<1>2. \A i \in 1..n : <<g, i - 1>> \in Objects
  BY <1>1, ObjectPairs
<1>3. n \in Nat
  BY PMAssumption
<1> QED BY <1>2, <1>3 DEF NewPartitions

(* Threads on the slow path of SetPartitionCount: a step outside of it     *)
(* does not change how many there are ...                                  *)
LEMMA SlowSame ==
    ASSUME TypeOK, NEW t \in Threads, NEW l, pc' = [pc EXCEPT ![t] = l],
           pc[t] # "slow", l # "slow"
    PROVE  Cardinality(Slow') = Cardinality(Slow)
<1>1. Slow' = Slow
  BY DEF TypeOK, Slow
<1> QED BY <1>1

(* ... one more is counted when a thread finds another partition count ... *)
LEMMA SlowMore ==
    ASSUME TypeOK, NEW t \in Threads, pc' = [pc EXCEPT ![t] = "slow"], pc[t] # "slow"
    PROVE  /\ Cardinality(Slow) \in Nat
           /\ Cardinality(Slow') = Cardinality(Slow) + 1
<1>1. IsFiniteSet(Slow)
  BY PMAssumption, FS_Subset DEF Slow
<1>2. Slow' = Slow \cup {t} /\ t \notin Slow
  BY DEF TypeOK, Slow
<1> QED BY <1>1, <1>2, FS_CardinalityType, FS_AddElement

(* ... and one fewer when it has looked again or built the channel.        *)
LEMMA SlowFewer ==
    ASSUME TypeOK, NEW t \in Threads, pc' = [pc EXCEPT ![t] = "get"], pc[t] = "slow"
    PROVE  /\ Cardinality(Slow) \in Nat
           /\ Cardinality(Slow') \in Nat
           /\ Cardinality(Slow') = Cardinality(Slow) - 1
<1>1. IsFiniteSet(Slow)
  BY PMAssumption, FS_Subset DEF Slow
<1>2. Slow' = Slow \ {t} /\ t \in Slow
  BY DEF TypeOK, Slow
<1>3. Cardinality(Slow \ {t}) = Cardinality(Slow) - 1 /\ IsFiniteSet(Slow \ {t})
  BY <1>1, <1>2, FS_RemoveElement
<1> QED BY <1>1, <1>2, <1>3, FS_CardinalityType

(* Moving a goroutine of object x from one place to another keeps its      *)
(* count, and that of every other object.                                  *)
LEMMA MoveKeeps ==
    ASSUME running \in [Places -> [Objects -> Nat]], NEW x \in Objects,
           NEW from \in Places, NEW to \in Places, from # to,
           running[from][x] > 0, Move(x, from, to)
    PROVE  /\ running' \in [Places -> [Objects -> Nat]]
           /\ \A o \in Objects : Spawned(o)' = Spawned(o)
<1>1. running' \in [Places -> [Objects -> Nat]]
  <2>1. [running[from] EXCEPT ![x] = @ - 1] \in [Objects -> Nat]
    OBVIOUS
  <2>2. [running[to] EXCEPT ![x] = @ + 1] \in [Objects -> Nat]
    OBVIOUS
  <2>3. running' = [running EXCEPT ![from] = [running[from] EXCEPT ![x] = @ - 1],
                                   ![to] = [running[to] EXCEPT ![x] = @ + 1]]
    BY DEF Move
  <2> QED BY <2>1, <2>2, <2>3
<1>3. ASSUME NEW o \in Objects PROVE Spawned(o)' = Spawned(o)
  <2>1. \A l \in Places : running[l][o] \in Nat
    OBVIOUS
  <2>2. /\ running'[from][o] = IF o = x THEN running[from][o] - 1 ELSE running[from][o]
        /\ running'[to][o] = IF o = x THEN running[to][o] + 1 ELSE running[to][o]
        /\ \A l \in Places : l # from /\ l # to => running'[l][o] = running[l][o]
    BY DEF Move
  <2> QED BY <2>1, <2>2 DEF Spawned, Places
<1> QED BY <1>1, <1>3

-----------------------------------------------------------------------------
(* Initially nobody waits and nothing is built.                            *)
LEMMA TypesInit == Init => Types
<1> SUFFICES ASSUME Init PROVE Types
  OBVIOUS
<1>1. TypeOK
  BY PMAssumption DEF Init, TypeOK, Gens, Places
<1>2. Slow = {}
  BY DEF Init, Slow
<1>3. Cardinality(Slow) = 0
  BY <1>2, FS_EmptySet
<1> QED BY <1>1, <1>3, PMAssumption DEF Init, Types

(* No step of Distribute or of a reEnqueue goroutine breaks the types, and *)
(* a channel is built only within the bound.                               *)
LEMMA TypesNext == Types /\ [Next]_vars => Types'
<1> SUFFICES ASSUME Types, [Next]_vars PROVE Types'
  OBVIOUS
<1>0. TypeOK
  BY DEF Types
<1> USE PMAssumption
<1>1. ASSUME NEW t \in Threads, NEW n \in Counts, Distribute(t, n) PROVE Types'
  <2>1. CASE HasCount(n)
    <3>1. pc' = [pc EXCEPT ![t] = "get"] /\ pc[t] = "idle" /\ gen # 0
      BY <1>1, <2>1 DEF Distribute, HasCount
    <3>2. Cardinality(Slow') = Cardinality(Slow)
      BY <1>0, <3>1, SlowSame
    <3> QED BY <1>1, <3>1, <3>2 DEF Distribute, Types, TypeOK, pmVars, dataVars
  <2>2. CASE ~HasCount(n)
    <3>1. pc' = [pc EXCEPT ![t] = "slow"] /\ pc[t] = "idle"
      BY <1>1, <2>2 DEF Distribute
    <3>2. Cardinality(Slow') = Cardinality(Slow) + 1 /\ Cardinality(Slow) \in Nat
      BY <1>0, <3>1, SlowMore
    <3>3. gen + Cardinality(Slow) < MaxGen
      BY <1>1, <2>2 DEF Distribute, Slow
    <3> QED BY <1>1, <3>1, <3>2, <3>3 DEF Distribute, Types, TypeOK, pmVars, dataVars
  <2> QED BY <2>1, <2>2
<1>2. ASSUME NEW t \in Threads, RecheckSame(t) PROVE Types'
  <2>1. pc' = [pc EXCEPT ![t] = "get"] /\ pc[t] = "slow" /\ gen # 0
    BY <1>2 DEF RecheckSame, HasCount
  <2>2. /\ Cardinality(Slow) \in Nat
        /\ Cardinality(Slow') \in Nat
        /\ Cardinality(Slow') = Cardinality(Slow) - 1
    BY <1>0, <2>1, SlowFewer
  <2> QED BY <1>2, <2>1, <2>2 DEF RecheckSame, Types, TypeOK, pmVars, dataVars
<1>3. ASSUME NEW t \in Threads, Rebuild(t) PROVE Types'
  <2>1. pc' = [pc EXCEPT ![t] = "get"] /\ pc[t] = "slow" /\ gen' = gen + 1
    BY <1>3 DEF Rebuild
  <2>2. /\ Cardinality(Slow) \in Nat
        /\ Cardinality(Slow') \in Nat
        /\ Cardinality(Slow') = Cardinality(Slow) - 1
    BY <1>0, <2>1, SlowFewer
  <2>5. gen + 1 \in Gens
    BY <2>2 DEF Types, TypeOK, Gens
  <2>6. count[t] \in 0..MaxCount
    BY DEF Types, TypeOK
  <2>7. NewPartitions(gen + 1, count[t]) \in Seq(Objects)
    BY <2>5, <2>6, NewChannel
  <2>8. /\ size' = [size EXCEPT ![gen + 1] = count[t]]
        /\ available' = [available EXCEPT ![gen + 1] = NewPartitions(gen + 1, count[t])]
        /\ UNCHANGED <<dataVars, count, data>>
    BY <1>3 DEF Rebuild
  <2>9. size' \in [Gens -> 0..MaxCount] /\ available' \in [Gens -> Seq(Objects)]
    BY <2>6, <2>7, <2>8 DEF Types, TypeOK
  <2>10. pc' \in [Threads -> {"idle", "slow", "get", "wait", "produce", "reset"}]
    BY <1>0, <2>1 DEF TypeOK
  <2>11. TypeOK'
    <3>1. gen' \in 0..MaxGen
      BY <2>1, <2>5 DEF Gens
    <3>2. UNCHANGED <<failures, reset, running, count, data>>
      BY <2>8 DEF dataVars
    <3> QED BY <1>0, <2>9, <2>10, <3>1, <3>2 DEF TypeOK
  <2>12. gen \in Nat /\ gen' # 0 /\ DOMAIN pc = Threads /\ data' = data
    BY <1>0, <2>1, <2>8 DEF TypeOK
  <2>13. gen' + Cardinality(Slow') <= MaxGen
    BY <2>1, <2>2, <2>12 DEF Types
  <2>14. \A u \in Threads : pc'[u] \in {"produce", "reset"} => data'[u] \in Objects
    BY <2>1, <2>12 DEF Types
  <2> QED BY <2>11, <2>12, <2>13, <2>14 DEF Types
<1>4. ASSUME NEW t \in Threads, GetPartition(t) PROVE Types'
  <2>1. pc' = [pc EXCEPT ![t] = "wait"] /\ pc[t] = "get"
    BY <1>4 DEF GetPartition
  <2>2. Cardinality(Slow') = Cardinality(Slow)
    BY <1>0, <2>1, SlowSame
  <2> QED BY <1>4, <2>1, <2>2 DEF GetPartition, Types, TypeOK, pmVars, dataVars
<1>5. ASSUME NEW t \in Threads, Receive(t) PROVE Types'
  <2>1. pc' = [pc EXCEPT ![t] = "produce"] /\ pc[t] = "wait"
    BY <1>5 DEF Receive
  <2>2. Cardinality(Slow') = Cardinality(Slow)
    BY <1>0, <2>1, SlowSame
  <2>3. gen \in Gens
    BY <2>1 DEF Types, TypeOK, Gens
  <2>4. available[gen] \in Seq(Objects) /\ available[gen] # <<>>
    BY <1>5, <2>3 DEF Types, TypeOK, Receive
  <2>5. PICK o \in Objects, s \in Seq(Objects) :
           /\ available' = [available EXCEPT ![gen] = s]
           /\ running' = [running EXCEPT !["check"][o] = @ + 1]
           /\ data' = [data EXCEPT ![t] = o]
    BY <1>5, <2>4, HeadTail DEF Receive, Rest
  <2>6. available' \in [Gens -> Seq(Objects)]
    BY <2>3, <2>5 DEF Types, TypeOK
  <2>7. running' \in [Places -> [Objects -> Nat]]
    <3>1. running \in [Places -> [Objects -> Nat]] /\ "check" \in Places
      BY <1>0 DEF TypeOK, Places
    <3>2. [running["check"] EXCEPT ![o] = @ + 1] \in [Objects -> Nat]
      BY <3>1
    <3> QED BY <2>5, <3>1, <3>2
  <2>8. UNCHANGED <<gen, size, failures, reset, count>>
    BY <1>5 DEF Receive
  <2>9. data' \in [Threads -> Objects \cup {None}]
    BY <2>5 DEF Types, TypeOK
  <2>10. TypeOK'
    BY <2>1, <2>6, <2>7, <2>8, <2>9 DEF Types, TypeOK
  <2> QED BY <2>1, <2>2, <2>5, <2>8, <2>10 DEF Types, TypeOK
<1>6. ASSUME NEW t \in Threads, Timeout(t) PROVE Types'
  <2>1. pc' = [pc EXCEPT ![t] = "idle"] /\ pc[t] = "wait"
    BY <1>6 DEF Timeout
  <2>2. Cardinality(Slow') = Cardinality(Slow)
    BY <1>0, <2>1, SlowSame
  <2> QED BY <1>6, <2>1, <2>2 DEF Timeout, Types, TypeOK, pmVars, dataVars
<1>7. ASSUME NEW t \in Threads, Failure(t) PROVE Types'
  <2>1. pc' = [pc EXCEPT ![t] = "idle"] /\ pc[t] = "produce"
    BY <1>7 DEF Failure
  <2>2. Cardinality(Slow') = Cardinality(Slow)
    BY <1>0, <2>1, SlowSame
  <2> QED BY <1>7, <2>1, <2>2 DEF Failure, Types, TypeOK, pmVars
<1>8. ASSUME NEW t \in Threads, Success(t) PROVE Types'
  <2>1. pc' = [pc EXCEPT ![t] = "reset"] /\ pc[t] = "produce"
    BY <1>8 DEF Success
  <2>2. Cardinality(Slow') = Cardinality(Slow)
    BY <1>0, <2>1, SlowSame
  <2> QED BY <1>8, <2>1, <2>2 DEF Success, Types, TypeOK, pmVars
<1>9. ASSUME NEW t \in Threads, SendReset(t) PROVE Types'
  <2>1. pc' = [pc EXCEPT ![t] = "idle"] /\ pc[t] = "reset"
    BY <1>9 DEF SendReset
  <2>2. Cardinality(Slow') = Cardinality(Slow)
    BY <1>0, <2>1, SlowSame
  <2> QED BY <1>9, <2>1, <2>2 DEF SendReset, Types, TypeOK, pmVars
<1>10. ASSUME NEW o \in Objects, GoroutineNext(o) PROVE Types'
  <2>1. pc' = pc /\ gen' = gen /\ data' = data /\ count' = count /\ size' = size
    BY <1>10 DEF GoroutineNext, CheckFailures, BackoffEnds, ResetEnds, ReEnqueue,
       pmVars, threadVars
  <2>2. failures' = failures /\ reset' \subseteq reset
    BY <1>10 DEF GoroutineNext, CheckFailures, BackoffEnds, ResetEnds, ReEnqueue
  <2>3. running' \in [Places -> [Objects -> Nat]]
    <3>1. ASSUME NEW from \in Places, NEW to \in Places, from # to,
                 running[from][o] > 0, Move(o, from, to)
          PROVE  running' \in [Places -> [Objects -> Nat]]
      BY <1>0, <3>1, MoveKeeps DEF TypeOK
    <3>2. CASE CheckFailures(o) \/ BackoffEnds(o) \/ ResetEnds(o)
      BY <3>1, <3>2 DEF CheckFailures, BackoffEnds, ResetEnds, Places
    <3>3. CASE ReEnqueue(o)
      BY <1>0, <3>3 DEF ReEnqueue, Ended, TypeOK, Places
    <3> QED BY <1>10, <3>2, <3>3 DEF GoroutineNext
  <2>4. available' \in [Gens -> Seq(Objects)]
    <3>1. CASE CheckFailures(o) \/ BackoffEnds(o) \/ ResetEnds(o)
      BY <1>0, <3>1 DEF CheckFailures, BackoffEnds, ResetEnds, pmVars, TypeOK
    <3>2. CASE ReEnqueue(o)
      <4>1. Gen(o) \in Gens /\ available[Gen(o)] \in Seq(Objects)
        BY <1>0, ObjectPairs DEF TypeOK
      <4>2. Append(available[Gen(o)], o) \in Seq(Objects)
        BY <4>1, AppendLast
      <4> QED BY <1>0, <3>2, <4>1, <4>2 DEF ReEnqueue, TypeOK
    <3> QED BY <1>10, <3>1, <3>2 DEF GoroutineNext
  <2> QED BY <2>1, <2>2, <2>3, <2>4 DEF Types, TypeOK, Slow
<1>11. CASE UNCHANGED vars
  BY <1>11 DEF vars, pmVars, dataVars, threadVars, Types, TypeOK, Slow
<1> QED
  BY <1>1, <1>2, <1>3, <1>4, <1>5, <1>6, <1>7, <1>8, <1>9, <1>10, <1>11
     DEF Next, ThreadNext

-----------------------------------------------------------------------------
(* The size of an interval.                                                *)
LEMMA Interval ==
    ASSUME NEW n \in Nat
    PROVE  /\ IsFiniteSet(1..n) /\ Cardinality(1..n) = n
           /\ IsFiniteSet(0..(n - 1)) /\ Cardinality(0..(n - 1)) = n
<1>1. IsFiniteSet(1..n) /\ Cardinality(1..n) = IF 1 > n THEN 0 ELSE n - 1 + 1
  BY FS_Interval
<1>2. \A m \in Int : /\ IsFiniteSet(0..m)
                     /\ Cardinality(0..m) = IF 0 > m THEN 0 ELSE m - 0 + 1
  BY FS_Interval
<1>3. n - 1 \in Int
  OBVIOUS
<1>4. Cardinality(1..n) = n
  BY <1>1
<1>5. IsFiniteSet(0..(n - 1)) /\ Cardinality(0..(n - 1)) = n
  BY <1>2, <1>3
<1> QED BY <1>1, <1>4, <1>5

(* A channel that lacks one of its partitions has room for it.             *)
LEMMA Room ==
    ASSUME TypeOK, Conservation, OwnPartitions, NEW o \in Objects, Spawned(o) > 0
    PROVE  /\ o[2] < size[Gen(o)]
           /\ o \notin OnOffer(Gen(o))
           /\ Spawned(o) = 1
           /\ Len(available[Gen(o)]) < size[Gen(o)]
<1>1. PICK g \in Gens, p \in 0..(MaxCount - 1) :
         o = <<g, p>> /\ Gen(o) = g /\ o[1] = g /\ o[2] = p
  BY ObjectPairs
<1>2. /\ p < size[g]
      /\ o \notin OnOffer(g)
      /\ Spawned(o) = 1
  BY <1>1 DEF Conservation
<1>3. /\ available[g] \in Seq(Objects)
      /\ size[g] \in 0..MaxCount
  BY DEF TypeOK
<1> DEFINE rest == (0..(size[g] - 1)) \ {p}
           f == [i \in 1..Len(available[g]) |-> available[g][i][2]]
<1>4. IsFiniteSet(rest) /\ Cardinality(rest) = size[g] - 1
  <2>1. size[g] \in Nat /\ size[g] > 0 /\ p \in 0..(size[g] - 1)
    BY <1>2, <1>3, PMAssumption
  <2>2. IsFiniteSet(0..(size[g] - 1)) /\ Cardinality(0..(size[g] - 1)) = size[g]
    BY <2>1, Interval
  <2> QED BY <2>1, <2>2, FS_RemoveElement
<1>5. \A i \in 1..Len(available[g]) :
         /\ available[g][i] \in Objects
         /\ available[g][i] # o
         /\ available[g][i][1] = g
         /\ available[g][i][2] < size[g]
  <2>1. \A i \in 1..Len(available[g]) : i \in DOMAIN available[g]
    BY <1>3
  <2>2. \A i \in DOMAIN available[g] :
           available[g][i] \in OnOffer(g) /\ available[g][i] \in Objects
    BY <1>3 DEF OnOffer
  <2> QED BY <1>2, <2>1, <2>2, ObjectPairs DEF OwnPartitions, Gen
<1>6. \A i \in 1..Len(available[g]) : available[g][i][2] \in rest
  <2>1. \A x \in Objects : x[1] = g /\ x[2] = p => x = o
    BY <1>1, ObjectPairs
  <2>2. \A i \in 1..Len(available[g]) :
           available[g][i][2] # p /\ available[g][i][2] \in Nat
    BY <1>5, <2>1, ObjectPairs
  <2> QED BY <1>3, <1>5, <2>2, PMAssumption
<1>7. \A i, j \in 1..Len(available[g]) : f[i] = f[j] => i = j
  <2>1. \A x, y \in Objects : x[1] = y[1] /\ x[2] = y[2] => x = y
    BY ObjectPairs
  <2>2. \A i, j \in 1..Len(available[g]) : f[i] = f[j] => available[g][i] = available[g][j]
    BY <1>5, <2>1
  <2>3. \A i, j \in DOMAIN available[g] : available[g][i] = available[g][j] => i = j
    BY DEF Conservation
  <2>4. \A i \in 1..Len(available[g]) : i \in DOMAIN available[g]
    BY <1>3
  <2> HIDE DEF f
  <2> QED BY <2>2, <2>3, <2>4
<1>8. f \in Injection(1..Len(available[g]), rest)
  <2>1. f \in [1..Len(available[g]) -> rest]
    BY <1>6
  <2>2. DOMAIN f = 1..Len(available[g])
    OBVIOUS
  <2> HIDE DEF f, rest
  <2> QED BY <1>7, <2>1, <2>2 DEF Injection, IsInjective
<1>9. Cardinality(1..Len(available[g])) <= Cardinality(rest)
  BY <1>4, <1>8, FS_Injection
<1>10. Cardinality(1..Len(available[g])) = Len(available[g]) /\ Len(available[g]) \in Nat
  BY <1>3, Interval
<1> QED BY <1>1, <1>2, <1>3, <1>4, <1>9, <1>10, PMAssumption

(* Hence reEnqueue never drops a partition.                                *)
LEMMA RoomToSend ==
    ASSUME TypeOK, Conservation, OwnPartitions
    PROVE  NoProgrammerError
<1> SUFFICES ASSUME NEW o \in Objects, running["send"][o] > 0
             PROVE  Len(available[Gen(o)]) < size[Gen(o)]
  BY DEF NoProgrammerError
<1>1. Spawned(o) > 0
  BY DEF TypeOK, Places, Spawned
<1> QED BY <1>1, Room

-----------------------------------------------------------------------------
(* Initially there is nothing to conserve.                                 *)
LEMMA OffersInit == Init => Offers
<1> SUFFICES ASSUME Init PROVE Offers
  OBVIOUS
<1>1. \A g \in Gens : DOMAIN available[g] = {} /\ size[g] = 0
  BY DEF Init
<1>2. \A o \in Objects : Spawned(o) = 0
  BY DEF Init, Spawned, Places
<1>3. Conservation
  BY <1>1, <1>2, ObjectPairs DEF Conservation
<1> QED BY <1>1, <1>3 DEF Offers, OwnPartitions, NotYetBuilt, OnOffer

(* Steps that leave the channels and the number of goroutines alone.       *)
LEMMA OffersKept ==
    ASSUME Offers, gen' = gen, size' = size, available' = available,
           \A o \in Objects : Spawned(o)' = Spawned(o)
    PROVE  Offers'
<1>1. \A g \in Gens : OnOffer(g)' = OnOffer(g)
  BY DEF OnOffer
<1>2. \A g \in Gens, p \in 0..(MaxCount - 1) : Spawned(<<g, p>>)' = Spawned(<<g, p>>)
  BY ObjectPairs
<1>3. Conservation'
  BY <1>1, <1>2 DEF Offers, Conservation
<1> QED BY <1>1, <1>3 DEF Offers, OwnPartitions, NotYetBuilt

(* No step loses a partition or offers one twice.                          *)
LEMMA OffersNext == Types /\ Offers /\ [Next]_vars => Offers'
<1> SUFFICES ASSUME Types, Offers, [Next]_vars PROVE Offers'
  OBVIOUS
<1>0. TypeOK /\ Conservation /\ OwnPartitions /\ NotYetBuilt
  BY DEF Types, Offers
<1>1. ASSUME gen' = gen, size' = size, available' = available, running' = running
      PROVE  Offers'
  <2>1. \A o \in Objects : Spawned(o)' = Spawned(o)
    BY <1>1 DEF Spawned
  <2> QED BY <1>1, <2>1, OffersKept
<1>2. ASSUME NEW t \in Threads,
             \/ \E n \in Counts : Distribute(t, n)
             \/ RecheckSame(t)
             \/ GetPartition(t)
             \/ Timeout(t)
             \/ Failure(t)
             \/ Success(t)
             \/ SendReset(t)
      PROVE  Offers'
  BY <1>1, <1>2 DEF Distribute, RecheckSame, GetPartition, Timeout, Failure, Success,
     SendReset, pmVars, dataVars
<1>3. ASSUME NEW t \in Threads, Rebuild(t) PROVE Offers'
  <2>1. PICK g \in Gens, n \in 0..MaxCount : g = gen + 1 /\ n = count[t] /\ gen' = g
    <3>1. Types'
      BY TypesNext
    <3>2. gen + 1 \in Gens /\ gen' = gen + 1 /\ count[t] \in 0..MaxCount
      BY <1>0, <1>3, <3>1 DEF Rebuild, Types, TypeOK, Gens
    <3> QED BY <3>2
  <2>2. PICK s \in Seq(Objects) :
           /\ DOMAIN s = 1..n
           /\ \A i \in 1..n : s[i] = <<g, i - 1>>
           /\ available' = [available EXCEPT ![g] = s]
    BY <1>3, <2>1, NewChannel DEF Rebuild
  <2>3. size' = [size EXCEPT ![g] = n]
    BY <1>3, <2>1 DEF Rebuild
  <2>4. \A o \in Objects : Spawned(o)' = Spawned(o)
    BY <1>3 DEF Rebuild, dataVars, Spawned
  <2>5. /\ available'[g] = s
        /\ size'[g] = n
        /\ \A h \in Gens : h # g => available'[h] = available[h] /\ size'[h] = size[h]
    BY <1>0, <2>1, <2>2, <2>3 DEF TypeOK
  <2>6. size[g] = 0
    BY <1>0, <2>1 DEF NotYetBuilt, Gens, TypeOK
  <2>7. \A p \in 0..(MaxCount - 1) : Spawned(<<g, p>>)' = 0
    <3>1. \A p \in 0..(MaxCount - 1) : ~(p < size[g])
      BY <2>6, PMAssumption
    <3>2. \A p \in 0..(MaxCount - 1) : Spawned(<<g, p>>) = 0
      BY <1>0, <3>1 DEF Conservation
    <3> QED BY <2>4, <3>2, ObjectPairs
  <2>8. \A p \in 0..(MaxCount - 1) : p < n => <<g, p>> \in OnOffer(g)'
    <3> SUFFICES ASSUME NEW p \in 0..(MaxCount - 1), p < n
                 PROVE  <<g, p>> \in OnOffer(g)'
      OBVIOUS
    <3>1. p + 1 \in 1..n /\ (p + 1) - 1 = p
      BY <2>1, PMAssumption
    <3>2. s[p + 1] = <<g, p>>
      BY <2>2, <3>1
    <3> QED BY <2>2, <2>5, <3>1, <3>2 DEF OnOffer
  <2>9. \A i, j \in DOMAIN s : s[i] = s[j] => i = j
    BY <2>2
  <2>10. \A o \in OnOffer(g)' : Gen(o) = g /\ o[2] < n
    <3>1. \A i \in 1..n : i - 1 < n /\ i - 1 \in Int
      BY <2>1
    <3> QED BY <2>2, <2>5, <3>1 DEF OnOffer, Gen
  <2>11. \A h \in Gens : h # g => OnOffer(h)' = OnOffer(h)
    BY <2>5 DEF OnOffer
  <2>12. Conservation'
    <3>1. ASSUME NEW h \in Gens, h # g
          PROVE  /\ \A i, j \in DOMAIN available'[h] : available'[h][i] = available'[h][j] => i = j
                 /\ \A p \in 0..(MaxCount - 1) :
                       Spawned(<<h, p>>)' = IF p < size'[h] /\ <<h, p>> \notin OnOffer(h)'
                                            THEN 1 ELSE 0
      BY <1>0, <2>4, <2>5, <2>11, <3>1, ObjectPairs DEF Conservation
    <3>2. \A i, j \in DOMAIN available'[g] : available'[g][i] = available'[g][j] => i = j
      BY <2>5, <2>9
    <3>3. \A p \in 0..(MaxCount - 1) :
             Spawned(<<g, p>>)' = IF p < size'[g] /\ <<g, p>> \notin OnOffer(g)'
                                  THEN 1 ELSE 0
      BY <2>5, <2>7, <2>8
    <3> QED BY <3>1, <3>2, <3>3 DEF Conservation
  <2>13. OwnPartitions'
    BY <1>0, <2>5, <2>10, <2>11 DEF OwnPartitions
  <2>14. NotYetBuilt'
    <3>1. gen' = g /\ gen \in Nat /\ g = gen + 1
      BY <1>0, <2>1 DEF TypeOK
    <3> QED BY <1>0, <2>5, <3>1 DEF NotYetBuilt, Gens
  <2> QED BY <2>12, <2>13, <2>14 DEF Offers
<1>4. ASSUME NEW t \in Threads, Receive(t) PROVE Offers'
  <2>1. PICK g \in Gens : g = gen
    BY <1>4 DEF Receive, Types, TypeOK, Gens
  <2>2. available[g] \in Seq(Objects) /\ available[g] # <<>>
    BY <1>0, <1>4, <2>1 DEF TypeOK, Receive
  <2>3. PICK o \in Objects, s \in Seq(Objects) :
           /\ o = available[g][1]
           /\ 1 \in DOMAIN available[g]
           /\ \A i \in DOMAIN s : /\ i + 1 \in DOMAIN available[g]
                                  /\ i \in Nat \ {0}
                                  /\ s[i] = available[g][i + 1]
           /\ \A i \in DOMAIN available[g] : i = 1 \/ (i - 1 \in DOMAIN s /\ i \in Nat)
           /\ available' = [available EXCEPT ![g] = s]
           /\ running' = [running EXCEPT !["check"][o] = @ + 1]
    <3>1. /\ available' = [available EXCEPT ![g] = Tail(available[g])]
          /\ running' = [running EXCEPT !["check"][Head(available[g])] = @ + 1]
      BY <1>4, <2>1 DEF Receive, Rest
    <3>2. /\ Head(available[g]) \in Objects
          /\ Tail(available[g]) \in Seq(Objects)
      BY <2>2, HeadTail
    <3> USE <3>2
    <3> WITNESS Head(available[g]) \in Objects, Tail(available[g]) \in Seq(Objects)
    <3> QED BY <2>2, <3>1, HeadTail
  <2>4. gen' = gen /\ size' = size
    BY <1>4 DEF Receive
  <2>5. /\ available'[g] = s
        /\ \A h \in Gens : h # g => available'[h] = available[h]
    BY <1>0, <2>1, <2>3 DEF TypeOK
  <2>6. o \in OnOffer(g)
    BY <2>3 DEF OnOffer
  <2>7. o[1] = g /\ o[2] < size[g] /\ o = <<g, o[2]>> /\ o[2] \in 0..(MaxCount - 1)
    BY <1>0, <2>1, <2>6, ObjectPairs DEF OwnPartitions
  <2>8. Spawned(o) = 0
    BY <1>0, <2>1, <2>6, <2>7 DEF Conservation
  <2>9. ASSUME NEW x \in Objects
        PROVE  Spawned(x)' = IF x = o THEN 1 ELSE Spawned(x)
    <3>1. /\ running["check"][x] \in Nat
          /\ running["sleep"][x] \in Nat
          /\ running["send"][x] \in Nat
          /\ running'["check"][x] = IF x = o THEN running["check"][x] + 1
                                     ELSE running["check"][x]
          /\ running'["sleep"] = running["sleep"]
          /\ running'["send"] = running["send"]
      BY <1>0, <2>3 DEF TypeOK, Places
    <3>2. CASE x = o
      <4>1. Spawned(x) = 0
        BY <2>8, <3>2
      <4> QED BY <3>1, <3>2, <4>1 DEF Spawned
    <3>3. CASE x # o
      BY <3>1, <3>3 DEF Spawned
    <3> QED BY <3>2, <3>3
  <2>10. OnOffer(g)' = OnOffer(g) \ {o}
    <3>0. OnOffer(g)' = {s[i] : i \in DOMAIN s}
      BY <2>4, <2>5 DEF OnOffer
    <3>1. \A i, j \in DOMAIN available[g] : available[g][i] = available[g][j] => i = j
      BY <1>0, <2>1 DEF Conservation
    <3>2. \A i \in DOMAIN s : s[i] # o /\ s[i] \in OnOffer(g)
      BY <2>3, <3>1 DEF OnOffer
    <3>3. \A i \in DOMAIN available[g] :
             available[g][i] = o \/ \E j \in DOMAIN s : s[j] = available[g][i]
      <4> SUFFICES ASSUME NEW i \in DOMAIN available[g], i # 1
                   PROVE  \E j \in DOMAIN s : s[j] = available[g][i]
        BY <2>3
      <4>1. i - 1 \in DOMAIN s /\ (i - 1) + 1 = i
        BY <2>3
      <4>2. s[i - 1] = available[g][i]
        BY <2>3, <4>1
      <4> QED BY <4>1, <4>2
    <3>4. OnOffer(g) = {available[g][i] : i \in DOMAIN available[g]}
      BY DEF OnOffer
    <3> QED BY <3>0, <3>2, <3>3, <3>4
  <2>11. \A h \in Gens : h # g => OnOffer(h)' = OnOffer(h)
    BY <2>5 DEF OnOffer
  <2>12. \A i, j \in DOMAIN s : s[i] = s[j] => i = j
    <3>1. \A i, j \in DOMAIN available[g] : available[g][i] = available[g][j] => i = j
      BY <1>0, <2>1 DEF Conservation
    <3> SUFFICES ASSUME NEW i \in DOMAIN s, NEW j \in DOMAIN s, s[i] = s[j]
                 PROVE  i = j
      OBVIOUS
    <3>2. /\ i + 1 \in DOMAIN available[g] /\ j + 1 \in DOMAIN available[g]
          /\ i \in Nat /\ j \in Nat
          /\ available[g][i + 1] = available[g][j + 1]
      BY <2>3
    <3>3. i + 1 = j + 1
      BY <3>1, <3>2
    <3> QED BY <3>2, <3>3
  <2>13. Conservation'
    <3>1. ASSUME NEW h \in Gens
          PROVE  \A i, j \in DOMAIN available'[h] : available'[h][i] = available'[h][j] => i = j
      BY <1>0, <2>5, <2>12 DEF Conservation
    <3>2. ASSUME NEW h \in Gens, NEW p \in 0..(MaxCount - 1)
          PROVE  Spawned(<<h, p>>)' = IF p < size'[h] /\ <<h, p>> \notin OnOffer(h)'
                                      THEN 1 ELSE 0
      <4>1. CASE <<h, p>> = o
        <5>1. h = g /\ p = o[2] /\ p < size'[h] /\ o \notin OnOffer(h)'
          BY <2>4, <2>7, <2>10, <4>1, ObjectPairs
        <5> QED BY <2>9, <4>1, <5>1
      <4>2. CASE <<h, p>> # o
        <5>1. <<h, p>> \in OnOffer(h)' <=> <<h, p>> \in OnOffer(h)
          BY <2>10, <2>11, <4>2
        <5>2. Spawned(<<h, p>>)' = Spawned(<<h, p>>)
          BY <2>9, <4>2, ObjectPairs
        <5> QED BY <1>0, <2>4, <5>1, <5>2 DEF Conservation
      <4> QED BY <4>1, <4>2
    <3> QED BY <3>1, <3>2 DEF Conservation
  <2>14. OwnPartitions'
    BY <1>0, <2>4, <2>10, <2>11 DEF OwnPartitions
  <2> QED BY <1>0, <2>4, <2>13, <2>14 DEF Offers, NotYetBuilt
<1>5. ASSUME NEW o \in Objects, CheckFailures(o) \/ BackoffEnds(o) \/ ResetEnds(o)
      PROVE  Offers'
  <2>1. PICK from \in Places, to \in Places :
           from # to /\ running[from][o] > 0 /\ Move(o, from, to)
    BY <1>5 DEF CheckFailures, BackoffEnds, ResetEnds, Places
  <2>2. \A x \in Objects : Spawned(x)' = Spawned(x)
    BY <1>0, <2>1, MoveKeeps DEF TypeOK
  <2>3. gen' = gen /\ size' = size /\ available' = available
    BY <1>5 DEF CheckFailures, BackoffEnds, ResetEnds, pmVars
  <2> QED BY <2>2, <2>3, OffersKept
<1>6. ASSUME NEW o \in Objects, ReEnqueue(o) PROVE Offers'
  <2>1. PICK g \in Gens : g = Gen(o) /\ o[1] = g /\ o = <<g, o[2]>> /\ o[2] \in 0..(MaxCount - 1)
    BY ObjectPairs
  <2>2. Spawned(o) > 0
    BY <1>0, <1>6 DEF ReEnqueue, TypeOK, Places, Spawned
  <2>3. /\ o[2] < size[g]
        /\ o \notin OnOffer(g)
        /\ Spawned(o) = 1
        /\ Len(available[g]) < size[g]
    BY <1>0, <2>1, <2>2, Room
  <2>4. PICK s \in Seq(Objects), m \in Nat :
           /\ \A i \in DOMAIN s :
                 \/ i \in DOMAIN available[g] /\ s[i] = available[g][i]
                 \/ i \notin DOMAIN available[g] /\ i = m /\ s[i] = o
           /\ \A i \in DOMAIN available[g] : i \in DOMAIN s /\ s[i] = available[g][i]
           /\ m \in DOMAIN s
           /\ s[m] = o
           /\ available' = [available EXCEPT ![g] = s]
    <3>1. available[g] \in Seq(Objects)
      BY <1>0 DEF TypeOK
    <3>2. available' = [available EXCEPT ![g] = Append(available[g], o)]
      BY <1>6, <2>1, <2>3 DEF ReEnqueue
    <3>3. Len(available[g]) + 1 \in Nat
      BY <3>1
    <3> QED BY <3>1, <3>2, <3>3, AppendLast
  <2>5. gen' = gen /\ size' = size
    BY <1>6 DEF ReEnqueue
  <2>6. /\ available'[g] = s
        /\ \A h \in Gens : h # g => available'[h] = available[h]
    BY <1>0, <2>4 DEF TypeOK
  <2>7. ASSUME NEW x \in Objects
        PROVE  Spawned(x)' = IF x = o THEN 0 ELSE Spawned(x)
    <3>1. /\ running["check"][x] \in Nat
          /\ running["sleep"][x] \in Nat
          /\ running["send"][x] \in Nat
          /\ running'["send"][x] = IF x = o THEN running["send"][x] - 1
                                   ELSE running["send"][x]
          /\ running'["sleep"] = running["sleep"]
          /\ running'["check"] = running["check"]
      BY <1>0, <1>6 DEF ReEnqueue, Ended, TypeOK, Places
    <3>2. CASE x = o
      <4>1. Spawned(x) = 1
        BY <2>3, <3>2
      <4> QED BY <3>1, <3>2, <4>1 DEF Spawned
    <3>3. CASE x # o
      BY <3>1, <3>3 DEF Spawned
    <3> QED BY <3>2, <3>3
  <2>8. OnOffer(g)' = OnOffer(g) \cup {o}
    <3>1. OnOffer(g)' = {s[i] : i \in DOMAIN s}
      BY <2>6 DEF OnOffer
    <3> QED BY <2>4, <3>1 DEF OnOffer
  <2>9. \A h \in Gens : h # g => OnOffer(h)' = OnOffer(h)
    BY <2>6 DEF OnOffer
  <2>10. \A i, j \in DOMAIN s : s[i] = s[j] => i = j
    <3>1. \A i, j \in DOMAIN available[g] : available[g][i] = available[g][j] => i = j
      BY <1>0 DEF Conservation
    <3>2. \A i \in DOMAIN available[g] : available[g][i] # o
      BY <2>3 DEF OnOffer
    <3> QED BY <2>4, <3>1, <3>2
  <2>11. Conservation'
    <3>1. ASSUME NEW h \in Gens
          PROVE  \A i, j \in DOMAIN available'[h] : available'[h][i] = available'[h][j] => i = j
      BY <1>0, <2>6, <2>10 DEF Conservation
    <3>2. ASSUME NEW h \in Gens, NEW p \in 0..(MaxCount - 1)
          PROVE  Spawned(<<h, p>>)' = IF p < size'[h] /\ <<h, p>> \notin OnOffer(h)'
                                      THEN 1 ELSE 0
      <4>1. CASE <<h, p>> = o
        <5>1. h = g /\ o \in OnOffer(h)'
          BY <2>1, <2>8, <4>1, ObjectPairs
        <5> QED BY <2>7, <4>1, <5>1
      <4>2. CASE <<h, p>> # o
        <5>1. <<h, p>> \in OnOffer(h)' <=> <<h, p>> \in OnOffer(h)
          BY <2>8, <2>9, <4>2
        <5>2. Spawned(<<h, p>>)' = Spawned(<<h, p>>)
          BY <2>7, <4>2, ObjectPairs
        <5> QED BY <1>0, <2>5, <5>1, <5>2 DEF Conservation
      <4> QED BY <4>1, <4>2
    <3> QED BY <3>1, <3>2 DEF Conservation
  <2>12. OwnPartitions'
    BY <1>0, <2>1, <2>3, <2>5, <2>8, <2>9 DEF OwnPartitions
  <2> QED BY <1>0, <2>5, <2>11, <2>12 DEF Offers, NotYetBuilt
<1>7. CASE UNCHANGED vars
  BY <1>1, <1>7 DEF vars, pmVars, dataVars
<1> QED
  BY <1>2, <1>3, <1>4, <1>5, <1>6, <1>7 DEF Next, ThreadNext, GoroutineNext

-----------------------------------------------------------------------------
(* Both layers together are inductive.                                     *)
LEMMA Inductive == Spec => [](Types /\ Offers)
<1>1. Init => Types /\ Offers
  BY TypesInit, OffersInit
<1>2. Types /\ Offers /\ [Next]_vars => Types' /\ Offers'
  BY TypesNext, OffersNext
<1> QED BY <1>1, <1>2, PTL DEF Spec

(* Type correctness: among other things no channel is built beyond the     *)
(* bound and a thread always produces to a partition that it received.     *)
THEOREM PartitionTypeOK == Spec => []TypeOK
<1>1. Types => TypeOK
  BY DEF Types
<1> QED BY <1>1, Inductive, PTL

(* No partition is lost or offered twice, for any number of threads and    *)
(* partitions and any sequence of partition counts, zero included: each is *)
(* on offer in its channel or in the hands of one reEnqueue goroutine.     *)
THEOREM PartitionConservation == Spec => []Conservation
<1>1. Offers => Conservation
  BY DEF Offers
<1> QED BY <1>1, Inductive, PTL

(* The send of reEnqueue never finds its channel full, be it the current   *)
(* one or one that was replaced: "Programmer error" is never logged.       *)
THEOREM PartitionNoProgrammerError == Spec => []NoProgrammerError
<1>1. Types /\ Offers => NoProgrammerError
  BY RoomToSend DEF Types, Offers
<1> QED BY <1>1, Inductive, PTL
=============================================================================
