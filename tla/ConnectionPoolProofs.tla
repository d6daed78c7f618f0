------------------------ MODULE ConnectionPoolProofs ------------------------
(***************************************************************************)
(* Proofs about ConnectionPool, for any threads, connections, addresses,   *)
(* limit and bounds.  The inductive invariant is built in four layers:     *)
(*   1. Shape: the types, and that whoever works on a backend or a         *)
(*      connection works on one that exists;                               *)
(*   2. ExclusiveOwner, from Shape;                                        *)
(*   3. Quota: the accounting of live backends, from both.  It adds what   *)
(*      QuotaExact leaves out: what a dialler may rely on while it holds   *)
(*      the mutex, and that only closed connections are ever untracked;    *)
(*   4. Parked: where connections wait, from all of them.  A connection    *)
(*      that is open and in nobody's hands is in a channel, of a backend   *)
(*      of its own address; a backend that goes takes what it dialled and  *)
(*      still has along.                                                   *)
(* From these it follows that the pool implements Lending.                 *)
(***************************************************************************)
EXTENDS ConnectionPool, FiniteSetTheorems, TLAPS

AtBackend == {"get", "dial", "getremove", "scanbackend", "scanremove"}

Dialed(c) == dialedBy[c] \in Backends

Shape ==
    /\ TypeOK
    /\ \A t \in Threads : pc[t] \in AtBackend => be[t] \in Backends
    /\ \A c \in Conns : idle[c] \in {"put", "remove", "excess"} =>
                          idleBe[c] \in Backends
    /\ \A c \in Conns : idle[c] # "none" => Dialed(c)
    /\ \A t \in Threads : \A c \in held[t] : Dialed(c)
    /\ \A b \in Backends : \A i \in DOMAIN channel[b] : Dialed(channel[b][i])

(* A backend is its address and its generation, and any such pair is one.  *)
LEMMA BackendPairs ==
    /\ \A b \in Backends : /\ b = <<b[1], b[2]>>
                           /\ b[1] \in Addrs
                           /\ b[2] \in 1..MaxGen
    /\ \A a \in Addrs, g \in 1..MaxGen : /\ <<a, g>> \in Backends
                                         /\ <<a, g>>[1] = a
                                         /\ <<a, g>>[2] = g
BY DEF Backends

(* A lookup in the map finds a backend or nil.                             *)
LEMMA LookupType ==
    ASSUME TypeOK, NEW a \in Addrs
    PROVE  getBackend(a) \in Backends \cup {NoBackend}
BY PoolAssumption, BackendPairs DEF TypeOK, getBackend

(* What a receive takes from a channel, and what it leaves there.          *)
LEMMA HeadTail ==
    ASSUME NEW S, NEW s \in Seq(S), s # <<>>
    PROVE  /\ Head(s) \in S
           /\ Tail(s) \in Seq(S)
           /\ Head(s) = s[1]
           /\ 1 \in DOMAIN s
           /\ \A i \in DOMAIN Tail(s) : /\ i + 1 \in DOMAIN s
                                        /\ i \in Nat \ {0}
                                        /\ Tail(s)[i] = s[i + 1]
OBVIOUS

(* What a send adds to a channel.                                          *)
LEMMA AppendLast ==
    ASSUME NEW S, NEW s \in Seq(S), NEW x \in S
    PROVE  /\ Append(s, x) \in Seq(S)
           /\ \A i \in DOMAIN Append(s, x) :
                 \/ i \in DOMAIN s /\ Append(s, x)[i] = s[i]
                 \/ i \notin DOMAIN s /\ i = Len(s) + 1 /\ Append(s, x)[i] = x
OBVIOUS

(* What the recount of getNewConnection finds is a number.                 *)
LEMMA RecountType ==
    ASSUME TypeOK, NEW b \in Backends
    PROVE  /\ {c \in conns[b] : c \notin closed} \in SUBSET Conns
           /\ Cardinality({c \in conns[b] : c \notin closed}) \in Int
<1>1. {c \in conns[b] : c \notin closed} \in SUBSET Conns
  BY DEF TypeOK
<1>2. Cardinality({c \in conns[b] : c \notin closed}) \in Nat
  BY <1>1, PoolAssumption, FS_Subset, FS_CardinalityType
<1> QED BY <1>1, <1>2

(* A new pool has the right shape.                                         *)
LEMMA ShapeInit == Init => Shape
BY PoolAssumption DEF Init, Shape, TypeOK, ThreadPCs, AtBackend, Dialed, GetAllAddrs

(* No step of a caller, of Idle or of InitializeAddrs breaks it.           *)
LEMMA ShapeNext == Shape /\ [Next]_vars => Shape'
<1> SUFFICES ASSUME Shape, [Next]_vars PROVE Shape'
  OBVIOUS
<1>1. ASSUME NEW addrs \in SUBSET Addrs, InitializeAddrs(addrs) PROVE Shape'
  BY <1>1, PoolAssumption DEF InitializeAddrs, DeletedAddrs, Unlocked, Shape, TypeOK, AtBackend,
     Dialed, GetAllAddrs, backendVars, connVars, threadVars, idleVars
<1>2. ASSUME NEW a \in Addrs, CloseBackend(a) PROVE Shape'
  <2>1. TypeOK /\ UNCHANGED <<created, channel, conns, mu, dialedBy, threadVars, idleVars>>
    BY <1>2 DEF CloseBackend, Shape
  <2>2. backends[a] # 0 /\ a \in deletedAddrs
    BY <1>2, <2>1 DEF CloseBackend, TypeOK, GetAllAddrs
  <2>3. <<a, backends[a]>> \in Backends
    BY <2>1, <2>2, PoolAssumption, BackendPairs DEF TypeOK
  <2>4. /\ backends' \in [Addrs -> 0..MaxGen]
        /\ deletedAddrs' \subseteq GetAllAddrs'
    BY <1>2, <2>1, PoolAssumption DEF CloseBackend, TypeOK, GetAllAddrs
  <2>5. counter' \in [Backends -> Int] /\ closed' \subseteq Conns
    <3>1. PICK b \in Backends : /\ closed' = closed \cup conns[b]
                               /\ counter' = [counter EXCEPT ![b] = 0]
      BY <1>2, <2>3 DEF CloseBackend
    <3>2. closed' \subseteq Conns
      BY <2>1, <3>1 DEF TypeOK
    <3>3. counter' \in [Backends -> Int]
      BY <2>1, <3>1 DEF TypeOK
    <3> QED BY <3>2, <3>3
  <2>6. TypeOK'
    BY <2>1, <2>4, <2>5 DEF TypeOK, threadVars, idleVars
  <2> QED
    BY <2>1, <2>6 DEF Shape, Dialed, threadVars, idleVars
<1>3. ASSUME NEW t \in Threads, NEW a \in Addrs, CallGetConnectionByAddr(t, a)
      PROVE  Shape'
  <2>1. getBackend(a) \in Backends \cup {NoBackend}
    BY LookupType DEF Shape
  <2> QED
    BY <1>3, <2>1 DEF CallGetConnectionByAddr, Shape, TypeOK, AtBackend, ThreadPCs,
       Dialed, GetAllAddrs, poolVars, backendVars, connVars, idleVars
<1>4. ASSUME NEW t \in Threads, NEW r \in {"getremove", "scanremove"},
             pc[t] \in AtBackend, Receive(t, r)
      PROVE  Shape'
  <2>1. PICK b \in Backends, c \in Conns, s \in Seq(Conns) :
           /\ b = be[t] /\ Dialed(c)
           /\ \A i \in DOMAIN s : Dialed(s[i])
           /\ channel' = [channel EXCEPT ![b] = s]
           /\ \/ /\ held' = [held EXCEPT ![t] = held[t] \cup {c}]
                 /\ pc' = [pc EXCEPT ![t] = "run"]
                 /\ be' = [be EXCEPT ![t] = NoBackend]
                 /\ todo' = [todo EXCEPT ![t] = {}]
                 /\ popped' = popped
              \/ /\ popped' = [popped EXCEPT ![t] = {c}]
                 /\ pc' = [pc EXCEPT ![t] = r]
                 /\ held' = held /\ be' = be /\ todo' = todo
    <3>1. /\ be[t] \in Backends
          /\ channel[be[t]] \in Seq(Conns)
          /\ channel[be[t]] # <<>>
      BY <1>4 DEF Shape, TypeOK, Receive
    <3>2. /\ Head(channel[be[t]]) \in Conns
          /\ Dialed(Head(channel[be[t]]))
          /\ Tail(channel[be[t]]) \in Seq(Conns)
          /\ \A i \in DOMAIN Tail(channel[be[t]]) : Dialed(Tail(channel[be[t]])[i])
      BY <3>1, HeadTail DEF Shape
    <3> QED
      BY <1>4, <3>1, <3>2, Zenon DEF Receive
  <2>2. UNCHANGED <<poolVars, conns, counter, mu, connVars, idleVars>>
    BY <1>4 DEF Receive
  <2>3. /\ channel' \in [Backends -> Seq(Conns)]
        /\ \A d \in Backends : \A i \in DOMAIN channel'[d] : Dialed(channel'[d][i])
    BY <2>1 DEF Shape, TypeOK
  <2>4. TypeOK
    BY DEF Shape
  <2> DEFINE handed == held' = [held EXCEPT ![t] = held[t] \cup {c}]
  <2>5. /\ handed \/ held' = held
        /\ be' = [be EXCEPT ![t] = NoBackend] \/ be' = be
        /\ popped' = [popped EXCEPT ![t] = {c}] \/ popped' = popped
        /\ todo' = [todo EXCEPT ![t] = {}] \/ todo' = todo
    BY <2>1
  <2>6. /\ held' \in [Threads -> SUBSET Conns]
        /\ be' \in [Threads -> Backends \cup {NoBackend}]
        /\ popped' \in [Threads -> SUBSET Conns]
        /\ todo' \in [Threads -> SUBSET Addrs]
    <3>0. /\ held \in [Threads -> SUBSET Conns] /\ popped \in [Threads -> SUBSET Conns]
          /\ {c} \in SUBSET Conns /\ held[t] \cup {c} \in SUBSET Conns
      BY <2>4 DEF TypeOK
    <3>1. held' \in [Threads -> SUBSET Conns]
      BY <2>5, <3>0
    <3>2. be' \in [Threads -> Backends \cup {NoBackend}]
      BY <2>4, <2>5 DEF TypeOK
    <3>3. popped' \in [Threads -> SUBSET Conns]
      BY <2>5, <3>0
    <3>4. todo' \in [Threads -> SUBSET Addrs]
      BY <2>4, <2>5 DEF TypeOK
    <3> QED BY <3>1, <3>2, <3>3, <3>4
  <2>7. pc' \in [Threads -> ThreadPCs]
    BY <2>1, <2>4 DEF TypeOK, ThreadPCs
  <2>8. TypeOK'
    BY <2>2, <2>3, <2>4, <2>6, <2>7 DEF TypeOK, GetAllAddrs, poolVars, connVars,
       idleVars
  <2>9. \A u \in Threads : \A d \in held'[u] : Dialed(d)
    <3>0. held \in [Threads -> SUBSET Conns]
      BY <2>4 DEF TypeOK
    <3>1. \A u \in Threads : \A d \in held'[u] : d \in held[u] \/ d = c
      BY <2>5, <3>0
    <3> QED BY <2>1, <3>1 DEF Shape
  <2>10. \A u \in Threads : pc'[u] \in AtBackend => be'[u] \in Backends
    BY <2>1, <2>4 DEF Shape, TypeOK, AtBackend
  <2> QED
    BY <2>2, <2>3, <2>8, <2>9, <2>10 DEF Shape, Dialed, connVars, idleVars
<1>5. ASSUME NEW t \in Threads, GetConnectionTimeout(t) PROVE Shape'
  BY <1>5 DEF GetConnectionTimeout, Shape, TypeOK, AtBackend, ThreadPCs,
     Dialed, GetAllAddrs, poolVars, backendVars, connVars, idleVars
<1>6. ASSUME NEW t \in Threads, getNewConnection(t) PROVE Shape'
  <2>1. PICK b \in Backends, n \in SUBSET Conns, k \in Int :
           /\ b = be[t]
           /\ \/ /\ conns' = [conns EXCEPT ![b] = n]
                 /\ counter' = [counter EXCEPT ![b] = k]
              \/ conns' = conns /\ counter' = counter
           /\ mu' = [mu EXCEPT ![b] = t]
    <3>1. be[t] \in Backends
      BY <1>6 DEF getNewConnection, Shape, AtBackend
    <3>2. /\ {c \in conns[be[t]] : c \notin closed} \in SUBSET Conns
          /\ Cardinality({c \in conns[be[t]] : c \notin closed}) \in Int
      BY <3>1, RecountType DEF Shape
    <3> QED
      BY <1>6, <3>1, <3>2 DEF getNewConnection
  <2>2. /\ conns' \in [Backends -> SUBSET Conns]
        /\ counter' \in [Backends -> Int]
        /\ mu' \in [Backends -> Threads \cup {NoThread}]
    <3>1. TypeOK
      BY DEF Shape
    <3>2. conns' \in [Backends -> SUBSET Conns]
      BY <2>1, <3>1 DEF TypeOK
    <3>3. counter' \in [Backends -> Int]
      BY <2>1, <3>1 DEF TypeOK
    <3>4. mu' \in [Backends -> Threads \cup {NoThread}]
      BY <2>1, <3>1 DEF TypeOK
    <3> QED BY <3>2, <3>3, <3>4
  <2>3. /\ pc' = [pc EXCEPT ![t] = "dial"]
        /\ UNCHANGED <<poolVars, channel, connVars, be, popped, todo, held, idleVars>>
    BY <1>6 DEF getNewConnection
  <2> QED
    BY <2>1, <2>2, <2>3 DEF Shape, TypeOK, AtBackend, ThreadPCs, Dialed, GetAllAddrs,
       poolVars, connVars, idleVars
<1>7. ASSUME NEW t \in Threads, NEW c \in Conns, DialOK(t, c) PROVE Shape'
  <2>1. be[t] \in Backends
    BY <1>7 DEF DialOK, Shape, AtBackend
  <2>2. TypeOK'
    BY <1>7, <2>1 DEF DialOK, Unlock, Shape, TypeOK, ThreadPCs, GetAllAddrs, poolVars,
       idleVars
  <2>3. \A d \in Conns : (Dialed(d) \/ d = c) => Dialed(d)'
    BY <1>7, <2>1 DEF DialOK, Shape, TypeOK, Dialed
  <2>4. \A u \in Threads : \A d \in held'[u] : d \in held[u] \/ d = c
    BY <1>7 DEF DialOK, Shape, TypeOK
  <2> QED
    BY <1>7, <2>1, <2>2, <2>3, <2>4 DEF DialOK, Shape, TypeOK, AtBackend, idleVars
<1>8. ASSUME NEW t \in Threads, DialFail(t) PROVE Shape'
  BY <1>8 DEF DialFail, Unlock, Shape, TypeOK, AtBackend, ThreadPCs,
     Dialed, GetAllAddrs, poolVars, connVars, idleVars
<1>9. ASSUME NEW t \in Threads, RemoveReceived(t) PROVE Shape'
  <2>1. PICK c \in popped[t] : removeConnection(be[t], c)
    BY <1>9 DEF RemoveReceived
  <2> QED
    BY <1>9, <2>1 DEF RemoveReceived, removeConnection, Less, Shape, TypeOK, AtBackend,
       ThreadPCs, Dialed, GetAllAddrs, poolVars, connVars, idleVars
<1>10. ASSUME NEW t \in Threads, CallGetIdleConnection(t) PROVE Shape'
  BY <1>10 DEF CallGetIdleConnection, Shape, TypeOK, AtBackend, ThreadPCs,
     Dialed, GetAllAddrs, poolVars, backendVars, connVars, idleVars
<1>11. ASSUME NEW t \in Threads, NEW a \in Addrs, ScanNextAddr(t, a) PROVE Shape'
  <2>1. getBackend(a) \in Backends \cup {NoBackend}
    BY LookupType DEF Shape
  <2> QED
    BY <1>11, <2>1 DEF ScanNextAddr, Shape, TypeOK, AtBackend, ThreadPCs,
       Dialed, GetAllAddrs, poolVars, backendVars, connVars, idleVars
<1>12. ASSUME NEW t \in Threads, ScanBackendEmpty(t) PROVE Shape'
  BY <1>12 DEF ScanBackendEmpty, Shape, TypeOK, AtBackend, ThreadPCs,
     Dialed, GetAllAddrs, poolVars, backendVars, connVars, idleVars
<1>13. ASSUME NEW t \in Threads, ScanDone(t) PROVE Shape'
  BY <1>13 DEF ScanDone, Shape, TypeOK, AtBackend, ThreadPCs,
     Dialed, GetAllAddrs, poolVars, backendVars, connVars, idleVars
<1>14. ASSUME NEW t \in Threads, NEW c \in Conns, CloseHeld(t, c) PROVE Shape'
  BY <1>14 DEF CloseHeld, Shape, TypeOK, AtBackend,
     Dialed, GetAllAddrs, poolVars, backendVars, threadVars, idleVars
<1>15. ASSUME NEW t \in Threads, NEW c \in Conns, Release(t, c) PROVE Shape'
  BY <1>15 DEF Release, StopUsing, Shape, TypeOK, AtBackend,
     Dialed, GetAllAddrs, poolVars, backendVars, connVars
<1>16. ASSUME NEW c \in Conns, IdleLookup(c) PROVE Shape'
  <2>1. Addr(dialedBy[c]) \in Addrs
    BY <1>16, BackendPairs DEF IdleLookup, Shape, Dialed, Addr
  <2>2. getBackend(Addr(dialedBy[c])) \in Backends \cup {NoBackend}
    BY <2>1, LookupType DEF Shape
  <2> QED
    BY <1>16, <2>1, <2>2 DEF IdleLookup, CloseOrPut, Shape, TypeOK, AtBackend,
       Dialed, GetAllAddrs, poolVars, backendVars, connVars, threadVars
<1>17. ASSUME NEW c \in Conns, IdlePut(c) PROVE Shape'
  <2>1. PICK b \in Backends, s \in Seq(Conns) :
           /\ b = idleBe[c]
           /\ \A i \in DOMAIN s : Dialed(s[i])
           /\ \/ /\ channel' = [channel EXCEPT ![b] = s]
                 /\ idle' = [idle EXCEPT ![c] = "none"]
                 /\ idleBe' = [idleBe EXCEPT ![c] = NoBackend]
              \/ /\ \E x \in {"excess", "remove"} : idle' = [idle EXCEPT ![c] = x]
                 /\ channel' = channel /\ idleBe' = idleBe
    <3>1. idleBe[c] \in Backends /\ channel[idleBe[c]] \in Seq(Conns) /\ Dialed(c)
      BY <1>17 DEF Shape, TypeOK, IdlePut
    <3>2. /\ Append(channel[idleBe[c]], c) \in Seq(Conns)
          /\ \A i \in DOMAIN Append(channel[idleBe[c]], c) :
                Dialed(Append(channel[idleBe[c]], c)[i])
      BY <3>1, AppendLast DEF Shape
    <3> QED
      BY <1>17, <3>1, <3>2, Zenon DEF IdlePut
  <2>2. UNCHANGED <<poolVars, conns, counter, mu, connVars, threadVars>>
    BY <1>17 DEF IdlePut
  <2>3. idle[c] = "put" /\ TypeOK
    BY <1>17 DEF IdlePut, Shape
  <2>4. channel' \in [Backends -> Seq(Conns)]
    BY <2>1, <2>3 DEF TypeOK
  <2>5. \A d \in Backends : \A i \in DOMAIN channel'[d] : Dialed(channel'[d][i])
    <3>1. CASE channel' = channel
      BY <3>1 DEF Shape
    <3>2. CASE channel' = [channel EXCEPT ![b] = s]
      BY <2>1, <2>3, <3>2 DEF Shape, TypeOK
    <3> QED BY <2>1, <3>1, <3>2
  <2>6. /\ idle' \in [Conns -> {"none", "lookup", "put", "remove", "excess", "close"}]
        /\ idleBe' \in [Conns -> Backends \cup {NoBackend}]
    BY <2>1, <2>3 DEF TypeOK
  <2>7. TypeOK'
    BY <2>2, <2>3, <2>4, <2>6 DEF TypeOK, GetAllAddrs, poolVars, connVars, threadVars
  <2>8. \A d \in Conns : idle'[d] \in {"put", "remove", "excess"} => idleBe'[d] \in Backends
    <3> SUFFICES ASSUME NEW d \in Conns, idle'[d] \in {"put", "remove", "excess"}
                 PROVE  idleBe'[d] \in Backends
      OBVIOUS
    <3>1. CASE d = c
      BY <2>1, <2>3, <3>1 DEF TypeOK
    <3>2. CASE d # c
      <4>1. idle'[d] = idle[d] /\ idleBe'[d] = idleBe[d]
        BY <2>1, <2>3, <3>2 DEF TypeOK
      <4> QED BY <4>1 DEF Shape
    <3> QED BY <3>1, <3>2
  <2>9. \A d \in Conns : idle'[d] # "none" => idle[d] # "none"
    BY <2>1, <2>3 DEF Shape, TypeOK
  <2> QED
    BY <2>2, <2>5, <2>7, <2>8, <2>9 DEF Shape, Dialed, connVars, threadVars
<1>18. ASSUME NEW c \in Conns, IdleRemove(c) PROVE Shape'
  BY <1>18 DEF IdleRemove, removeConnection, Less, Shape, TypeOK, AtBackend,
     Dialed, GetAllAddrs, poolVars, connVars, threadVars
<1>19. ASSUME NEW c \in Conns, IdleClose(c) PROVE Shape'
  BY <1>19 DEF IdleClose, Shape, TypeOK, AtBackend,
     Dialed, GetAllAddrs, poolVars, backendVars, threadVars
<1>20. CASE UNCHANGED vars
  BY <1>20 DEF Shape, TypeOK, AtBackend, Dialed, GetAllAddrs, vars, poolVars,
     backendVars, connVars, threadVars, idleVars
<1> QED
  BY <1>1, <1>2, <1>3, <1>4, <1>5, <1>6, <1>7, <1>8, <1>9, <1>10, <1>11, <1>12,
     <1>13, <1>14, <1>15, <1>16, <1>17, <1>18, <1>19, <1>20
  DEF Next, ThreadNext, IdleNext, GetConnectionReceive, ScanReceive, AtBackend

-----------------------------------------------------------------------------
(* Layer 2.  ExclusiveOwner, with the places of a channel quantified.      *)

Owned ==
    /\ \A t, u \in Threads : \A c \in held[t] : c \in held[u] => t = u
    /\ \A t \in Threads : \A c \in held[t] : idle[c] = "none"
    /\ \A b, d \in Backends : \A i \in DOMAIN channel[b], j \in DOMAIN channel[d] :
          channel[b][i] = channel[d][j] => b = d /\ i = j
    /\ \A b \in Backends : \A i \in DOMAIN channel[b] : idle[channel[b][i]] = "none"
    /\ \A b \in Backends : \A i \in DOMAIN channel[b] : \A t \in Threads :
          channel[b][i] \notin held[t]

(* The invariant of layer 2 says what ExclusiveOwner says.                 *)
LEMMA OwnedImplies == Owned => ExclusiveOwner
BY DEF Owned, ExclusiveOwner, InChannel

(* In a new pool nobody owns anything.                                     *)
LEMMA OwnedInit == Init => Owned
BY DEF Init, Owned

(* A step that touches no channel, hands nothing over and starts no Idle   *)
(* goroutine keeps Owned.                                                  *)
LEMMA OwnedKept ==
    ASSUME Shape, Owned, channel' = channel, held' = held,
           \A c \in Conns : idle[c] = "none" => idle'[c] = "none"
    PROVE  Owned'
<1>1. \A t \in Threads : held[t] \in SUBSET Conns
  BY DEF Shape, TypeOK
<1>2. \A b \in Backends : \A i \in DOMAIN channel[b] : channel[b][i] \in Conns
  BY DEF Shape, TypeOK
<1> QED
  BY <1>1, <1>2 DEF Owned

(* A receive passes a connection from the channel to the thread that gets  *)
(* it, and to nobody else.                                                 *)
LEMMA OwnedReceive ==
    ASSUME Shape, Owned, NEW t \in Threads, NEW r, pc[t] \in AtBackend, Receive(t, r)
    PROVE  Owned'
<1>1. PICK b \in Backends, c \in Conns, s \in Seq(Conns) :
         /\ channel' = [channel EXCEPT ![b] = s]
         /\ 1 \in DOMAIN channel[b] /\ c = channel[b][1]
         /\ \A i \in DOMAIN s : /\ i + 1 \in DOMAIN channel[b]
                                /\ i \in Nat \ {0}
                                /\ s[i] = channel[b][i + 1]
         /\ held' = [held EXCEPT ![t] = held[t] \cup {c}] \/ held' = held
  <2>1. /\ be[t] \in Backends
        /\ channel[be[t]] \in Seq(Conns)
        /\ channel[be[t]] # <<>>
    BY DEF Shape, TypeOK, Receive
  <2>2. /\ Head(channel[be[t]]) \in Conns
        /\ Tail(channel[be[t]]) \in Seq(Conns)
        /\ Head(channel[be[t]]) = channel[be[t]][1]
        /\ 1 \in DOMAIN channel[be[t]]
        /\ \A i \in DOMAIN Tail(channel[be[t]]) :
              /\ i + 1 \in DOMAIN channel[be[t]]
              /\ i \in Nat \ {0}
              /\ Tail(channel[be[t]])[i] = channel[be[t]][i + 1]
    BY <2>1, HeadTail
  <2>3. /\ channel' = [channel EXCEPT ![be[t]] = Tail(channel[be[t]])]
        /\ \/ held' = [held EXCEPT ![t] = held[t] \cup {Head(channel[be[t]])}]
           \/ held' = held
    BY DEF Receive
  <2> QED
    BY <2>1, <2>2, <2>3, Zenon
<1>2. /\ channel \in [Backends -> Seq(Conns)]
      /\ held \in [Threads -> SUBSET Conns]
      /\ idle' = idle
  BY DEF Shape, TypeOK, Receive, idleVars
<1>3. /\ channel'[b] = s
      /\ \A d \in Backends \ {b} : channel'[d] = channel[d]
  BY <1>1, <1>2
<1>4. \A u \in Threads : \A x \in held'[u] : x \in held[u] \/ (x = c /\ u = t)
  BY <1>1, <1>2
<1>5. idle[c] = "none" /\ \A u \in Threads : c \notin held[u]
  BY <1>1 DEF Owned
<1>6. \A d \in Backends : \A i \in DOMAIN channel'[d] :
         \E k \in DOMAIN channel[d] : /\ channel'[d][i] = channel[d][k]
                                      /\ k = IF d = b THEN i + 1 ELSE i
                                      /\ d = b => i \in Nat \ {0}
  BY <1>1, <1>3
<1>7. \A d \in Backends : \A i \in DOMAIN channel'[d] : channel'[d][i] # c
  BY <1>1, <1>6 DEF Owned
<1>8. /\ \A u, v \in Threads : \A x \in held'[u] : x \in held'[v] => u = v
      /\ \A u \in Threads : \A x \in held'[u] : idle'[x] = "none"
  <2>1. /\ \A u, v \in Threads : \A x \in held[u] : x \in held[v] => u = v
        /\ \A u \in Threads : \A x \in held[u] : idle[x] = "none"
    BY DEF Owned
  <2>2. \A u, v \in Threads : \A x \in held'[u] : x \in held'[v] => u = v
    BY <1>4, <1>5, <2>1
  <2>3. \A u \in Threads : \A x \in held'[u] : idle'[x] = "none"
    BY <1>2, <1>4, <1>5, <2>1
  <2> QED BY <2>2, <2>3
<1>9. \A d, e \in Backends : \A i \in DOMAIN channel'[d], j \in DOMAIN channel'[e] :
         channel'[d][i] = channel'[e][j] => d = e /\ i = j
  <2> SUFFICES ASSUME NEW d \in Backends, NEW e \in Backends,
                      NEW i \in DOMAIN channel'[d], NEW j \in DOMAIN channel'[e],
                      channel'[d][i] = channel'[e][j]
               PROVE  d = e /\ i = j
    OBVIOUS
  <2>1. PICK k \in DOMAIN channel[d] : /\ channel'[d][i] = channel[d][k]
                                       /\ k = IF d = b THEN i + 1 ELSE i
                                       /\ d = b => i \in Nat \ {0}
    BY <1>6
  <2>2. PICK l \in DOMAIN channel[e] : /\ channel'[e][j] = channel[e][l]
                                       /\ l = IF e = b THEN j + 1 ELSE j
                                       /\ e = b => j \in Nat \ {0}
    BY <1>6
  <2>3. channel[d][k] = channel[e][l]
    BY <2>1, <2>2
  <2>4. \A x, y \in Backends : \A m \in DOMAIN channel[x], n \in DOMAIN channel[y] :
           channel[x][m] = channel[y][n] => x = y /\ m = n
    BY DEF Owned
  <2>5. d = e /\ k = l
    BY <2>3, <2>4
  <2> QED BY <2>1, <2>2, <2>5
<1>10. \A d \in Backends : \A i \in DOMAIN channel'[d] :
          /\ idle'[channel'[d][i]] = "none"
          /\ \A u \in Threads : channel'[d][i] \notin held'[u]
  BY <1>2, <1>4, <1>6, <1>7 DEF Owned
<1> QED
  BY <1>8, <1>9, <1>10 DEF Owned

(* Idle passes a connection from its goroutine to the channel.             *)
LEMMA OwnedPut ==
    ASSUME Shape, Owned, NEW c \in Conns, IdlePut(c)
    PROVE  Owned'
<1>1. /\ idle[c] = "put"
      /\ channel \in [Backends -> Seq(Conns)]
      /\ idle \in [Conns -> {"none", "lookup", "put", "remove", "excess", "close"}]
      /\ held' = held
      /\ idleBe[c] \in Backends
  BY DEF Shape, TypeOK, IdlePut, threadVars
<1>2. CASE channel' = channel
  <2>1. \A d \in Conns : idle[d] = "none" => idle'[d] = "none"
    BY <1>1 DEF IdlePut, Shape, TypeOK
  <2> QED BY <1>1, <1>2, <2>1, OwnedKept
<1>3. CASE /\ channel' = [channel EXCEPT ![idleBe[c]] = Append(channel[idleBe[c]], c)]
           /\ idle' = [idle EXCEPT ![c] = "none"]
  <2>1. PICK b \in Backends, n \in Nat : b = idleBe[c] /\ n = Len(channel[b]) + 1
    BY <1>1
  <2>2. \A d \in Backends : \A i \in DOMAIN channel'[d] :
           \/ i \in DOMAIN channel[d] /\ channel'[d][i] = channel[d][i]
           \/ d = b /\ i = n /\ channel'[d][i] = c
    <3>1. \A i \in DOMAIN Append(channel[b], c) :
             \/ i \in DOMAIN channel[b] /\ Append(channel[b], c)[i] = channel[b][i]
             \/ i = n /\ Append(channel[b], c)[i] = c
      BY <1>1, <2>1, AppendLast
    <3>2. channel'[b] = Append(channel[b], c)
      BY <1>1, <1>3, <2>1
    <3>3. \A d \in Backends \ {b} : channel'[d] = channel[d]
      BY <1>1, <1>3, <2>1
    <3> QED BY <3>1, <3>2, <3>3
  <2>3. /\ \A d \in Backends : \A i \in DOMAIN channel[d] : channel[d][i] # c
        /\ \A t \in Threads : c \notin held[t]
    BY <1>1 DEF Owned
  <2>4. /\ idle'[c] = "none"
        /\ \A x \in Conns : idle[x] = "none" => idle'[x] = "none"
    BY <1>1, <1>3
  <2>5. /\ \A t \in Threads : \A x \in held[t] : x \in Conns
        /\ \A d \in Backends : \A i \in DOMAIN channel[d] : channel[d][i] \in Conns
    BY DEF Shape, TypeOK
  <2>6. \A d, e \in Backends : \A i \in DOMAIN channel'[d], j \in DOMAIN channel'[e] :
           channel'[d][i] = channel'[e][j] => d = e /\ i = j
    BY <2>2, <2>3 DEF Owned
  <2>7. \A d \in Backends : \A i \in DOMAIN channel'[d] :
           /\ idle'[channel'[d][i]] = "none"
           /\ \A t \in Threads : channel'[d][i] \notin held'[t]
    BY <1>1, <2>2, <2>3, <2>4, <2>5 DEF Owned
  <2>8. /\ \A t, u \in Threads : \A x \in held'[t] : x \in held'[u] => t = u
        /\ \A t \in Threads : \A x \in held'[t] : idle'[x] = "none"
    BY <1>1, <2>4, <2>5 DEF Owned
  <2> QED BY <2>6, <2>7, <2>8 DEF Owned
<1> QED
  BY <1>2, <1>3 DEF IdlePut

(* Every step keeps a connection with one owner.                           *)
LEMMA OwnedNext == Shape /\ Owned /\ [Next]_vars => Owned'
<1> SUFFICES ASSUME Shape, Owned, [Next]_vars PROVE Owned'
  OBVIOUS
<1>1. ASSUME channel' = channel, held' = held, idle' = idle PROVE Owned'
  BY <1>1, OwnedKept
<1>2. ASSUME NEW t \in Threads, NEW c \in Conns, DialOK(t, c) PROVE Owned'
  <2>1. /\ channel' = channel /\ idle' = idle
        /\ held \in [Threads -> SUBSET Conns]
        /\ held' = [held EXCEPT ![t] = held[t] \cup {c}]
        /\ idle[c] = "none"
        /\ \A u \in Threads : c \notin held[u]
        /\ \A b \in Backends : \A i \in DOMAIN channel[b] : channel[b][i] # c
    <3>1. ~Dialed(c)
      BY <1>2, PoolAssumption DEF DialOK, Fresh, Dialed
    <3> QED BY <1>2, <3>1 DEF DialOK, Shape, TypeOK, idleVars
  <2>2. \A u \in Threads : \A x \in held'[u] : x \in held[u] \/ (x = c /\ u = t)
    BY <2>1
  <2>3. /\ \A u, v \in Threads : \A x \in held[u] : x \in held[v] => u = v
        /\ \A u \in Threads : \A x \in held[u] : idle[x] = "none"
        /\ \A b, d \in Backends : \A i \in DOMAIN channel[b], j \in DOMAIN channel[d] :
              channel[b][i] = channel[d][j] => b = d /\ i = j
        /\ \A b \in Backends : \A i \in DOMAIN channel[b] : idle[channel[b][i]] = "none"
        /\ \A b \in Backends : \A i \in DOMAIN channel[b] : \A u \in Threads :
              channel[b][i] \notin held[u]
    BY DEF Owned
  <2>4. \A u, v \in Threads : \A x \in held'[u] : x \in held'[v] => u = v
    BY <2>1, <2>2, <2>3
  <2>5. \A u \in Threads : \A x \in held'[u] : idle'[x] = "none"
    BY <2>1, <2>2, <2>3
  <2>6. \A b \in Backends : \A i \in DOMAIN channel[b] : \A u \in Threads :
           channel[b][i] \notin held'[u]
    BY <2>1, <2>2, <2>3
  <2> QED BY <2>1, <2>3, <2>4, <2>5, <2>6 DEF Owned
<1>3. ASSUME NEW t \in Threads, NEW c \in Conns, Release(t, c) PROVE Owned'
  <2>1. /\ channel' = channel
        /\ held \in [Threads -> SUBSET Conns]
        /\ held' = [held EXCEPT ![t] = held[t] \ {c}]
        /\ c \in held[t]
        /\ idle' = [idle EXCEPT ![c] = "lookup"]
        /\ \A x \in Conns \ {c} : idle'[x] = idle[x]
    BY <1>3 DEF Release, StopUsing, Shape, TypeOK, backendVars
  <2>2. /\ \A u \in Threads : \A x \in held'[u] : x \in held[u] /\ x \in Conns
        /\ c \notin held'[t]
    BY <2>1
  <2>3. /\ \A u \in Threads : c \notin held'[u]
        /\ \A b \in Backends : \A i \in DOMAIN channel[b] :
              channel[b][i] \in Conns \ {c}
    BY <2>1, <2>2 DEF Owned, Shape, TypeOK
  <2>4. /\ \A u, v \in Threads : \A x \in held'[u] : x \in held'[v] => u = v
        /\ \A u \in Threads : \A x \in held'[u] : idle'[x] = "none"
    BY <2>1, <2>2, <2>3 DEF Owned
  <2>5. \A b \in Backends : \A i \in DOMAIN channel[b] :
           /\ idle'[channel[b][i]] = "none"
           /\ \A u \in Threads : channel[b][i] \notin held'[u]
    BY <2>1, <2>2, <2>3 DEF Owned
  <2> QED BY <2>1, <2>4, <2>5 DEF Owned
<1>4. ASSUME NEW c \in Conns, IdleLookup(c) \/ IdleRemove(c) \/ IdleClose(c) PROVE Owned'
  <2>1. /\ channel' = channel /\ held' = held
        /\ \A x \in Conns : idle[x] = "none" => idle'[x] = "none"
    BY <1>4 DEF IdleLookup, IdleRemove, IdleClose, Shape, TypeOK, backendVars, threadVars
  <2> QED BY <2>1, OwnedKept
<1>5. CASE \E addrs \in SUBSET Addrs : InitializeAddrs(addrs)
  BY <1>1, <1>5 DEF InitializeAddrs, backendVars, threadVars, idleVars
<1>6. CASE \E a \in Addrs : CloseBackend(a)
  BY <1>1, <1>6 DEF CloseBackend, threadVars, idleVars
<1>7. ASSUME NEW t \in Threads, ThreadNext(t) PROVE Owned'
  <2>1. CASE \E a \in Addrs : CallGetConnectionByAddr(t, a) \/ ScanNextAddr(t, a)
    BY <1>1, <2>1 DEF CallGetConnectionByAddr, ScanNextAddr, backendVars, idleVars
  <2>2. CASE GetConnectionReceive(t)
    BY <2>2, OwnedReceive DEF GetConnectionReceive, AtBackend
  <2>3. CASE ScanReceive(t)
    BY <2>3, OwnedReceive DEF ScanReceive, AtBackend
  <2>4. CASE GetConnectionTimeout(t) \/ getNewConnection(t) \/ DialFail(t)
    BY <1>1, <2>4 DEF GetConnectionTimeout, getNewConnection, DialFail, backendVars, idleVars
  <2>5. CASE RemoveReceived(t) \/ CallGetIdleConnection(t)
    BY <1>1, <2>5 DEF RemoveReceived, CallGetIdleConnection, backendVars, idleVars
  <2>6. CASE ScanBackendEmpty(t) \/ ScanDone(t)
    BY <1>1, <2>6 DEF ScanBackendEmpty, ScanDone, backendVars, idleVars
  <2>7. CASE \E c \in Conns : CloseHeld(t, c)
    BY <1>1, <2>7 DEF CloseHeld, backendVars, threadVars, idleVars
  <2> QED
    BY <1>2, <1>3, <1>7, <2>1, <2>2, <2>3, <2>4, <2>5, <2>6, <2>7 DEF ThreadNext
<1>8. CASE \E c \in Conns : IdleNext(c)
  BY <1>4, <1>8, OwnedPut DEF IdleNext
<1>9. CASE UNCHANGED vars
  BY <1>1, <1>9 DEF vars, backendVars, threadVars, idleVars
<1> QED
  BY <1>5, <1>6, <1>7, <1>8, <1>9 DEF Next

-----------------------------------------------------------------------------
(* Layer 3.  The accounting.                                               *)

(* Nobody refers to a backend that has not been created.                   *)
Generations ==
    /\ \A a \in Addrs : backends[a] <= created[a]
    /\ \A c \in Conns : Dialed(c) => dialedBy[c][2] <= created[dialedBy[c][1]]
    /\ \A t \in Threads : be[t] \in Backends => be[t][2] <= created[be[t][1]]

(* A backend not created yet is empty, and tracks its own connections.     *)
Tracking ==
    /\ \A b \in Backends : b[2] > created[b[1]] => conns[b] = {} /\ counter[b] = 0
    /\ \A b \in Backends : \A c \in conns[b] : dialedBy[c] = b

(* The dialler of a backend holds its mutex and, while the backend is      *)
(* live, there is room for the connection it is about to add.              *)
Dialling ==
    \A t \in Threads : pc[t] = "dial" =>
        /\ mu[be[t]] = t
        /\ Live(be[t]) => counter[be[t]] < Limit

(* Only closed connections are untracked.                                  *)
RemovesClosed ==
    /\ \A t \in Threads : popped[t] \subseteq closed
    /\ \A c \in Conns : idle[c] = "remove" => c \in closed

Quota == Generations /\ Tracking /\ Dialling /\ RemovesClosed /\ QuotaExact

(* A new backend has counted nothing and dialled nothing.                  *)
LEMMA QuotaInit == Init => Quota
<1> SUFFICES ASSUME Init PROVE Quota
  OBVIOUS
<1>1. Cardinality({}) = 0
  BY FS_EmptySet
<1>2. Generations
  BY PoolAssumption DEF Init, Generations, Dialed
<1>3. Tracking /\ Dialling /\ RemovesClosed
  BY DEF Init, Tracking, Dialling, RemovesClosed
<1>4. QuotaExact
  BY <1>1, PoolAssumption DEF Init, QuotaExact, Open
<1> QED
  BY <1>2, <1>3, <1>4 DEF Quota

(* Removing a connection under the mutex, from either caller.              *)
LEMMA QuotaRemove ==
    ASSUME Shape, Quota, NEW b \in Backends, NEW c \in Conns, removeConnection(b, c),
           backends' = backends, created' = created, mu' = mu, closed' = closed,
           dialedBy' = dialedBy, be' = be,
           c \in closed \/ idle'[c] = "close",
           \A t \in Threads : pc'[t] = "dial" => pc[t] = "dial",
           \A d \in Conns \ {c} : idle'[d] = idle[d],
           idle[c] = "close" => idle'[c] = "close" \/ c \in closed,
           RemovesClosed'
    PROVE  Quota'
<1>1. /\ conns \in [Backends -> SUBSET Conns] /\ counter \in [Backends -> Int]
      /\ conns' = [conns EXCEPT ![b] = conns[b] \ {c}]
      /\ counter' = [counter EXCEPT ![b] = Less(b, c)]
      /\ mu[b] = NoThread
  BY DEF Shape, TypeOK, removeConnection
<1>2. /\ conns'[b] = conns[b] \ {c} /\ counter'[b] = Less(b, c)
      /\ \A d \in Backends \ {b} : conns'[d] = conns[d] /\ counter'[d] = counter[d]
  BY <1>1
<1>3. Generations'
  BY DEF Quota, Generations, Dialed
<1>4. Tracking'
  BY <1>1, <1>2 DEF Quota, Tracking, Less
<1>5. Dialling'
  <2> SUFFICES ASSUME NEW t \in Threads, pc'[t] = "dial"
               PROVE  (mu[be[t]] = t /\ (Live(be[t]) => counter[be[t]] < Limit))'
    BY DEF Dialling
  <2>1. be[t] \in Backends /\ pc[t] = "dial"
    BY DEF Shape, AtBackend
  <2>2. be[t] # b
    BY <1>1, <2>1, PoolAssumption DEF Quota, Dialling
  <2> QED BY <1>2, <2>1, <2>2 DEF Quota, Dialling, Live
<1>6. QuotaExact'
  <2> SUFFICES ASSUME NEW d \in Backends, Live(d)
               PROVE  /\ counter'[d] = Cardinality(conns'[d])
                      /\ counter'[d] <= Limit
                      /\ \A x \in Conns : dialedBy[x] = d /\ Open(x) /\ idle'[x] # "close"
                                             => x \in conns'[d]
    BY DEF QuotaExact, Live, Open
  <2>1. /\ counter[d] = Cardinality(conns[d])
        /\ counter[d] <= Limit
        /\ \A x \in Conns : dialedBy[x] = d /\ Open(x) /\ idle[x] # "close" => x \in conns[d]
    BY DEF Quota, QuotaExact
  <2>2. IsFiniteSet(conns[d])
    BY <1>1, PoolAssumption, FS_Subset
  <2>3. \A x \in Conns : dialedBy[x] = d /\ Open(x) /\ idle'[x] # "close" => x \in conns'[d]
    BY <1>2, <2>1 DEF Open
  <2>4. counter'[d] = Cardinality(conns'[d]) /\ counter'[d] <= Limit
    <3>1. CASE d = b /\ c \in conns[b]
      <4>1. Cardinality(conns[d] \ {c}) = Cardinality(conns[d]) - 1
        BY <2>2, <3>1, FS_RemoveElement
      <4>2. counter'[d] = counter[d] - 1 /\ conns'[d] = conns[d] \ {c}
        BY <1>2, <3>1 DEF Less
      <4>3. counter[d] \in Int /\ Limit \in Int
        BY <1>1, PoolAssumption
      <4> QED BY <2>1, <4>1, <4>2, <4>3
    <3>2. CASE d = b /\ c \notin conns[b]
      <4>1. conns[d] \ {c} = conns[d]
        BY <3>2
      <4> QED BY <1>2, <2>1, <3>2, <4>1 DEF Less
    <3>3. CASE d # b
      BY <1>2, <2>1, <3>3
    <3> QED BY <3>1, <3>2, <3>3
  <2> QED BY <2>3, <2>4
<1> QED
  BY <1>3, <1>4, <1>5, <1>6 DEF Quota

(* A step that leaves the pool, the tracking and the dials alone.          *)
LEMMA QuotaKept ==
    ASSUME Shape, Quota,
           backends' = backends, created' = created, conns' = conns, counter' = counter,
           dialedBy' = dialedBy, closed \subseteq closed',
           \A t \in Threads : be'[t] = be[t] \/ be'[t] \notin Backends
                              \/ \E a \in Addrs : be'[t] = <<a, backends[a]>>,
           \A t \in Threads : pc'[t] = "dial" =>
              pc[t] = "dial" /\ be'[t] = be[t] /\ mu'[be[t]] = mu[be[t]],
           \A c \in Conns : idle[c] = "close" => idle'[c] = "close" \/ c \in closed',
           RemovesClosed'
    PROVE  Quota'
<1>1. Generations'
  <2>1. \A t \in Threads : be'[t] \in Backends => be'[t][2] <= created[be'[t][1]]
    BY BackendPairs DEF Quota, Generations
  <2> QED BY <2>1 DEF Quota, Generations, Dialed
<1>2. Tracking'
  BY DEF Quota, Tracking
<1>3. Dialling'
  BY DEF Quota, Dialling, Live
<1>4. QuotaExact'
  BY DEF Quota, QuotaExact, Live, Open
<1> QED
  BY <1>1, <1>2, <1>3, <1>4 DEF Quota

(* Every step keeps the accounts of the backends in the map.               *)
LEMMA QuotaNext == Shape /\ Shape' /\ Owned /\ Quota /\ [Next]_vars => Quota'
<1> SUFFICES ASSUME Shape, Shape', Owned, Quota, [Next]_vars PROVE Quota'
  OBVIOUS
<1>1. ASSUME NEW addrs \in SUBSET Addrs, InitializeAddrs(addrs) PROVE Quota'
  <2>1. \A a \in Addrs :
           /\ created[a] \in Nat /\ backends[a] \in Nat
           /\ created[a] <= created'[a]
           /\ \/ backends'[a] = backends[a] /\ created'[a] = created[a]
              \/ backends'[a] = created[a] + 1 /\ created'[a] = created[a] + 1
    BY <1>1 DEF InitializeAddrs, Shape, TypeOK
  <2>2. UNCHANGED <<channel, conns, counter, mu, dialedBy, closed, pc, be, popped, idle>>
    BY <1>1 DEF InitializeAddrs, backendVars, connVars, threadVars, idleVars
  <2>3. Generations'
    <3>1. \A b \in Backends : b[2] <= created[b[1]] => b[2] <= created'[b[1]]
      BY <2>1, BackendPairs
    <3>2. \A a \in Addrs : backends'[a] <= created'[a]
      BY <2>1 DEF Quota, Generations
    <3> QED BY <2>2, <3>1, <3>2 DEF Quota, Generations, Dialed
  <2>4. Tracking'
    <3>1. \A b \in Backends : b[2] > created'[b[1]] => b[2] > created[b[1]]
      BY <2>1, BackendPairs
    <3> QED BY <2>2, <3>1 DEF Quota, Tracking
  <2>5. \A b \in Backends : Live(b)' => Live(b) \/ b[2] > created[b[1]]
    BY <2>1, BackendPairs DEF Live, Addr
  <2>6. Dialling'
    <3>1. \A t \in Threads : pc[t] = "dial" => /\ be[t] \in Backends
                                              /\ ~(be[t][2] > created[be[t][1]])
      <4>1. \A t \in Threads : pc[t] = "dial" => be[t] \in Backends
        BY DEF Shape, AtBackend
      <4> QED BY <2>1, <4>1, BackendPairs DEF Quota, Generations
    <3> QED BY <2>2, <2>5, <3>1 DEF Quota, Dialling
  <2>7. QuotaExact'
    <3>1. \A b \in Backends : b[2] > created[b[1]] =>
             /\ counter[b] = Cardinality(conns[b]) /\ counter[b] <= Limit
             /\ \A c \in Conns : dialedBy[c] # b
      <4>1. Cardinality({}) = 0
        BY FS_EmptySet
      <4>2. \A c \in Conns : \A b \in Backends : b[2] > created[b[1]] => dialedBy[c] # b
        BY <2>1, BackendPairs DEF Quota, Generations, Dialed
      <4>3. \A b \in Backends : b[2] > created[b[1]] => conns[b] = {} /\ counter[b] = 0
        BY DEF Quota, Tracking
      <4>4. 0 <= Limit
        BY PoolAssumption
      <4> QED BY <4>1, <4>2, <4>3, <4>4
    <3> QED BY <2>2, <2>5, <3>1 DEF Quota, QuotaExact, Open
  <2>8. RemovesClosed'
    BY <2>2 DEF Quota, RemovesClosed
  <2> QED BY <2>3, <2>4, <2>6, <2>7, <2>8 DEF Quota
<1>2. ASSUME NEW a \in Addrs, CloseBackend(a) PROVE Quota'
  <2>1. PICK b \in Backends : b = <<a, backends[a]>> /\ b[1] = a /\ Live(b)
    BY <1>2, BackendPairs, PoolAssumption DEF CloseBackend, Shape, TypeOK, GetAllAddrs, Live, Addr
  <2>2. /\ counter' = [counter EXCEPT ![b] = 0]
        /\ counter \in [Backends -> Int]
        /\ backends' = [backends EXCEPT ![a] = 0]
        /\ backends \in [Addrs -> 0..MaxGen]
        /\ created \in [Addrs -> 0..MaxGen]
        /\ closed \subseteq closed'
        /\ UNCHANGED <<created, conns, mu, dialedBy, pc, be, popped, idle>>
    BY <1>2, <2>1 DEF CloseBackend, Shape, TypeOK, threadVars, idleVars
  <2>3. \A d \in Backends : Live(d)' => Live(d) /\ d # b /\ counter'[d] = counter[d]
    BY <2>1, <2>2, BackendPairs, PoolAssumption DEF Live, Addr
  <2>4. Generations'
    BY <2>1, <2>2, PoolAssumption DEF Quota, Generations, Dialed
  <2>5. Tracking'
    BY <2>2 DEF Quota, Tracking
  <2>6. Dialling'
    <3>1. \A t \in Threads : pc[t] = "dial" => be[t] \in Backends
      BY DEF Shape, AtBackend
    <3> QED BY <2>2, <2>3, <3>1 DEF Quota, Dialling
  <2>7. QuotaExact'
    BY <2>2, <2>3 DEF Quota, QuotaExact, Open
  <2>8. RemovesClosed'
    BY <2>2 DEF Quota, RemovesClosed
  <2> QED BY <2>4, <2>5, <2>6, <2>7, <2>8 DEF Quota
<1>3. ASSUME NEW t \in Threads, getNewConnection(t) PROVE Quota'
  <2>1. PICK b \in Backends : b = be[t]
    BY <1>3 DEF getNewConnection, Shape, AtBackend
  <2> DEFINE n == {c \in conns[b] : c \notin closed}
  <2>2. /\ pc' = [pc EXCEPT ![t] = "dial"] /\ pc \in [Threads -> ThreadPCs]
        /\ mu' = [mu EXCEPT ![b] = t] /\ mu \in [Backends -> Threads \cup {NoThread}]
        /\ mu[b] = NoThread
        /\ conns \in [Backends -> SUBSET Conns] /\ counter \in [Backends -> Int]
        /\ UNCHANGED <<backends, created, dialedBy, closed, be, popped, idle>>
    BY <1>3, <2>1 DEF getNewConnection, Shape, TypeOK, poolVars, connVars, idleVars
  <2>3. \/ /\ conns' = [conns EXCEPT ![b] = n]
           /\ counter' = [counter EXCEPT ![b] = Cardinality(n)]
           /\ counter[b] >= Limit /\ Cardinality(n) # counter[b]
        \/ /\ conns' = conns /\ counter' = counter
           /\ counter[b] < Limit
    BY <1>3, <2>1, <2>2, PoolAssumption DEF getNewConnection, AtLimit
  <2>4. \A d \in Backends \ {b} : conns'[d] = conns[d] /\ counter'[d] = counter[d] /\ mu'[d] = mu[d]
    BY <2>2, <2>3
  <2>5. \/ conns'[b] = conns[b] /\ counter'[b] = counter[b]
        \/ conns'[b] = n /\ counter'[b] = Cardinality(n)
    <3> HIDE DEF n
    <3>1. CASE conns' = conns /\ counter' = counter
      BY <3>1
    <3>2. CASE /\ conns' = [conns EXCEPT ![b] = n]
               /\ counter' = [counter EXCEPT ![b] = Cardinality(n)]
      BY <2>2, <3>2
    <3> QED BY <2>3, <3>1, <3>2
  <2>6. /\ n \subseteq conns[b] /\ \A c \in conns[b] : c \in n \/ c \in closed
        /\ IsFiniteSet(conns[b]) /\ IsFiniteSet(n)
        /\ Cardinality(n) \in Nat /\ Cardinality(conns[b]) \in Nat
        /\ Cardinality(n) <= Cardinality(conns[b])
    <3>1. n \subseteq conns[b] /\ conns[b] \subseteq Conns
      BY <2>2
    <3>2. IsFiniteSet(conns[b]) /\ IsFiniteSet(n)
      BY <3>1, PoolAssumption, FS_Subset
    <3>3. Cardinality(n) \in Nat /\ Cardinality(conns[b]) \in Nat
      BY <3>2, FS_CardinalityType
    <3>4. Cardinality(n) <= Cardinality(conns[b])
      BY <3>1, <3>2, FS_Subset
    <3> QED BY <3>1, <3>2, <3>3, <3>4
  <2>7. Live(b) => counter[b] = Cardinality(conns[b]) /\ counter[b] <= Limit
    BY DEF Quota, QuotaExact
  <2>8. Live(b) => /\ counter'[b] = Cardinality(conns'[b])
                   /\ counter'[b] < Limit
    <3> HIDE DEF n
    <3>1. CASE conns' = conns /\ counter' = counter /\ counter[b] < Limit
      BY <2>7, <3>1
    <3>2. CASE /\ conns' = [conns EXCEPT ![b] = n]
               /\ counter' = [counter EXCEPT ![b] = Cardinality(n)]
               /\ counter[b] >= Limit /\ Cardinality(n) # counter[b]
      <4>1. conns'[b] = n /\ counter'[b] = Cardinality(n)
        BY <2>2, <3>2
      <4>2. Limit \in Nat
        BY PoolAssumption
      <4> QED BY <2>6, <2>7, <3>2, <4>1, <4>2
    <3> QED BY <2>3, <3>1, <3>2
  <2>9. \A d \in Backends : Live(d)' <=> Live(d)
    BY <2>2 DEF Live
  <2>10. Generations'
    BY <2>2 DEF Quota, Generations, Dialed
  <2>11. Tracking'
    <3>1. ~(b[2] > created[b[1]])
      BY <2>1, BackendPairs DEF Quota, Generations, Shape, TypeOK
    <3>2. \A d \in Backends : conns'[d] \subseteq conns[d]
      BY <2>4, <2>5, <2>6
    <3>3. \A d \in Backends : d[2] > created[d[1]] => conns'[d] = {} /\ counter'[d] = 0
      BY <2>4, <3>1 DEF Quota, Tracking
    <3>4. \A d \in Backends : \A c \in conns'[d] : dialedBy[c] = d
      BY <3>2 DEF Quota, Tracking
    <3> QED BY <2>2, <3>3, <3>4 DEF Tracking
  <2>12. Dialling'
    <3> SUFFICES ASSUME NEW u \in Threads, pc'[u] = "dial"
                 PROVE  mu'[be[u]] = u /\ (Live(be[u]) => counter'[be[u]] < Limit)
      BY <2>2, <2>9 DEF Dialling, Live
    <3>1. CASE u = t
      BY <2>1, <2>2, <2>8, <3>1
    <3>2. CASE u # t
      <4>1. pc[u] = "dial" /\ be[u] \in Backends
        BY <2>2, <3>2 DEF Shape, AtBackend
      <4>2. be[u] # b
        BY <2>2, <4>1, PoolAssumption DEF Quota, Dialling
      <4> QED BY <2>4, <4>1, <4>2 DEF Quota, Dialling
    <3> QED BY <3>1, <3>2
  <2>13. QuotaExact'
    <3> SUFFICES ASSUME NEW d \in Backends, Live(d)
                 PROVE  /\ counter'[d] = Cardinality(conns'[d])
                        /\ counter'[d] <= Limit
                        /\ \A x \in Conns : dialedBy[x] = d /\ Open(x) /\ idle[x] # "close"
                                               => x \in conns'[d]
      BY <2>2, <2>9 DEF QuotaExact, Open
    <3>1. /\ counter[d] = Cardinality(conns[d]) /\ counter[d] <= Limit
          /\ \A x \in Conns : dialedBy[x] = d /\ Open(x) /\ idle[x] # "close" => x \in conns[d]
      BY DEF Quota, QuotaExact
    <3>2. CASE d # b
      BY <2>4, <3>1, <3>2
    <3>3. CASE d = b
      <4>1. counter'[d] \in Int /\ Limit \in Int
        BY PoolAssumption DEF Shape, TypeOK
      <4>2. \A x \in conns[b] : x \notin closed => x \in conns'[b]
        BY <2>5
      <4>3. \A x \in Conns : dialedBy[x] = d /\ Open(x) /\ idle[x] # "close" => x \in conns'[d]
        BY <3>1, <3>3, <4>2 DEF Open
      <4> HIDE DEF n
      <4> QED BY <2>8, <3>3, <4>1, <4>3
    <3> QED BY <3>2, <3>3
  <2>14. RemovesClosed'
    BY <2>2 DEF Quota, RemovesClosed
  <2> QED BY <2>10, <2>11, <2>12, <2>13, <2>14 DEF Quota
<1>4. ASSUME NEW t \in Threads, NEW c \in Conns, DialOK(t, c) PROVE Quota'
  <2>1. PICK b \in Backends : b = be[t]
    BY <1>4 DEF DialOK, Shape, AtBackend
  <2>2. /\ pc[t] = "dial" /\ ~Dialed(c)
        /\ pc' = [pc EXCEPT ![t] = "run"] /\ pc \in [Threads -> ThreadPCs]
        /\ mu' = [mu EXCEPT ![b] = NoThread] /\ mu \in [Backends -> Threads \cup {NoThread}]
        /\ be' = [be EXCEPT ![t] = NoBackend] /\ be \in [Threads -> Backends \cup {NoBackend}]
        /\ dialedBy' = [dialedBy EXCEPT ![c] = b]
        /\ dialedBy \in [Conns -> Backends \cup {NoBackend}]
        /\ conns' = [conns EXCEPT ![b] = conns[b] \cup {c}]
        /\ conns \in [Backends -> SUBSET Conns]
        /\ counter' = [counter EXCEPT ![b] = counter[b] + 1]
        /\ counter \in [Backends -> Int]
    BY <1>4, <2>1, PoolAssumption DEF DialOK, Unlock, Fresh, Dialed, Shape, TypeOK
  <2>3. /\ backends' = backends /\ created' = created /\ closed' = closed
        /\ popped' = popped /\ idle' = idle
    BY <1>4 DEF DialOK, poolVars, idleVars
  <2>4. /\ conns'[b] = conns[b] \cup {c} /\ counter'[b] = counter[b] + 1
        /\ \A d \in Backends \ {b} : /\ conns'[d] = conns[d] /\ counter'[d] = counter[d]
                                     /\ mu'[d] = mu[d]
        /\ dialedBy'[c] = b
        /\ \A x \in Conns \ {c} : dialedBy'[x] = dialedBy[x]
    BY <2>2
  <2>5. /\ b[2] <= created[b[1]] /\ ~(b[2] > created[b[1]])
        /\ mu[b] = t
        /\ Live(b) => counter[b] < Limit
    BY <2>1, <2>2, BackendPairs DEF Quota, Generations, Dialling, Shape, TypeOK
  <2>6. \A d \in Backends : c \notin conns[d]
    BY <2>2 DEF Quota, Tracking, Dialed
  <2>7. Generations'
    <3>1. \A u \in Threads : be'[u] \in Backends => be'[u] = be[u]
      BY <2>2, PoolAssumption
    <3>2. \A x \in Conns : dialedBy'[x] \in Backends =>
                             dialedBy'[x] = b \/ dialedBy'[x] = dialedBy[x]
      BY <2>4
    <3> QED BY <2>3, <2>5, <3>1, <3>2 DEF Quota, Generations, Dialed
  <2>8. Tracking'
    <3>1. \A d \in Backends : d[2] > created[d[1]] => conns'[d] = {} /\ counter'[d] = 0
      BY <2>4, <2>5 DEF Quota, Tracking
    <3>2. \A d \in Backends : \A x \in conns'[d] : dialedBy'[x] = d
      <4>1. \A d \in Backends : \A x \in conns[d] : dialedBy[x] = d /\ x # c /\ x \in Conns
        BY <2>2, <2>6 DEF Quota, Tracking
      <4> QED BY <2>4, <4>1
    <3> QED BY <2>3, <3>1, <3>2 DEF Tracking
  <2>9. Dialling'
    <3> SUFFICES ASSUME NEW u \in Threads, pc'[u] = "dial"
                 PROVE  mu'[be'[u]] = u /\ (Live(be'[u]) => counter'[be'[u]] < Limit)
      BY <2>3 DEF Dialling, Live
    <3>1. u # t /\ be'[u] = be[u] /\ pc[u] = "dial" /\ be[u] \in Backends
      BY <2>2 DEF Shape, AtBackend
    <3>2. be[u] # b
      BY <2>5, <3>1 DEF Quota, Dialling
    <3> QED BY <2>4, <3>1, <3>2 DEF Quota, Dialling
  <2>10. QuotaExact'
    <3> SUFFICES ASSUME NEW d \in Backends, Live(d)
                 PROVE  /\ counter'[d] = Cardinality(conns'[d])
                        /\ counter'[d] <= Limit
                        /\ \A x \in Conns : dialedBy'[x] = d /\ x \notin closed
                               /\ idle[x] # "close" => x \in conns'[d]
      BY <2>3 DEF QuotaExact, Live, Open
    <3>1. /\ counter[d] = Cardinality(conns[d]) /\ counter[d] <= Limit
          /\ \A x \in Conns : dialedBy[x] = d /\ x \notin closed /\ idle[x] # "close"
                               => x \in conns[d]
      BY PoolAssumption DEF Quota, QuotaExact, Open
    <3>2. \A x \in Conns : dialedBy'[x] = d /\ x \notin closed /\ idle[x] # "close"
                             => x \in conns'[d]
      BY <2>4, <3>1
    <3>3. CASE d # b
      BY <2>4, <3>1, <3>2, <3>3
    <3>4. CASE d = b
      <4>1. IsFiniteSet(conns[b])
        BY <2>2, PoolAssumption, FS_Subset
      <4>2. Cardinality(conns[b] \cup {c}) = Cardinality(conns[b]) + 1
        BY <2>6, <4>1, FS_AddElement
      <4>3. counter[b] \in Int /\ Limit \in Int
        BY <2>2, PoolAssumption
      <4>4. counter'[d] = Cardinality(conns'[d])
        BY <2>4, <3>1, <3>4, <4>2
      <4>5. counter'[d] <= Limit
        BY <2>4, <2>5, <3>4, <4>3
      <4> QED BY <3>2, <4>4, <4>5
    <3> QED BY <3>3, <3>4
  <2>11. RemovesClosed'
    BY <2>3 DEF Quota, RemovesClosed
  <2> QED BY <2>7, <2>8, <2>9, <2>10, <2>11 DEF Quota
<1>5. ASSUME NEW t \in Threads, DialFail(t) PROVE Quota'
  <2>1. /\ backends' = backends /\ created' = created /\ conns' = conns
        /\ counter' = counter /\ dialedBy' = dialedBy /\ closed' = closed
        /\ popped' = popped /\ idle' = idle
    BY <1>5 DEF DialFail, poolVars, connVars, idleVars
  <2>2. /\ pc[t] = "dial" /\ be[t] \in Backends
        /\ pc' = [pc EXCEPT ![t] = "run"] /\ pc \in [Threads -> ThreadPCs]
        /\ be' = [be EXCEPT ![t] = NoBackend] /\ be \in [Threads -> Backends \cup {NoBackend}]
        /\ mu' = [mu EXCEPT ![be[t]] = NoThread]
        /\ mu \in [Backends -> Threads \cup {NoThread}]
    BY <1>5 DEF DialFail, Unlock, Shape, TypeOK, AtBackend
  <2>3. \A u \in Threads : be'[u] = be[u] \/ be'[u] \notin Backends
    BY <2>2, PoolAssumption
  <2>4. \A u \in Threads : pc'[u] = "dial" =>
           pc[u] = "dial" /\ be'[u] = be[u] /\ mu'[be[u]] = mu[be[u]]
    <3> SUFFICES ASSUME NEW u \in Threads, pc'[u] = "dial"
                 PROVE  pc[u] = "dial" /\ be'[u] = be[u] /\ mu'[be[u]] = mu[be[u]]
      OBVIOUS
    <3>1. u # t /\ pc[u] = "dial" /\ be'[u] = be[u] /\ be[u] \in Backends
      BY <2>2 DEF Shape, AtBackend
    <3>2. mu[be[u]] = u /\ mu[be[t]] = t
      BY <2>2, <3>1 DEF Quota, Dialling
    <3> QED BY <2>2, <3>1, <3>2
  <2>5. RemovesClosed'
    BY <2>1 DEF Quota, RemovesClosed
  <2> QED BY <2>1, <2>3, <2>4, <2>5, QuotaKept
<1>6. ASSUME NEW t \in Threads, RemoveReceived(t) PROVE Quota'
  <2>1. PICK c \in popped[t] : removeConnection(be[t], c)
    BY <1>6 DEF RemoveReceived
  <2>2. be[t] \in Backends /\ c \in Conns /\ c \in closed
    BY <1>6, <2>1 DEF RemoveReceived, Shape, TypeOK, AtBackend, Quota, RemovesClosed
  <2>3. /\ backends' = backends /\ created' = created /\ mu' = mu /\ closed' = closed
        /\ dialedBy' = dialedBy /\ be' = be /\ idle' = idle
        /\ \A u \in Threads : pc'[u] = "dial" => pc[u] = "dial"
        /\ \A u \in Threads : popped'[u] \subseteq popped[u]
    BY <1>6 DEF RemoveReceived, Shape, TypeOK, poolVars, connVars, idleVars
  <2>4. RemovesClosed'
    BY <2>3 DEF Quota, RemovesClosed
  <2> QED BY <2>1, <2>2, <2>3, <2>4, QuotaRemove
<1>7. ASSUME NEW c \in Conns, IdleRemove(c) PROVE Quota'
  <2>1. /\ backends' = backends /\ created' = created /\ mu' = mu /\ closed' = closed
        /\ dialedBy' = dialedBy /\ be' = be /\ pc' = pc /\ popped' = popped
        /\ removeConnection(idleBe[c], c)
        /\ idle[c] \in {"remove", "excess"} /\ idleBe[c] \in Backends
    BY <1>7 DEF IdleRemove, Shape, poolVars, connVars, threadVars
  <2>2. /\ idle'[c] = IF idle[c] = "excess" THEN "close" ELSE "none"
        /\ \A d \in Conns \ {c} : idle'[d] = idle[d]
    BY <1>7 DEF IdleRemove, Shape, TypeOK
  <2>3. c \in closed \/ idle'[c] = "close"
    BY <2>1, <2>2 DEF Quota, RemovesClosed
  <2>4. RemovesClosed'
    BY <2>1, <2>2 DEF Quota, RemovesClosed
  <2> QED BY <2>1, <2>2, <2>3, <2>4, QuotaRemove
<1>8. ASSUME NEW c \in Conns, IdleLookup(c) \/ IdlePut(c) \/ IdleClose(c) PROVE Quota'
  <2>1. /\ backends' = backends /\ created' = created /\ conns' = conns /\ mu' = mu
        /\ counter' = counter /\ dialedBy' = dialedBy /\ closed \subseteq closed'
        /\ pc' = pc /\ be' = be /\ popped' = popped
    BY <1>8 DEF IdleLookup, IdlePut, IdleClose, poolVars, backendVars, connVars, threadVars
  <2>2. \A d \in Conns : idle[d] = "close" => idle'[d] = "close" \/ d \in closed'
    BY <1>8 DEF IdleLookup, IdlePut, IdleClose, Shape, TypeOK
  <2>3. \A d \in Conns : idle'[d] = "remove" => idle[d] = "remove" \/ d \in closed
    BY <1>8 DEF IdleLookup, IdlePut, IdleClose, CloseOrPut, NotClosed, Shape, TypeOK
  <2>4. RemovesClosed'
    BY <2>1, <2>3 DEF Quota, RemovesClosed
  <2> QED BY <2>1, <2>2, <2>4, QuotaKept
<1>9. ASSUME NEW t \in Threads, NEW c \in Conns, Release(t, c) PROVE Quota'
  <2>1. /\ backends' = backends /\ created' = created /\ conns' = conns /\ mu' = mu
        /\ counter' = counter /\ dialedBy' = dialedBy /\ closed' = closed
        /\ pc' = pc /\ be' = be /\ popped' = popped
        /\ idle[c] = "none" /\ idle' = [idle EXCEPT ![c] = "lookup"]
    BY <1>9 DEF Release, Owned, poolVars, backendVars, connVars
  <2>2. \A d \in Conns : idle[d] = "close" => idle'[d] = "close"
    BY <2>1 DEF Shape, TypeOK
  <2>3. RemovesClosed'
    BY <2>1 DEF Quota, RemovesClosed, Shape, TypeOK
  <2> QED BY <2>1, <2>2, <2>3, QuotaKept
<1>10. ASSUME NEW t \in Threads, NEW c \in Conns, CloseHeld(t, c) PROVE Quota'
  <2>1. /\ backends' = backends /\ created' = created /\ conns' = conns /\ mu' = mu
        /\ counter' = counter /\ dialedBy' = dialedBy /\ closed \subseteq closed'
        /\ pc' = pc /\ be' = be /\ popped' = popped /\ idle' = idle
    BY <1>10 DEF CloseHeld, poolVars, backendVars, threadVars, idleVars
  <2>2. RemovesClosed'
    BY <2>1 DEF Quota, RemovesClosed
  <2> QED BY <2>1, <2>2, QuotaKept
<1>11. ASSUME NEW t \in Threads, NEW r \in {"getremove", "scanremove"}, Receive(t, r)
       PROVE  Quota'
  <2>1. /\ backends' = backends /\ created' = created /\ conns' = conns /\ mu' = mu
        /\ counter' = counter /\ dialedBy' = dialedBy /\ closed' = closed /\ idle' = idle
    BY <1>11 DEF Receive, poolVars, connVars, idleVars
  <2>2. /\ \A u \in Threads : be'[u] = be[u] \/ be'[u] \notin Backends
        /\ \A u \in Threads : pc'[u] = "dial" => pc[u] = "dial" /\ be'[u] = be[u]
    BY <1>11, PoolAssumption DEF Receive, Shape, TypeOK
  <2>3. \A u \in Threads : popped'[u] = popped[u] \/ popped'[u] \subseteq closed
    BY <1>11 DEF Receive, Shape, TypeOK
  <2>4. RemovesClosed'
    BY <2>1, <2>3 DEF Quota, RemovesClosed
  <2> QED BY <2>1, <2>2, <2>4, QuotaKept
<1>12. ASSUME NEW t \in Threads, NEW a \in Addrs,
              CallGetConnectionByAddr(t, a) \/ ScanNextAddr(t, a)
       PROVE  Quota'
  <2>1. /\ backends' = backends /\ created' = created /\ conns' = conns /\ mu' = mu
        /\ counter' = counter /\ dialedBy' = dialedBy /\ closed' = closed
        /\ popped' = popped /\ idle' = idle
        /\ be' = [be EXCEPT ![t] = getBackend(a)]
    BY <1>12 DEF CallGetConnectionByAddr, ScanNextAddr, poolVars, backendVars, connVars,
       idleVars
  <2>2. getBackend(a) = <<a, backends[a]>> \/ getBackend(a) \notin Backends
    BY PoolAssumption DEF getBackend
  <2>3. \A u \in Threads : \/ be'[u] = be[u] \/ be'[u] \notin Backends
                            \/ be'[u] = <<a, backends[a]>>
    BY <2>1, <2>2 DEF Shape, TypeOK
  <2>4. \A u \in Threads : pc'[u] = "dial" => pc[u] = "dial" /\ be'[u] = be[u]
    BY <1>12, <2>1 DEF CallGetConnectionByAddr, ScanNextAddr, Shape, TypeOK
  <2>5. RemovesClosed'
    BY <2>1 DEF Quota, RemovesClosed
  <2> QED BY <2>1, <2>3, <2>4, <2>5, QuotaKept
<1>13. ASSUME NEW t \in Threads,
              \/ GetConnectionTimeout(t) \/ CallGetIdleConnection(t)
              \/ ScanBackendEmpty(t) \/ ScanDone(t)
       PROVE  Quota'
  <2>1. /\ backends' = backends /\ created' = created /\ conns' = conns /\ mu' = mu
        /\ counter' = counter /\ dialedBy' = dialedBy /\ closed' = closed
        /\ popped' = popped /\ idle' = idle
        /\ be' = be \/ be' = [be EXCEPT ![t] = NoBackend]
    BY <1>13 DEF GetConnectionTimeout, CallGetIdleConnection, ScanBackendEmpty, ScanDone,
       poolVars, backendVars, connVars, idleVars
  <2>2. \A u \in Threads : be'[u] = be[u] \/ be'[u] \notin Backends
    BY <2>1, PoolAssumption DEF Shape, TypeOK
  <2>3. \A u \in Threads : pc'[u] = "dial" => pc[u] = "dial" /\ u # t
    BY <1>13 DEF GetConnectionTimeout, CallGetIdleConnection, ScanBackendEmpty, ScanDone,
       Shape, TypeOK
  <2>4. \A u \in Threads : pc'[u] = "dial" => be'[u] = be[u]
    BY <2>1, <2>3 DEF Shape, TypeOK
  <2>5. RemovesClosed'
    BY <2>1 DEF Quota, RemovesClosed
  <2> QED BY <2>1, <2>2, <2>3, <2>4, <2>5, QuotaKept
<1>14. CASE UNCHANGED vars
  <2>1. /\ backends' = backends /\ created' = created /\ conns' = conns /\ mu' = mu
        /\ counter' = counter /\ dialedBy' = dialedBy /\ closed' = closed
        /\ pc' = pc /\ be' = be /\ popped' = popped /\ idle' = idle
    BY <1>14 DEF vars, poolVars, backendVars, connVars, threadVars, idleVars
  <2>2. RemovesClosed'
    BY <2>1 DEF Quota, RemovesClosed
  <2> QED BY <2>1, <2>2, QuotaKept
<1>15. ASSUME NEW t \in Threads, ThreadNext(t) PROVE Quota'
  BY <1>3, <1>4, <1>5, <1>6, <1>9, <1>10, <1>11, <1>12, <1>13, <1>15
  DEF ThreadNext, GetConnectionReceive, ScanReceive
<1>16. ASSUME NEW c \in Conns, IdleNext(c) PROVE Quota'
  BY <1>7, <1>8, <1>16 DEF IdleNext
<1> QED
  BY <1>1, <1>2, <1>14, <1>15, <1>16 DEF Next

-----------------------------------------------------------------------------
(* Layer 4.  Where connections wait.                                       *)

(* The connection waits in the channel of b, or Idle is about to put it    *)
(* there.                                                                  *)
At(c, b) ==
    \/ c \in InChannel(b)
    \/ idle[c] \in {"put", "remove", "excess"} /\ idleBe[c] = b

(* It waits at a backend of the address it is connected to, and that one   *)
(* was created.                                                            *)
SameAddr ==
    \A c \in Conns, b \in Backends : At(c, b) =>
        Addr(dialedBy[c]) = Addr(b) /\ b[2] <= created[Addr(b)]

(* With a backend, what it dialled and waits there is closed.              *)
LeftClosed ==
    \A c \in Conns, b \in Backends :
        At(c, b) /\ dialedBy[c] = b /\ ~Live(b) => c \in closed

(* In nobody's hands, though it is open.                                   *)
Loose(c) == Open(c) /\ idle[c] = "none" /\ \A t \in Threads : c \notin held[t]

(* Such a connection is in a channel, of a live backend or not.            *)
Kept == \A c \in Conns : Loose(c) => \E b \in Backends : c \in InChannel(b)

Parked == SameAddr /\ LeftClosed /\ Kept /\ IdleIsOpen /\ NoExcess

(* In a new pool nothing waits.                                            *)
LEMMA ParkedInit == Init => Parked
<1> SUFFICES ASSUME Init PROVE Parked
  OBVIOUS
<1>1. \A c \in Conns, b \in Backends : ~At(c, b)
  BY DEF Init, At, InChannel
<1>2. SameAddr /\ LeftClosed
  BY <1>1 DEF SameAddr, LeftClosed
<1>3. Kept /\ NoExcess
  BY DEF Init, Kept, Loose, Open, NoExcess
<1>4. IdleIsOpen
  BY DEF Init, IdleIsOpen
<1> QED
  BY <1>2, <1>3, <1>4 DEF Parked

(* What waits was dialled.                                                 *)
LEMMA AtDialed ==
    ASSUME Shape, NEW c \in Conns, NEW b \in Backends, At(c, b)
    PROVE  Dialed(c)
BY DEF Shape, At, InChannel

(* As long as the address has had one backend, what waits there was        *)
(* dialled by it.                                                          *)
LEMMA OneBackend ==
    ASSUME Shape, Quota, Parked, NEW c \in Conns, NEW b \in Backends, At(c, b),
           ~(created[Addr(dialedBy[c])] > 1)
    PROVE  dialedBy[c] = b
<1>1. PICK d \in Backends : d = dialedBy[c]
  BY AtDialed DEF Dialed
<1>2. PICK a \in Addrs : a = b[1] /\ a = d[1] /\ ~(created[a] > 1)
  BY <1>1, BackendPairs DEF Parked, SameAddr, Addr
<1>3. b[2] <= created[a] /\ d[2] <= created[a]
  BY <1>1, <1>2 DEF Parked, SameAddr, Quota, Generations, Dialed, Addr
<1>4. created[a] \in Nat /\ b[2] \in Nat \ {0} /\ d[2] \in Nat \ {0}
  BY <1>1, BackendPairs, PoolAssumption DEF Shape, TypeOK
<1>5. b[2] = d[2]
  BY <1>2, <1>3, <1>4
<1>6. b = <<a, b[2]>> /\ d = <<a, d[2]>>
  BY <1>2, BackendPairs
<1> QED
  BY <1>1, <1>5, <1>6

(* The invariant of layer 4 says that nothing leaks.                       *)
LEMMA ParkedImplies == Shape /\ Quota /\ Parked => NoLeak
<1> SUFFICES ASSUME Shape, Quota, Parked, NEW c \in Conns, Loose(c),
                    ~(created[Addr(dialedBy[c])] > 1)
             PROVE  \E b \in Backends : Live(b) /\ c \in InChannel(b)
  BY DEF NoLeak, Loose
<1>1. PICK b \in Backends : c \in InChannel(b)
  BY DEF Parked, Kept
<1>2. At(c, b) /\ dialedBy[c] = b
  BY <1>1, OneBackend DEF At
<1>3. Live(b)
  BY <1>2 DEF Parked, LeftClosed, Loose, Open
<1> QED
  BY <1>1, <1>3

(* A step that leaves the map alone and brings a connection only to a      *)
(* backend in it.                                                          *)
LEMMA ParkedKept ==
    ASSUME Shape, Shape', Parked, backends' = backends, created' = created,
           \A c \in Conns : Dialed(c) => dialedBy'[c] = dialedBy[c],
           closed \subseteq closed',
           \A c \in Conns, b \in Backends : At(c, b)' =>
              \/ At(c, b)
              \/ /\ Dialed(c) /\ Live(b)
                 /\ Addr(dialedBy[c]) = Addr(b) /\ b[2] <= created[Addr(b)],
           \A c \in Conns, b \in Backends : c \in InChannel(b)' /\ c \in closed' =>
              c \in InChannel(b) /\ c \in closed,
           \A c \in Conns : idle'[c] = "excess" =>
              \/ idle[c] = "excess"
              \/ Dialed(c) /\ created[Addr(dialedBy[c])] > 1,
           Kept'
    PROVE  Parked'
<1>1. SameAddr'
  <2> SUFFICES ASSUME NEW c \in Conns, NEW b \in Backends, At(c, b)'
               PROVE  (Addr(dialedBy[c]) = Addr(b) /\ b[2] <= created[Addr(b)])'
    BY DEF SameAddr
  <2>1. Dialed(c) /\ Addr(dialedBy[c]) = Addr(b) /\ b[2] <= created[Addr(b)]
    BY AtDialed DEF Parked, SameAddr
  <2> QED
    BY <2>1 DEF Addr
<1>2. LeftClosed'
  <2> SUFFICES ASSUME NEW c \in Conns, NEW b \in Backends,
                      At(c, b)', dialedBy'[c] = b, ~Live(b)'
               PROVE  c \in closed'
    BY DEF LeftClosed
  <2>1. ~Live(b)
    BY DEF Live, Addr
  <2>2. At(c, b) /\ Dialed(c)
    BY <2>1, AtDialed
  <2> QED
    BY <2>1, <2>2 DEF Parked, LeftClosed
<1>3. IdleIsOpen'
  <2>1. \A b \in Backends : Live(b)' => Live(b)
    BY DEF Live, Addr
  <2>2. \A b \in Backends : InChannel(b)' \subseteq Conns
    BY DEF Shape, TypeOK, InChannel
  <2>3. \A b \in Backends : Live(b)' => \A c \in Conns : ~(c \in InChannel(b)' /\ c \in closed')
    BY <2>1 DEF Parked, IdleIsOpen
  <2> QED
    BY <2>2, <2>3 DEF IdleIsOpen
<1>4. NoExcess'
  <2>1. \A c \in Conns : idle[c] = "excess" => Dialed(c) /\ created[Addr(dialedBy[c])] > 1
    BY DEF Shape, Parked, NoExcess
  <2>2. \A c \in Conns : idle'[c] = "excess" => Dialed(c) /\ created[Addr(dialedBy[c])] > 1
    BY <2>1
  <2>3. \A c \in Conns : idle'[c] = "excess" => dialedBy'[c] = dialedBy[c]
    BY <2>2
  <2> QED
    BY <2>2, <2>3 DEF NoExcess, Addr
<1> QED
  BY <1>1, <1>2, <1>3, <1>4 DEF Parked

(* A full channel, and one open connection more, of the only backend that  *)
(* the address has had: more than the quota.  So it is not the only one.   *)
LEMMA FullChannel ==
    ASSUME Shape, Owned, Quota, Parked, NEW c \in Conns, NEW b \in Backends,
           idle[c] = "put", idleBe[c] = b, c \notin closed,
           ~(Len(channel[b]) < Limit)
    PROVE  Dialed(c) /\ created[Addr(dialedBy[c])] > 1
<1>1. At(c, b) /\ Dialed(c)
  BY AtDialed DEF At
<1> SUFFICES ASSUME ~(created[Addr(dialedBy[c])] > 1) PROVE FALSE
  BY <1>1
<1>2. dialedBy[c] = b /\ Live(b)
  <2>1. dialedBy[c] = b
    BY <1>1, OneBackend
  <2> QED
    BY <1>1, <2>1 DEF Parked, LeftClosed
<1>3. /\ counter[b] = Cardinality(conns[b]) /\ counter[b] <= Limit
      /\ \A x \in Conns : dialedBy[x] = b /\ Open(x) /\ idle[x] # "close" => x \in conns[b]
  BY <1>2 DEF Quota, QuotaExact
<1>4. c \in conns[b] /\ c \notin InChannel(b)
  <2>1. Open(c)
    BY <1>1, PoolAssumption DEF Open, Dialed
  <2> QED
    BY <1>2, <1>3, <2>1 DEF Owned, InChannel
<1>5. \A x \in InChannel(b) : x \in conns[b]
  <2> SUFFICES ASSUME NEW x \in InChannel(b) PROVE x \in conns[b]
    OBVIOUS
  <2>1. x \in Conns /\ idle[x] = "none" /\ x \notin closed
    <3>1. x \in Conns /\ idle[x] = "none"
      BY DEF Shape, TypeOK, Owned, InChannel
    <3> QED
      BY <1>2, <3>1 DEF Parked, IdleIsOpen
  <2>2. At(x, b) /\ Dialed(x)
    BY <2>1, AtDialed DEF At
  <2>3. Addr(dialedBy[x]) = Addr(dialedBy[c])
    BY <1>2, <2>1, <2>2 DEF Parked, SameAddr
  <2>4. dialedBy[x] = b
    BY <2>1, <2>2, <2>3, OneBackend
  <2>5. Open(x)
    BY <2>1, <2>2, PoolAssumption DEF Open, Dialed
  <2> QED
    BY <1>3, <2>1, <2>4, <2>5
<1> DEFINE s == channel[b]
           n == Len(s)
           Q == InChannel(b)
<1>6. s \in Seq(Conns) /\ n \in Nat /\ DOMAIN s = 1..n
  BY DEF Shape, TypeOK
<1>7. IsFiniteSet(conns[b]) /\ IsFiniteSet(Q) /\ Q \subseteq conns[b] \ {c}
  <2>1. conns[b] \subseteq Conns
    BY DEF Shape, TypeOK
  <2>2. Q \subseteq conns[b] \ {c}
    BY <1>4, <1>5
  <2>3. IsFiniteSet(conns[b])
    BY <2>1, PoolAssumption, FS_Subset
  <2>4. Q \subseteq conns[b]
    BY <2>2
  <2> QED
    BY <2>2, <2>3, <2>4, FS_Subset
<1>8. Cardinality(Q) = n
  <2>1. s \in [1..n -> Q] /\ \A x \in Q : \E i \in 1..n : s[i] = x
    BY <1>6 DEF InChannel
  <2>2. \A i, j \in 1..n : s[i] = s[j] => i = j
    BY <1>6 DEF Owned
  <2> HIDE DEF s, n, Q
  <2>3. s \in Bijection(1..n, Q)
    BY <2>1, <2>2 DEF Bijection, Injection, IsInjective, Surjection
  <2>4. IsFiniteSet(1..n) /\ Cardinality(1..n) = n
    BY <1>6, FS_Interval
  <2> QED
    BY <2>3, <2>4, <1>6, FS_Bijection, Zenon DEF ExistsBijection
<1>9. n <= Cardinality(conns[b]) - 1
  <2> HIDE DEF n, Q
  <2>1. Cardinality(conns[b] \ {c}) = Cardinality(conns[b]) - 1 /\ IsFiniteSet(conns[b] \ {c})
    BY <1>4, <1>7, FS_RemoveElement
  <2>2. Cardinality(Q) <= Cardinality(conns[b] \ {c})
    BY <1>7, <2>1, FS_Subset
  <2> QED
    BY <1>8, <2>1, <2>2
<1>10. Cardinality(conns[b]) \in Nat /\ Limit \in Nat /\ ~(n < Limit)
  BY <1>7, PoolAssumption, FS_CardinalityType
<1> HIDE DEF n
<1> QED
  BY <1>3, <1>6, <1>9, <1>10

(* A receive leaves the others in their places.                            *)
LEMMA ParkedReceive ==
    ASSUME Shape, Shape', Parked, NEW t \in Threads, NEW r, pc[t] \in AtBackend,
           Receive(t, r)
    PROVE  Parked'
<1>1. PICK b \in Backends, c \in Conns, s \in Seq(Conns) :
        /\ channel' = [channel EXCEPT ![b] = s]
        /\ \A i \in DOMAIN s : i + 1 \in DOMAIN channel[b] /\ s[i] = channel[b][i + 1]
        /\ \A i \in DOMAIN channel[b] :
              channel[b][i] = c \/ \E j \in DOMAIN s : s[j] = channel[b][i]
        /\ c \in closed \/ held' = [held EXCEPT ![t] = held[t] \cup {c}]
  <2>1. be[t] \in Backends /\ channel[be[t]] \in Seq(Conns) /\ channel[be[t]] # <<>>
    BY DEF Shape, TypeOK, Receive
  <2>2. PICK q \in Seq(Conns) : q = channel[be[t]]
    BY <2>1
  <2>3. /\ Head(q) \in Conns /\ Tail(q) \in Seq(Conns)
        /\ \A i \in DOMAIN Tail(q) : i + 1 \in DOMAIN q /\ Tail(q)[i] = q[i + 1]
        /\ \A i \in DOMAIN q : i # 1 => i - 1 \in DOMAIN Tail(q) /\ Tail(q)[i - 1] = q[i]
        /\ q[1] = Head(q)
    BY <2>1, <2>2
  <2>4. \A i \in DOMAIN q : q[i] = Head(q) \/ \E j \in DOMAIN Tail(q) : Tail(q)[j] = q[i]
    BY <2>3
  <2>5. /\ channel' = [channel EXCEPT ![be[t]] = Tail(q)]
        /\ Head(q) \in closed \/ held' = [held EXCEPT ![t] = held[t] \cup {Head(q)}]
    BY <2>2 DEF Receive
  <2>6. PICK s \in Seq(Conns), c \in Conns : s = Tail(q) /\ c = Head(q)
    BY <2>3
  <2>7. PICK b \in Backends : b = be[t]
    BY <2>1
  <2>8. /\ \A i \in DOMAIN s : i + 1 \in DOMAIN channel[b] /\ s[i] = channel[b][i + 1]
        /\ \A i \in DOMAIN channel[b] :
              channel[b][i] = c \/ \E j \in DOMAIN s : s[j] = channel[b][i]
    BY <2>2, <2>3, <2>4, <2>6, <2>7
  <2>9. /\ channel' = [channel EXCEPT ![b] = s]
        /\ c \in closed \/ held' = [held EXCEPT ![t] = held[t] \cup {c}]
    BY <2>5, <2>6, <2>7
  <2> QED
    BY <2>8, <2>9, Zenon
<1>2. /\ backends' = backends /\ created' = created /\ dialedBy' = dialedBy
      /\ closed' = closed /\ idle' = idle /\ idleBe' = idleBe
  BY DEF Receive, poolVars, connVars, idleVars
<1>3. channel \in [Backends -> Seq(Conns)] /\ held \in [Threads -> SUBSET Conns]
  BY DEF Shape, TypeOK
<1>4. /\ \A d \in Backends : InChannel(d)' \subseteq InChannel(d)
      /\ \A d \in Backends : \A x \in InChannel(d) : x = c \/ x \in InChannel(d)'
  <2>1. channel'[b] = s /\ \A d \in Backends \ {b} : channel'[d] = channel[d]
    BY <1>1, <1>3
  <2>2. \A i \in DOMAIN channel'[b] :
           i + 1 \in DOMAIN channel[b] /\ channel'[b][i] = channel[b][i + 1]
    BY <1>1, <2>1
  <2>3. \A i \in DOMAIN channel[b] :
           channel[b][i] = c \/ \E j \in DOMAIN channel'[b] : channel'[b][j] = channel[b][i]
    BY <1>1, <2>1
  <2> QED
    BY <2>1, <2>2, <2>3 DEF InChannel
<1>5. \A x \in Conns, d \in Backends : At(x, d)' => At(x, d)
  BY <1>2, <1>4 DEF At
<1>6. \A u \in Threads : held[u] \subseteq held'[u]
  BY <1>3 DEF Receive
<1>7. Kept'
  <2> SUFFICES ASSUME NEW x \in Conns, Loose(x)' PROVE \E d \in Backends : x \in InChannel(d)'
    BY DEF Kept
  <2>1. Loose(x)
    BY <1>2, <1>6 DEF Loose, Open
  <2>2. x # c
    BY <1>1, <1>2, <1>3 DEF Loose, Open
  <2> QED
    BY <1>4, <2>1, <2>2 DEF Parked, Kept
<1> QED
  BY <1>2, <1>4, <1>5, <1>7, ParkedKept

(* Idle puts an open connection into the channel, or finds it full.        *)
LEMMA ParkedPut ==
    ASSUME Shape, Shape', Owned, Quota, Parked, NEW c \in Conns, IdlePut(c)
    PROVE  Parked'
<1>1. PICK b \in Backends : b = idleBe[c] /\ idle[c] = "put"
  BY DEF IdlePut, Shape
<1>2. /\ backends' = backends /\ created' = created /\ dialedBy' = dialedBy
      /\ closed' = closed /\ held' = held
  BY DEF IdlePut, poolVars, connVars, threadVars
<1>3. /\ channel \in [Backends -> Seq(Conns)]
      /\ idle \in [Conns -> {"none", "lookup", "put", "remove", "excess", "close"}]
      /\ idleBe \in [Conns -> Backends \cup {NoBackend}]
  BY DEF Shape, TypeOK
<1>4. CASE c \notin closed /\ Len(channel[b]) < Limit
  <2>1. /\ channel' = [channel EXCEPT ![b] = Append(channel[b], c)]
        /\ idle' = [idle EXCEPT ![c] = "none"]
        /\ idleBe' = [idleBe EXCEPT ![c] = NoBackend]
    BY <1>1, <1>4 DEF IdlePut, NotClosed
  <2>2. /\ \A d \in Backends : InChannel(d) \subseteq InChannel(d)'
        /\ \A d \in Backends : \A x \in InChannel(d)' : x \in InChannel(d) \/ (x = c /\ d = b)
        /\ c \in InChannel(b)'
    <3>1. channel'[b] = Append(channel[b], c) /\ \A d \in Backends \ {b} : channel'[d] = channel[d]
      BY <1>3, <2>1
    <3>2. \A d \in Backends \ {b} : InChannel(d)' = InChannel(d)
      BY <3>1 DEF InChannel
    <3>3. PICK q \in Seq(Conns) : q = channel[b]
      BY <1>3
    <3>4. /\ \A i \in DOMAIN q : i \in DOMAIN Append(q, c) /\ Append(q, c)[i] = q[i]
          /\ \A i \in DOMAIN Append(q, c) : i \in DOMAIN q \/ Append(q, c)[i] = c
          /\ Len(q) + 1 \in DOMAIN Append(q, c) /\ Append(q, c)[Len(q) + 1] = c
      BY <3>3
    <3>5. /\ InChannel(b) \subseteq InChannel(b)' /\ c \in InChannel(b)'
          /\ \A x \in InChannel(b)' : x \in InChannel(b) \/ x = c
      BY <3>1, <3>3, <3>4 DEF InChannel
    <3> QED
      BY <3>2, <3>5
  <2>3. \A x \in Conns, d \in Backends : At(x, d)' => At(x, d)
    <3>1. At(c, b)
      BY <1>1 DEF At
    <3>2. ASSUME NEW x \in Conns, NEW d \in Backends,
                 idle'[x] \in {"put", "remove", "excess"}, idleBe'[x] = d
          PROVE  At(x, d)
      BY <1>3, <2>1, <3>2 DEF At
    <3> QED
      BY <2>2, <3>1, <3>2 DEF At
  <2>4. Kept'
    <3> SUFFICES ASSUME NEW x \in Conns, Loose(x)' PROVE \E d \in Backends : x \in InChannel(d)'
      BY DEF Kept
    <3>1. CASE x = c
      BY <2>2, <3>1
    <3>2. CASE x # c
      <4>1. Loose(x)
        BY <1>2, <1>3, <2>1, <3>2 DEF Loose, Open
      <4> QED
        BY <2>2, <4>1 DEF Parked, Kept
    <3> QED
      BY <3>1, <3>2
  <2>5. \A x \in Conns : idle'[x] = "excess" => idle[x] = "excess"
    BY <1>3, <2>1
  <2>6. \A x \in Conns, d \in Backends : x \in InChannel(d)' /\ x \in closed' =>
           x \in InChannel(d) /\ x \in closed
    BY <1>2, <1>4, <2>2
  <2> QED
    BY <1>2, <2>3, <2>4, <2>5, <2>6, ParkedKept
<1>5. CASE ~(c \notin closed /\ Len(channel[b]) < Limit)
  <2>1. /\ channel' = channel /\ idleBe' = idleBe
        /\ idle' = [idle EXCEPT ![c] = IF c \notin closed THEN "excess" ELSE "remove"]
    BY <1>1, <1>5 DEF IdlePut, NotClosed
  <2>2. \A d \in Backends : InChannel(d)' = InChannel(d)
    BY <2>1 DEF InChannel
  <2>3. \A x \in Conns, d \in Backends : At(x, d)' => At(x, d)
    <3>1. \A x \in Conns : idle'[x] \in {"put", "remove", "excess"} =>
                              idle[x] \in {"put", "remove", "excess"}
      BY <1>1, <1>3, <2>1
    <3> QED
      BY <2>1, <2>2, <3>1 DEF At
  <2>4. Kept'
    <3>1. \A x \in Conns : Loose(x)' => Loose(x)
      BY <1>2, <1>3, <2>1 DEF Loose, Open
    <3> QED
      BY <2>2, <3>1 DEF Parked, Kept
  <2>5. \A x \in Conns : idle'[x] = "excess" =>
           idle[x] = "excess" \/ (Dialed(x) /\ created[Addr(dialedBy[x])] > 1)
    <3>1. c \notin closed => Dialed(c) /\ created[Addr(dialedBy[c])] > 1
      BY <1>1, <1>5, FullChannel
    <3> QED
      BY <1>3, <2>1, <3>1
  <2> QED
    BY <1>2, <2>2, <2>3, <2>4, <2>5, ParkedKept
<1> QED
  BY <1>4, <1>5

(* Closing a backend closes all that it dialled and that waits there.       *)
LEMMA ParkedClose ==
    ASSUME Shape, Shape', Owned, Quota, Parked, NEW a \in Addrs, CloseBackend(a)
    PROVE  Parked'
<1>1. PICK b \in Backends : b = <<a, backends[a]>> /\ b[1] = a /\ Live(b)
  BY BackendPairs, PoolAssumption DEF CloseBackend, Shape, TypeOK, GetAllAddrs, Live, Addr
<1>2. /\ backends' = [backends EXCEPT ![a] = 0] /\ backends \in [Addrs -> 0..MaxGen]
      /\ closed' = closed \cup conns[b]
      /\ UNCHANGED <<created, dialedBy, channel, held, idle, idleBe>>
  BY <1>1 DEF CloseBackend, Shape, TypeOK, threadVars, idleVars
<1>3. /\ \A d \in Backends : InChannel(d)' = InChannel(d) /\ InChannel(d) \subseteq Conns
      /\ \A c \in Conns, d \in Backends : At(c, d)' <=> At(c, d)
  <2>1. \A d \in Backends : InChannel(d)' = InChannel(d) /\ InChannel(d) \subseteq Conns
    BY <1>2 DEF InChannel, Shape, TypeOK
  <2> QED
    BY <1>2, <2>1 DEF At
<1>4. \A d \in Backends : /\ Live(d)' => Live(d) /\ d[1] # a
                          /\ Live(d) /\ ~Live(d)' => d = b
  <2>1. \A d \in Backends : d[1] \in Addrs /\ d[2] # 0 /\ d = <<d[1], d[2]>>
    BY BackendPairs, PoolAssumption
  <2>2. backends'[a] = 0 /\ \A x \in Addrs \ {a} : backends'[x] = backends[x]
    BY <1>2
  <2>3. \A d \in Backends : Live(d)' => d[1] # a
    BY <2>1, <2>2 DEF Live, Addr
  <2>4. \A d \in Backends : d[1] # a => (Live(d)' <=> Live(d))
    BY <2>1, <2>2 DEF Live, Addr
  <2>5. \A d \in Backends : d[1] = a /\ Live(d) => d = b
    BY <1>1, <2>1 DEF Live, Addr
  <2> QED
    BY <2>3, <2>4, <2>5
<1>5. SameAddr' /\ NoExcess'
  BY <1>2, <1>3 DEF Parked, SameAddr, NoExcess, Addr
<1>6. LeftClosed'
  <2> SUFFICES ASSUME NEW c \in Conns, NEW d \in Backends,
                      At(c, d), dialedBy[c] = d, ~Live(d)', c \notin closed
               PROVE  c \in closed'
    BY <1>2, <1>3 DEF LeftClosed
  <2>1. Live(d) /\ d = b
    BY <1>4 DEF Parked, LeftClosed
  <2>2. Open(c) /\ idle[c] # "close"
    BY PoolAssumption DEF Open, At, Owned, InChannel
  <2>3. c \in conns[b]
    BY <2>1, <2>2 DEF Quota, QuotaExact
  <2> QED
    BY <1>2, <2>3
<1>7. Kept'
  <2>1. \A c \in Conns : Loose(c)' => Loose(c)
    BY <1>2 DEF Loose, Open
  <2> QED
    BY <1>3, <2>1 DEF Parked, Kept
<1>8. IdleIsOpen'
  <2> SUFFICES ASSUME NEW d \in Backends, Live(d)', NEW c \in InChannel(d), c \in closed'
               PROVE  FALSE
    BY <1>3 DEF IdleIsOpen
  <2>1. c \in Conns /\ At(c, d) /\ c \notin closed
    BY <1>3, <1>4 DEF At, Parked, IdleIsOpen
  <2>2. dialedBy[c] = b
    BY <1>2, <2>1 DEF Quota, Tracking
  <2>3. Addr(b) = Addr(d)
    BY <2>1, <2>2 DEF Parked, SameAddr
  <2> QED
    BY <1>1, <1>4, <2>3 DEF Addr
<1> QED
  BY <1>5, <1>6, <1>7, <1>8 DEF Parked

(* Nothing waits at a backend that is just created.                        *)
LEMMA ParkedInitialize ==
    ASSUME Shape, Shape', Quota, Parked, NEW addrs \in SUBSET Addrs, InitializeAddrs(addrs)
    PROVE  Parked'
<1>1. \A a \in Addrs :
        /\ created[a] \in Nat /\ created'[a] \in Nat /\ created[a] <= created'[a]
        /\ \/ backends'[a] = backends[a]
           \/ backends[a] = 0 /\ backends'[a] = created[a] + 1
  BY DEF InitializeAddrs, Shape, TypeOK
<1>2. UNCHANGED <<channel, dialedBy, closed, held, idle, idleBe>>
  BY DEF InitializeAddrs, backendVars, connVars, threadVars, idleVars
<1>3. /\ \A d \in Backends : InChannel(d)' = InChannel(d) /\ InChannel(d) \subseteq Conns
      /\ \A c \in Conns, d \in Backends : At(c, d)' <=> At(c, d)
  <2>1. \A d \in Backends : InChannel(d)' = InChannel(d) /\ InChannel(d) \subseteq Conns
    BY <1>2 DEF InChannel, Shape, TypeOK
  <2> QED
    BY <1>2, <2>1 DEF At
<1>4. /\ \A d \in Backends : d[2] <= created[d[1]] => (Live(d)' <=> Live(d))
      /\ \A d \in Backends : d[2] <= created[d[1]] => d[2] <= created'[d[1]]
  <2>1. \A d \in Backends : d[1] \in Addrs /\ d[2] \in Nat \ {0}
    BY BackendPairs, PoolAssumption
  <2> QED
    BY <1>1, <2>1 DEF Live, Addr
<1>5. SameAddr'
  BY <1>2, <1>3, <1>4 DEF Parked, SameAddr, Addr
<1>6. LeftClosed'
  <2>1. \A c \in Conns, d \in Backends : At(c, d) => (Live(d)' <=> Live(d))
    BY <1>4 DEF Parked, SameAddr, Addr
  <2> QED
    BY <1>2, <1>3, <2>1 DEF Parked, LeftClosed
<1>7. Kept'
  <2>1. \A c \in Conns : Loose(c)' => Loose(c)
    BY <1>2 DEF Loose, Open
  <2> QED
    BY <1>3, <2>1 DEF Parked, Kept
<1>8. IdleIsOpen'
  <2> SUFFICES ASSUME NEW d \in Backends, Live(d)', NEW c \in InChannel(d), c \in closed
               PROVE  FALSE
    BY <1>2, <1>3 DEF IdleIsOpen
  <2>1. c \in Conns /\ At(c, d)
    BY <1>3 DEF At
  <2>2. Live(d)
    BY <1>4, <2>1 DEF Parked, SameAddr, Addr
  <2> QED
    BY <2>2 DEF Parked, IdleIsOpen
<1>9. NoExcess'
  <2>1. ASSUME NEW c \in Conns, idle[c] = "excess" PROVE created'[Addr(dialedBy[c])] > 1
    <3>1. Addr(dialedBy[c]) \in Addrs /\ created[Addr(dialedBy[c])] > 1
      BY <2>1, BackendPairs DEF Shape, Dialed, Addr, Parked, NoExcess
    <3> QED
      BY <1>1, <3>1
  <2> QED
    BY <1>2, <2>1 DEF NoExcess, Addr
<1> QED
  BY <1>5, <1>6, <1>7, <1>8, <1>9 DEF Parked

(* Idle looks up a backend of the connection's address that is in the map. *)
LEMMA ParkedLookup ==
    ASSUME Shape, Shape', Quota, Parked, NEW c \in Conns, IdleLookup(c)
    PROVE  Parked'
<1>1. PICK b : b = getBackend(Addr(dialedBy[c]))
  OBVIOUS
<1>2. /\ idle[c] = "lookup" /\ Dialed(c)
      /\ idle' = [idle EXCEPT ![c] = CloseOrPut(b)]
      /\ idleBe' = [idleBe EXCEPT ![c] = b]
      /\ idle \in [Conns -> {"none", "lookup", "put", "remove", "excess", "close"}]
      /\ idleBe \in [Conns -> Backends \cup {NoBackend}]
  BY <1>1 DEF IdleLookup, Shape, TypeOK
<1>3. UNCHANGED <<backends, created, channel, dialedBy, closed, held>>
  BY DEF IdleLookup, poolVars, backendVars, connVars, threadVars
<1>4. b \in Backends => /\ Live(b) /\ Addr(dialedBy[c]) = Addr(b)
                        /\ b[2] <= created[Addr(b)]
  <2>1. PICK a \in Addrs : a = Addr(dialedBy[c])
    BY <1>2, BackendPairs DEF Dialed, Addr
  <2>2. b \in Backends => b = <<a, backends[a]>>
    BY <1>1, <2>1, PoolAssumption DEF getBackend
  <2> QED
    BY <2>1, <2>2 DEF Live, Addr, Quota, Generations
<1>5. \A d \in Backends : InChannel(d)' = InChannel(d)
  BY <1>3 DEF InChannel
<1>6. \A x \in Conns \ {c} : idle'[x] = idle[x] /\ idleBe'[x] = idleBe[x]
  BY <1>2
<1>7. idle'[c] \in {"close", "put"} /\ idleBe'[c] = b
  BY <1>2 DEF CloseOrPut
<1>8. \A x \in Conns, d \in Backends : At(x, d)' =>
        \/ At(x, d)
        \/ /\ Dialed(x) /\ Live(d)
           /\ Addr(dialedBy[x]) = Addr(d) /\ d[2] <= created[Addr(d)]
  <2> SUFFICES ASSUME NEW x \in Conns, NEW d \in Backends, At(x, d)'
               PROVE  \/ At(x, d)
                      \/ /\ Dialed(x) /\ Live(d)
                         /\ Addr(dialedBy[x]) = Addr(d) /\ d[2] <= created[Addr(d)]
    OBVIOUS
  <2>1. CASE x = c
    BY <1>2, <1>4, <1>5, <1>7, <2>1 DEF At
  <2>2. CASE x # c
    BY <1>5, <1>6, <2>2 DEF At
  <2> QED
    BY <2>1, <2>2
<1>9. Kept'
  <2>1. \A x \in Conns : Loose(x)' => Loose(x)
    BY <1>3, <1>6, <1>7 DEF Loose, Open
  <2> QED
    BY <1>5, <2>1 DEF Parked, Kept
<1>10. \A x \in Conns : idle'[x] = "excess" => idle[x] = "excess"
  BY <1>6, <1>7
<1> QED
  BY <1>3, <1>5, <1>8, <1>9, <1>10, ParkedKept

(* A step that hands no connection over.                                   *)
LEMMA ParkedQuiet ==
    ASSUME Shape, Shape', Parked,
           UNCHANGED <<backends, created, channel, dialedBy, closed, held, idle, idleBe>>
    PROVE  Parked'
<1>1. /\ \A d \in Backends : InChannel(d)' = InChannel(d)
      /\ \A c \in Conns, d \in Backends : At(c, d)' <=> At(c, d)
  BY DEF InChannel, At
<1>2. Kept'
  <2>1. \A x \in Conns : Loose(x)' => Loose(x)
    BY DEF Loose, Open
  <2> QED
    BY <1>1, <2>1 DEF Parked, Kept
<1> QED
  BY <1>1, <1>2, ParkedKept

(* A step of the owner of c: the one who dials, closes or releases it, or  *)
(* the goroutine that removes it or closes it for good.                    *)
LEMMA ParkedOwner ==
    ASSUME Shape, Shape', Owned, Quota, Parked, NEW c \in Conns,
           \/ \E t \in Threads : DialOK(t, c) \/ CloseHeld(t, c) \/ Release(t, c)
           \/ IdleRemove(c) \/ IdleClose(c)
    PROVE  Parked'
<1>1. /\ backends' = backends /\ created' = created /\ channel' = channel
      /\ \A x \in Conns \ {c} : dialedBy'[x] = dialedBy[x]
      /\ \A x \in Conns \ {c} : idle'[x] = idle[x] /\ idleBe'[x] = idleBe[x]
      /\ closed \subseteq closed' /\ \A x \in Conns \ {c} : x \in closed' => x \in closed
      /\ \A x \in Conns \ {c} : \A u \in Threads : x \in held[u] => x \in held'[u]
  <2> USE DEF Shape, TypeOK
  <2>1. CASE \E t \in Threads : DialOK(t, c)
    BY <2>1 DEF DialOK, poolVars, idleVars
  <2>2. CASE \E t \in Threads : CloseHeld(t, c)
    BY <2>2 DEF CloseHeld, poolVars, backendVars, threadVars, idleVars
  <2>3. CASE \E t \in Threads : Release(t, c)
    BY <2>3 DEF Release, StopUsing, poolVars, backendVars, connVars
  <2>4. CASE IdleRemove(c)
    BY <2>4 DEF IdleRemove, poolVars, connVars, threadVars
  <2>5. CASE IdleClose(c)
    BY <2>5 DEF IdleClose, poolVars, backendVars, threadVars
  <2> QED
    BY <2>1, <2>2, <2>3, <2>4, <2>5
<1>2. \A d \in Backends : InChannel(d)' = InChannel(d) /\ c \notin InChannel(d)
  <2>1. \/ ~Dialed(c) \/ idle[c] # "none" \/ \E t \in Threads : c \in held[t]
    BY PoolAssumption DEF DialOK, Fresh, Dialed, CloseHeld, Release, IdleRemove, IdleClose
  <2>2. \A d \in Backends : c \notin InChannel(d)
    BY <2>1 DEF Shape, Owned, InChannel
  <2> QED
    BY <1>1, <2>2 DEF InChannel
<1>3. /\ Dialed(c) => dialedBy'[c] = dialedBy[c]
      /\ idle'[c] \notin {"put", "remove", "excess"}
      /\ ~Loose(c)'
  <2>1. CASE \E t \in Threads : DialOK(t, c)
    <3>1. PICK t \in Threads : DialOK(t, c)
      BY <2>1
    <3>2. ~Dialed(c) /\ c \in held'[t] /\ idle' = idle
      BY <3>1, PoolAssumption DEF DialOK, Fresh, Dialed, Shape, TypeOK, idleVars
    <3> QED
      BY <3>2 DEF Shape, Loose
  <2>2. CASE \E t \in Threads : CloseHeld(t, c)
    <3>1. PICK t \in Threads : c \in held[t] /\ CloseHeld(t, c)
      BY <2>2 DEF CloseHeld
    <3>2. c \in closed' /\ idle' = idle /\ dialedBy' = dialedBy /\ idle[c] = "none"
      BY <3>1 DEF CloseHeld, Owned, idleVars
    <3> QED
      BY <3>2 DEF Loose, Open
  <2>3. CASE \E t \in Threads : Release(t, c)
    <3>1. idle'[c] = "lookup" /\ dialedBy' = dialedBy
      BY <2>3 DEF Release, Shape, TypeOK, connVars
    <3> QED
      BY <3>1 DEF Loose
  <2>4. CASE IdleRemove(c)
    <3>1. /\ dialedBy' = dialedBy /\ closed' = closed
          /\ idle'[c] = "close" \/ (idle[c] = "remove" /\ idle'[c] = "none")
      BY <2>4 DEF IdleRemove, Shape, TypeOK, connVars
    <3> QED
      BY <3>1 DEF Loose, Open, Quota, RemovesClosed
  <2>5. CASE IdleClose(c)
    <3>1. dialedBy' = dialedBy /\ c \in closed' /\ idle'[c] = "none"
      BY <2>5 DEF IdleClose, Shape, TypeOK
    <3> QED
      BY <3>1 DEF Loose, Open
  <2> QED
    BY <2>1, <2>2, <2>3, <2>4, <2>5
<1>4. \A x \in Conns, d \in Backends : At(x, d)' => At(x, d)
  <2> SUFFICES ASSUME NEW x \in Conns, NEW d \in Backends, At(x, d)' PROVE At(x, d)
    OBVIOUS
  <2>1. CASE x = c
    BY <1>2, <1>3, <2>1 DEF At
  <2>2. CASE x # c
    BY <1>1, <1>2, <2>2 DEF At
  <2> QED
    BY <2>1, <2>2
<1>5. Kept'
  <2> SUFFICES ASSUME NEW x \in Conns, Loose(x)' PROVE \E d \in Backends : x \in InChannel(d)'
    BY DEF Kept
  <2>1. x # c
    BY <1>3
  <2>2. Loose(x)
    BY <1>1, <2>1 DEF Loose, Open
  <2> QED
    BY <1>2, <2>2 DEF Parked, Kept
<1>6. /\ \A x \in Conns : Dialed(x) => dialedBy'[x] = dialedBy[x]
      /\ \A x \in Conns : idle'[x] = "excess" => idle[x] = "excess"
      /\ \A x \in Conns, d \in Backends : x \in InChannel(d)' /\ x \in closed' =>
            x \in InChannel(d) /\ x \in closed
  BY <1>1, <1>2, <1>3
<1> QED
  BY <1>1, <1>4, <1>5, <1>6, ParkedKept

(* Every step keeps connections where they can be found.                   *)
LEMMA ParkedNext ==
    Shape /\ Shape' /\ Owned /\ Quota /\ Parked /\ [Next]_vars => Parked'
<1> SUFFICES ASSUME Shape, Shape', Owned, Quota, Parked, [Next]_vars PROVE Parked'
  OBVIOUS
<1>1. CASE \E addrs \in SUBSET Addrs : InitializeAddrs(addrs)
  BY <1>1, ParkedInitialize
<1>2. CASE \E a \in Addrs : CloseBackend(a)
  BY <1>2, ParkedClose
<1>3. ASSUME NEW t \in Threads, ThreadNext(t) PROVE Parked'
  <2>1. CASE \E a \in Addrs : CallGetConnectionByAddr(t, a) \/ ScanNextAddr(t, a)
    BY <2>1, ParkedQuiet DEF CallGetConnectionByAddr, ScanNextAddr,
       poolVars, backendVars, connVars, idleVars
  <2>2. CASE GetConnectionReceive(t) \/ ScanReceive(t)
    BY <2>2, ParkedReceive DEF GetConnectionReceive, ScanReceive, AtBackend
  <2>3. CASE GetConnectionTimeout(t) \/ getNewConnection(t) \/ DialFail(t)
    BY <2>3, ParkedQuiet DEF GetConnectionTimeout, getNewConnection, DialFail,
       poolVars, backendVars, connVars, idleVars
  <2>4. CASE RemoveReceived(t) \/ CallGetIdleConnection(t)
    BY <2>4, ParkedQuiet DEF RemoveReceived, CallGetIdleConnection,
       poolVars, backendVars, connVars, idleVars
  <2>5. CASE ScanBackendEmpty(t) \/ ScanDone(t)
    BY <2>5, ParkedQuiet DEF ScanBackendEmpty, ScanDone,
       poolVars, backendVars, connVars, idleVars
  <2>6. CASE \E c \in Conns : DialOK(t, c) \/ CloseHeld(t, c) \/ Release(t, c)
    BY <2>6, ParkedOwner
  <2> QED
    BY <1>3, <2>1, <2>2, <2>3, <2>4, <2>5, <2>6 DEF ThreadNext
<1>4. CASE \E c \in Conns : IdleNext(c)
  BY <1>4, ParkedLookup, ParkedPut, ParkedOwner DEF IdleNext
<1>5. CASE UNCHANGED vars
  BY <1>5, ParkedQuiet DEF vars, poolVars, backendVars, connVars, threadVars, idleVars
<1> QED
  BY <1>1, <1>2, <1>3, <1>4, <1>5 DEF Next

-----------------------------------------------------------------------------
(* Every reachable state is well typed, whatever the constants.            *)
THEOREM PoolTypeOK == Spec => []TypeOK
<1>1. Shape => TypeOK
  BY DEF Shape
<1> QED
  BY <1>1, ShapeInit, ShapeNext, PTL DEF Spec

(* A connection has at most one user: the goroutines of Idle and of the    *)
(* callers hand it over through the channels and never share it.           *)
THEOREM PoolExclusiveOwner == Spec => []ExclusiveOwner
BY ShapeInit, ShapeNext, OwnedInit, OwnedNext, OwnedImplies, PTL DEF Spec

(* The quota accounting of every backend in the map is exact and within    *)
(* ConnectionLimit, for any number of threads and any limit.               *)
THEOREM PoolQuotaExact == Spec => []QuotaExact
<1>1. Quota => QuotaExact
  BY DEF Quota
<1> QED
  BY <1>1, ShapeInit, ShapeNext, OwnedInit, OwnedNext, QuotaInit, QuotaNext, PTL DEF Spec

(* The invariants of the four layers hold throughout.                      *)
LEMMA PoolInvariance == Spec => [](Shape /\ Quota /\ Parked)
BY ShapeInit, ShapeNext, OwnedInit, OwnedNext, QuotaInit, QuotaNext, ParkedInit, ParkedNext,
   PTL DEF Spec

(* What a caller receives from the channel of a backend in the map is      *)
(* open: no connection is closed while it waits there.                     *)
THEOREM PoolIdleIsOpen == Spec => []IdleIsOpen
<1>1. Parked => IdleIsOpen
  BY DEF Parked
<1> QED
  BY <1>1, PoolInvariance, PTL

(* Unless its address was removed and added again, a connection given back *)
(* finds room in the channel, whatever the limit.                          *)
THEOREM PoolNoExcess == Spec => []NoExcess
<1>1. Parked => NoExcess
  BY DEF Parked
<1> QED
  BY <1>1, PoolInvariance, PTL

(* Unless its address was removed and added again, no open connection is   *)
(* lost: a caller uses it, Idle has it, or a lookup leads to it.           *)
THEOREM PoolNoLeak == Spec => []NoLeak
BY ParkedImplies, PoolInvariance, PTL

-----------------------------------------------------------------------------
(* The pool implements Lending.  A call wants the address of the backend   *)
(* it looked up, or any; what a thread holds is lent; and what an Idle     *)
(* goroutine has is on its way back.                                       *)
Want(t) ==
    IF pc[t] = "run" THEN {}
    ELSE IF pc[t] \in {"get", "dial", "getremove"} THEN {Addr(be[t])}
    ELSE Addrs

Wants == [t \in Threads |-> Want(t)]
To == [c \in Conns |-> IF dialedBy[c] = NoBackend THEN {} ELSE {Addr(dialedBy[c])}]
Back == {c \in Conns : idle[c] # "none"}

Promise == INSTANCE Lending WITH wants <- Wants, to <- To, lent <- held, back <- Back

(* Nothing is closed that was not dialled, so a new connection is open.    *)
ClosedDialed == \A c \in closed : Dialed(c)

(* Threads and Idle close what they have, and backends what they track.    *)
LEMMA ClosedDialedNext ==
    Shape /\ Quota /\ ClosedDialed /\ [Next]_vars => ClosedDialed'
<1> SUFFICES ASSUME Shape, Quota, ClosedDialed, [Next]_vars PROVE ClosedDialed'
  OBVIOUS
<1>1. ASSUME closed' = closed, dialedBy' = dialedBy PROVE ClosedDialed'
  BY <1>1 DEF ClosedDialed, Dialed
<1>2. ASSUME NEW c \in Conns, Dialed(c), closed' = closed \cup {c}, dialedBy' = dialedBy
      PROVE  ClosedDialed'
  BY <1>2 DEF ClosedDialed, Dialed
<1>3. CASE \E addrs \in SUBSET Addrs : InitializeAddrs(addrs)
  BY <1>1, <1>3 DEF InitializeAddrs, connVars
<1>4. ASSUME NEW a \in Addrs, CloseBackend(a) PROVE ClosedDialed'
  <2>1. <<a, backends[a]>> \in Backends
    BY <1>4, PoolAssumption, BackendPairs DEF CloseBackend, Shape, TypeOK, GetAllAddrs
  <2>2. \A c \in conns[<<a, backends[a]>>] : Dialed(c)
    BY <2>1 DEF Quota, Tracking, Dialed
  <2> QED
    BY <1>4, <2>2 DEF CloseBackend, ClosedDialed, Dialed
<1>5. ASSUME NEW t \in Threads, ThreadNext(t) PROVE ClosedDialed'
  <2>1. CASE \E c \in Conns : DialOK(t, c)
    <3>1. PICK c \in Conns : DialOK(t, c)
      BY <2>1
    <3>2. be[t] \in Backends
      BY <3>1 DEF DialOK, Shape, AtBackend
    <3> QED
      BY <3>1, <3>2 DEF DialOK, ClosedDialed, Dialed, Shape, TypeOK
  <2>2. CASE \E c \in Conns : CloseHeld(t, c)
    BY <1>2, <2>2 DEF CloseHeld, Shape
  <2>3. CASE \E c \in Conns : Release(t, c)
    BY <1>1, <2>3 DEF Release, connVars
  <2>4. CASE \E a \in Addrs : CallGetConnectionByAddr(t, a) \/ ScanNextAddr(t, a)
    BY <1>1, <2>4 DEF CallGetConnectionByAddr, ScanNextAddr, connVars
  <2>5. CASE GetConnectionReceive(t) \/ ScanReceive(t)
    BY <1>1, <2>5 DEF GetConnectionReceive, ScanReceive, Receive, connVars
  <2>6. CASE GetConnectionTimeout(t) \/ getNewConnection(t) \/ DialFail(t) \/ RemoveReceived(t)
    BY <1>1, <2>6 DEF GetConnectionTimeout, getNewConnection, DialFail, RemoveReceived, connVars
  <2>7. CASE CallGetIdleConnection(t) \/ ScanBackendEmpty(t) \/ ScanDone(t)
    BY <1>1, <2>7 DEF CallGetIdleConnection, ScanBackendEmpty, ScanDone, connVars
  <2> QED
    BY <1>5, <2>1, <2>2, <2>3, <2>4, <2>5, <2>6, <2>7 DEF ThreadNext
<1>6. ASSUME NEW c \in Conns, IdleNext(c) PROVE ClosedDialed'
  <2>1. CASE IdleClose(c)
    BY <1>2, <2>1 DEF IdleClose, Shape
  <2>2. CASE IdleLookup(c) \/ IdlePut(c) \/ IdleRemove(c)
    BY <1>1, <2>2 DEF IdleLookup, IdlePut, IdleRemove, connVars
  <2> QED
    BY <1>6, <2>1, <2>2 DEF IdleNext
<1>7. CASE UNCHANGED vars
  BY <1>1, <1>7 DEF vars, connVars
<1> QED
  BY <1>3, <1>4, <1>5, <1>6, <1>7 DEF Next

(* A new pool has lent nothing.                                            *)
LEMMA LendingInit == Init => Promise!Init /\ ClosedDialed
BY DEF Init, Promise!Init, ClosedDialed, Wants, Want, To, Back

(* Only the wish of the thread that takes a step can change.               *)
LEMMA WantStep ==
    ASSUME Shape, Shape', NEW t \in Threads,
           \A u \in Threads \ {t} : pc'[u] = pc[u] /\ be'[u] = be[u]
    PROVE  Wants' = [Wants EXCEPT ![t] = Want(t)']
<1>1. \A u \in Threads \ {t} : Want(u)' = Want(u)
  BY DEF Want
<1> QED
  BY <1>1 DEF Wants

(* A step that neither lends nor closes, nor ends what Idle does, is a     *)
(* call or the end of one, or does not show.                               *)
LEMMA LendingQuiet ==
    ASSUME Shape, Shape', NEW t \in Threads,
           \A u \in Threads \ {t} : pc'[u] = pc[u] /\ be'[u] = be[u],
           UNCHANGED <<dialedBy, closed, held, idle>>,
           \/ Want(t)' = Want(t)
           \/ Want(t)' = {}
           \/ Want(t) = {} /\ Want(t)' \in {Addrs} \cup {{a} : a \in Addrs}
    PROVE  [Promise!Next]_(Promise!vars)
<1>1. Wants' = [Wants EXCEPT ![t] = Want(t)'] /\ Wants[t] = Want(t)
  BY WantStep DEF Wants
<1>2. UNCHANGED <<To, held, Back, closed>>
  BY DEF To, Back
<1>3. CASE Want(t)' = Want(t)
  <2>1. Wants' = Wants
    BY <1>1, <1>3 DEF Wants
  <2> QED
    BY <1>2, <2>1 DEF Promise!vars
<1>4. CASE Want(t)' = {}
  <2>1. Promise!GiveUp(t)
    BY <1>1, <1>2, <1>4 DEF Promise!GiveUp
  <2> QED
    BY <2>1 DEF Promise!Next
<1>5. CASE Want(t) = {} /\ Want(t)' \in {Addrs} \cup {{a} : a \in Addrs}
  <2>1. Promise!Ask(t)
    BY <1>1, <1>2, <1>5 DEF Promise!Ask
  <2> QED
    BY <2>1 DEF Promise!Next
<1> QED
  BY <1>3, <1>4, <1>5

(* A receive lends a connection that was idle, to an address that is       *)
(* wanted, or finds a closed one, which does not show.                     *)
LEMMA LendingReceive ==
    ASSUME Shape, Shape', Owned, Quota, Parked, NEW t \in Threads, NEW r,
           \/ pc[t] = "get" /\ r = "getremove"
           \/ pc[t] = "scanbackend" /\ r = "scanremove",
           Receive(t, r)
    PROVE  [Promise!Next]_(Promise!vars)
<1> DEFINE b == be[t]
           c == Head(channel[b])
<1>1. /\ b \in Backends /\ channel[b] \in Seq(Conns) /\ channel[b] # <<>>
      /\ Addr(b) \in Addrs
  BY BackendPairs DEF Shape, TypeOK, AtBackend, Receive, Addr
<1>2. c \in Conns /\ c = channel[b][1] /\ 1 \in DOMAIN channel[b]
  BY <1>1, HeadTail
<1>3. /\ idle[c] = "none"
      /\ \A u \in Threads : c \notin held[u]
  BY <1>1, <1>2 DEF Owned
<1>4. Dialed(c) /\ Addr(dialedBy[c]) = Addr(b)
  <2>1. At(c, b)
    BY <1>1, <1>2 DEF At, InChannel
  <2> QED
    BY <1>1, <1>2, <2>1, AtDialed DEF Parked, SameAddr
<1>5. /\ To[c] = {Addr(b)}
      /\ Addr(b) \in Want(t)
  BY <1>1, <1>2, <1>4, PoolAssumption DEF To, Want, Dialed
<1>6. dialedBy' = dialedBy /\ closed' = closed /\ idle' = idle
  BY DEF Receive, connVars, idleVars
<1>7. \A u \in Threads \ {t} : pc'[u] = pc[u] /\ be'[u] = be[u]
  BY DEF Receive, Shape, TypeOK
<1>8. CASE c \notin closed
  <2>1. /\ held' = [held EXCEPT ![t] = @ \cup {c}]
        /\ pc'[t] = "run"
    BY <1>8 DEF Receive, Shape, TypeOK
  <2>2. Wants' = [Wants EXCEPT ![t] = {}] /\ Wants[t] = Want(t)
    BY <1>7, <2>1, WantStep DEF Want, Wants
  <2>3. Promise!Free(c) /\ UNCHANGED <<To, Back, closed>>
    BY <1>3, <1>6 DEF Promise!Free, Back, To
  <2> HIDE DEF c, b
  <2>4. Promise!LendIdle(t, c)
    BY <1>5, <1>8, <2>1, <2>2, <2>3 DEF Promise!LendIdle, Promise!Lend
  <2> QED
    BY <1>2, <2>4 DEF Promise!Next
<1>9. CASE c \in closed
  <2>1. held' = held /\ be' = be /\ pc'[t] = r
    BY <1>9 DEF Receive, Shape, TypeOK
  <2>2. Want(t)' = Want(t)
    BY <2>1 DEF Want
  <2> QED
    BY <1>6, <1>7, <2>1, <2>2, LendingQuiet
<1> QED
  BY <1>8, <1>9

(* What a thread does, besides receiving.                                  *)
LEMMA LendingThread ==
    ASSUME Shape, Shape', Owned, Quota, Parked, ClosedDialed,
           NEW t \in Threads, ThreadNext(t)
    PROVE  [Promise!Next]_(Promise!vars)
<1>1. /\ pc \in [Threads -> ThreadPCs] /\ be \in [Threads -> Backends \cup {NoBackend}]
      /\ held \in [Threads -> SUBSET Conns]
      /\ dialedBy \in [Conns -> Backends \cup {NoBackend}]
  BY DEF Shape, TypeOK
<1>2. ASSUME NEW a \in Addrs, CallGetConnectionByAddr(t, a) PROVE [Promise!Next]_(Promise!vars)
  <2>1. /\ \A u \in Threads \ {t} : pc'[u] = pc[u] /\ be'[u] = be[u]
        /\ UNCHANGED <<dialedBy, closed, held, idle>>
        /\ pc[t] = "run" /\ pc'[t] = "get" /\ be'[t] = getBackend(a)
        /\ getBackend(a) # NoBackend
    BY <1>1, <1>2 DEF CallGetConnectionByAddr, connVars, idleVars
  <2>2. Addr(getBackend(a)) = a
    BY <2>1 DEF getBackend, Addr
  <2>3. Want(t) = {} /\ Want(t)' = {a}
    BY <2>1, <2>2 DEF Want, Addr
  <2> QED
    BY <2>1, <2>3, LendingQuiet
<1>3. CASE GetConnectionReceive(t) \/ ScanReceive(t)
  BY <1>3, LendingReceive DEF GetConnectionReceive, ScanReceive
<1>4. CASE GetConnectionTimeout(t) \/ DialFail(t) \/ ScanDone(t)
  <2>1. /\ \A u \in Threads \ {t} : pc'[u] = pc[u] /\ be'[u] = be[u]
        /\ UNCHANGED <<dialedBy, closed, held, idle>>
        /\ pc'[t] = "run"
    BY <1>1, <1>4 DEF GetConnectionTimeout, DialFail, ScanDone, connVars, idleVars
  <2>2. Want(t)' = {}
    BY <2>1 DEF Want
  <2> QED
    BY <2>1, <2>2, LendingQuiet
<1>5. CASE getNewConnection(t) \/ RemoveReceived(t)
  <2>1. /\ \A u \in Threads \ {t} : pc'[u] = pc[u] /\ be'[u] = be[u]
        /\ UNCHANGED <<dialedBy, closed, held, idle>>
        /\ be' = be
        /\ \/ pc[t] = "get" /\ pc'[t] = "dial"
           \/ pc[t] = "getremove" /\ pc'[t] = "get"
           \/ pc[t] = "scanremove" /\ pc'[t] = "scanbackend"
    BY <1>1, <1>5 DEF getNewConnection, RemoveReceived, connVars, idleVars
  <2>2. Want(t)' = Want(t)
    BY <2>1 DEF Want
  <2> QED
    BY <2>1, <2>2, LendingQuiet
<1>6. CASE CallGetIdleConnection(t)
  <2>1. /\ \A u \in Threads \ {t} : pc'[u] = pc[u] /\ be'[u] = be[u]
        /\ UNCHANGED <<dialedBy, closed, held, idle>>
        /\ pc[t] = "run" /\ pc'[t] = "scan"
    BY <1>1, <1>6 DEF CallGetIdleConnection, connVars, idleVars
  <2>2. Want(t) = {} /\ Want(t)' = Addrs
    BY <2>1 DEF Want
  <2> QED
    BY <2>1, <2>2, LendingQuiet
<1>7. CASE (\E a \in Addrs : ScanNextAddr(t, a)) \/ ScanBackendEmpty(t)
  <2>1. /\ \A u \in Threads \ {t} : pc'[u] = pc[u] /\ be'[u] = be[u]
        /\ UNCHANGED <<dialedBy, closed, held, idle>>
        /\ pc[t] \in {"scan", "scanbackend"} /\ pc'[t] \in {"scan", "scanbackend"}
    BY <1>1, <1>7 DEF ScanNextAddr, ScanBackendEmpty, connVars, idleVars
  <2>2. Want(t)' = Want(t)
    BY <2>1 DEF Want
  <2> QED
    BY <2>1, <2>2, LendingQuiet
<1>8. ASSUME NEW c \in Conns, DialOK(t, c) PROVE [Promise!Next]_(Promise!vars)
  <2>1. /\ \A u \in Threads \ {t} : pc'[u] = pc[u] /\ be'[u] = be[u]
        /\ closed' = closed /\ idle' = idle
        /\ pc[t] = "dial" /\ pc'[t] = "run"
        /\ dialedBy[c] = NoBackend
        /\ dialedBy' = [dialedBy EXCEPT ![c] = be[t]]
        /\ held' = [held EXCEPT ![t] = @ \cup {c}]
    BY <1>1, <1>8 DEF DialOK, Fresh, idleVars
  <2>2. be[t] \in Backends
    BY <2>1 DEF Shape, AtBackend
  <2>3. ~Dialed(c) /\ be[t] # NoBackend
    BY <2>1, <2>2, PoolAssumption DEF Dialed
  <2>4. Promise!Free(c) /\ c \notin closed
    BY <2>3 DEF Promise!Free, Back, Shape, ClosedDialed
  <2>5. Wants' = [Wants EXCEPT ![t] = {}] /\ Wants[t] = {Addr(be[t])}
    BY <2>1, WantStep DEF Want, Wants
  <2>6. To[c] = {} /\ To' = [To EXCEPT ![c] = {Addr(be[t])}]
    BY <1>1, <2>1, <2>3 DEF To
  <2>7. Back' = Back
    BY <2>1 DEF Back
  <2>8. Promise!LendNew(t, c)
    BY <2>1, <2>4, <2>5, <2>6, <2>7 DEF Promise!LendNew, Promise!Lend
  <2> QED
    BY <2>8 DEF Promise!Next
<1>9. ASSUME NEW c \in Conns, CloseHeld(t, c) PROVE [Promise!Next]_(Promise!vars)
  <2>1. UNCHANGED <<Wants, To, held, Back>>
    BY <1>9 DEF CloseHeld, threadVars, idleVars, Wants, Want, To, Back
  <2>2. Promise!CloseLent(t, c)
    BY <1>9, <2>1 DEF CloseHeld, Promise!CloseLent
  <2> QED
    BY <2>2 DEF Promise!Next
<1>10. ASSUME NEW c \in Conns, Release(t, c) PROVE [Promise!Next]_(Promise!vars)
  <2>1. /\ c \in held[t]
        /\ held' = [held EXCEPT ![t] = @ \ {c}]
        /\ idle' = [idle EXCEPT ![c] = "lookup"]
        /\ UNCHANGED <<closed, dialedBy, pc, be>>
    BY <1>1, <1>10 DEF Release, StopUsing, connVars
  <2>2. UNCHANGED <<Wants, To>>
    BY <2>1 DEF Wants, Want, To
  <2>3. Back' = Back \cup {c}
    BY <2>1 DEF Back, Shape, TypeOK
  <2>4. Promise!GiveBack(t, c)
    BY <2>1, <2>2, <2>3 DEF Promise!GiveBack
  <2> QED
    BY <2>4 DEF Promise!Next
<1> QED
  BY <1>2, <1>3, <1>4, <1>5, <1>6, <1>7, <1>8, <1>9, <1>10 DEF ThreadNext

(* What an Idle goroutine does: it keeps at it, or is done.                *)
LEMMA LendingIdle ==
    ASSUME Shape, NEW c \in Conns, IdleNext(c)
    PROVE  [Promise!Next]_(Promise!vars)
<1>1. /\ UNCHANGED <<pc, be, held, dialedBy>>
      /\ idle[c] # "none"
      /\ \A d \in Conns \ {c} : idle'[d] = idle[d]
      /\ \/ closed' = closed
         \/ closed' = closed \cup {c} /\ idle'[c] = "none"
  <2>1. CASE IdleLookup(c)
    BY <2>1 DEF IdleLookup, Shape, TypeOK, connVars, threadVars
  <2>2. CASE IdlePut(c)
    BY <2>2 DEF IdlePut, Shape, TypeOK, connVars, threadVars
  <2>3. CASE IdleRemove(c)
    BY <2>3 DEF IdleRemove, Shape, TypeOK, connVars, threadVars
  <2>4. CASE IdleClose(c)
    BY <2>4 DEF IdleClose, Shape, TypeOK, connVars, threadVars
  <2> QED
    BY <2>1, <2>2, <2>3, <2>4 DEF IdleNext
<1>2. UNCHANGED <<Wants, To, held>>
  BY <1>1 DEF Wants, Want, To
<1>3. CASE idle'[c] = "none"
  <2>1. c \in Back /\ Back' = Back \ {c}
    BY <1>1, <1>3 DEF Back
  <2>2. Promise!Settle(c)
    BY <1>1, <1>2, <2>1 DEF Promise!Settle
  <2> QED
    BY <2>2 DEF Promise!Next
<1>4. CASE idle'[c] # "none"
  <2>1. Back' = Back
    BY <1>1, <1>4 DEF Back
  <2> QED
    BY <1>1, <1>2, <1>4, <2>1 DEF Promise!vars
<1> QED
  BY <1>3, <1>4

(* Every step of the pool is one that Lending allows, or does not show.    *)
LEMMA LendingNext ==
    Shape /\ Shape' /\ Owned /\ Quota /\ Parked /\ ClosedDialed /\ [Next]_vars
      => [Promise!Next]_(Promise!vars)
<1> SUFFICES ASSUME Shape, Shape', Owned, Quota, Parked, ClosedDialed, [Next]_vars
             PROVE  [Promise!Next]_(Promise!vars)
  OBVIOUS
<1>1. CASE \E addrs \in SUBSET Addrs : InitializeAddrs(addrs)
  <2>1. UNCHANGED <<pc, be, held, dialedBy, closed, idle>>
    BY <1>1 DEF InitializeAddrs, connVars, threadVars, idleVars
  <2> QED
    BY <2>1 DEF Promise!vars, Wants, Want, To, Back
<1>2. ASSUME NEW a \in Addrs, CloseBackend(a) PROVE [Promise!Next]_(Promise!vars)
  <2> DEFINE b == <<a, backends[a]>>
  <2>1. b \in Backends /\ Addr(b) = a
    BY <1>2, PoolAssumption, BackendPairs DEF CloseBackend, Shape, TypeOK, GetAllAddrs, Addr
  <2>2. /\ closed' = closed \cup conns[b]
        /\ UNCHANGED <<pc, be, held, dialedBy, idle>>
    BY <1>2 DEF CloseBackend, threadVars, idleVars
  <2>3. UNCHANGED <<Wants, To, held, Back>>
    BY <2>2 DEF Wants, Want, To, Back
  <2>4. conns[b] \in SUBSET {c \in Conns : To[c] = {a}}
    <3> HIDE DEF b
    <3>1. \A c \in conns[b] : c \in Conns /\ dialedBy[c] = b
      BY <2>1 DEF Quota, Tracking, Shape, TypeOK
    <3> QED
      BY <2>1, <3>1, PoolAssumption DEF To
  <2> HIDE DEF b
  <2>5. Promise!Drop(a)
    BY <2>2, <2>3, <2>4 DEF Promise!Drop
  <2> QED
    BY <2>5 DEF Promise!Next
<1>3. CASE \E t \in Threads : ThreadNext(t)
  BY <1>3, LendingThread
<1>4. CASE \E c \in Conns : IdleNext(c)
  BY <1>4, LendingIdle
<1>5. CASE UNCHANGED vars
  <2>1. UNCHANGED <<pc, be, held, dialedBy, closed, idle>>
    BY <1>5 DEF vars, connVars, threadVars, idleVars
  <2> QED
    BY <2>1 DEF Promise!vars, Wants, Want, To, Back
<1> QED
  BY <1>1, <1>2, <1>3, <1>4, <1>5 DEF Next

(* The pool, with its backends, channels and quotas, does nothing that     *)
(* Lending does not promise: a call returns with a connection to the       *)
(* address it asked for, open and nobody else's, or with none; whatever    *)
(* InitializeAddrs does meanwhile.                                         *)
THEOREM PoolImplementsLending == Spec => Promise!Spec
<1>1. Init => Promise!Init /\ ClosedDialed
  BY LendingInit
<1>2. Shape /\ Shape' /\ Owned /\ Quota /\ Parked /\ ClosedDialed /\ [Next]_vars
        => [Promise!Next]_(Promise!vars)
  BY LendingNext
<1> QED
  BY <1>1, <1>2, ClosedDialedNext, ShapeInit, ShapeNext, OwnedInit, OwnedNext, QuotaInit,
     QuotaNext, ParkedInit, ParkedNext, PTL DEF Spec, Promise!Spec
=============================================================================
