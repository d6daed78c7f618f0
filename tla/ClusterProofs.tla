--------------------------- MODULE ClusterProofs ---------------------------
(***************************************************************************)
(* Proofs about Cluster, for any addresses, calls and bounds.  What its    *)
(* users rely on rests on the epoch being stored by one goroutine at a     *)
(* time, at the number after the one that it loaded before it had the      *)
(* lock.  The invariant says why this is sound: only the holder of refLock *)
(* is past the test of the epoch, and what it loaded is still the epoch.   *)
(***************************************************************************)
EXTENDS Cluster, TLAPS

Answered == {"cache", "reinit", "store"}
Refreshing == {"fetch"} \cup Answered
Holding == Refreshing \cup {"unlock"}

(* refLock excludes.                                                       *)
Sole == \A r \in Calls : refLock = r <=> go[r] \in Holding

(* Whoever refreshes loaded the epoch that still is, and below the bound   *)
(* once it has an answer; and loaded it after its call began.              *)
Fresh ==
    \A r \in Calls :
        /\ go[r] \in Refreshing => ctr1[r] = epoch
        /\ go[r] \in Answered => epoch < MaxEpoch
        /\ go[r] \notin {"none", "load"} => began[r] <= ctr1[r]

(* The response is there while it is used, and is cached if it names       *)
(* brokers.                                                                *)
Responses ==
    \A r \in Calls :
        /\ go[r] \in Answered => resp[r] \in Response
        /\ go[r] = "reinit" => resp[r].brokers # {}

(* An answer is for a caller that waits, comes last, and says nil only if  *)
(* the epoch has moved during the call.                                    *)
Updates ==
    \A r \in Calls :
        /\ caller[r] = "none" => update[r] = "none"
        /\ update[r] # "none" => go[r] \in {"none", "unlock"}
        /\ update[r] = "nil" => began[r] < epoch

IInv == TypeOK /\ Sole /\ Fresh /\ Responses /\ Updates

(* Locks are taken when free, and given up by their holder.                *)
LEMMA SoleStep ==
    ASSUME TypeOK, Sole, [Next]_vars PROVE Sole'
<1> USE ClusterAssumption DEF kafkaVars, metaVars, goVars, Holding, Refreshing, Answered
<1>1. ASSUME NEW s \in Shapes, Change(s) PROVE Sole'
  BY <1>1 DEF Change, TypeOK, Sole
<1>2. ASSUME NEW r \in Calls, RefreshMetadata(r) PROVE Sole'
  BY <1>2 DEF RefreshMetadata, TypeOK, Sole
<1>3. ASSUME NEW r \in Calls, GetTimeout(r) PROVE Sole'
  BY <1>3 DEF GetTimeout, TypeOK, Sole
<1>4. ASSUME NEW r \in Calls, Return(r) PROVE Sole'
  BY <1>4 DEF Return, TypeOK, Sole
<1>5. ASSUME NEW r \in Calls, Timeout(r) PROVE Sole'
  BY <1>5 DEF Timeout, TypeOK, Sole
<1>6. ASSUME NEW r \in Calls, LoadEpoch(r) PROVE Sole'
  BY <1>6 DEF LoadEpoch, TypeOK, Sole
<1>7. ASSUME NEW r \in Calls, Piggyback(r) PROVE Sole'
  BY <1>7 DEF Piggyback, Send, End, TypeOK, Sole, Unlocked
<1>8. ASSUME NEW r \in Calls, Lock(r) PROVE Sole'
  BY <1>8 DEF Lock, TypeOK, Sole, Unlocked
<1>9. ASSUME NEW r \in Calls, NEW a \in Addrs, FetchAnswer(r, a) PROVE Sole'
  BY <1>9 DEF FetchAnswer, TypeOK, Sole
<1>10. ASSUME NEW r \in Calls, NEW a \in Addrs, FetchFail(r, a) PROVE Sole'
  BY <1>10 DEF FetchFail, TypeOK, Sole
<1>11. ASSUME NEW r \in Calls, FetchError(r) PROVE Sole'
  BY <1>11 DEF FetchError, Send, End, TypeOK, Sole
<1>12. ASSUME NEW r \in Calls, RefuseResponse(r) PROVE Sole'
  BY <1>12 DEF RefuseResponse, TypeOK, Sole
<1>13. ASSUME NEW r \in Calls, Cache(r) PROVE Sole'
  BY <1>13 DEF Cache, TypeOK, Sole
<1>14. ASSUME NEW r \in Calls, ReinitializeAddrs(r) PROVE Sole'
  BY <1>14 DEF ReinitializeAddrs, TypeOK, Sole
<1>15. ASSUME NEW r \in Calls, StoreEpoch(r) PROVE Sole'
  BY <1>15 DEF StoreEpoch, Send, TypeOK, Sole
<1>16. ASSUME NEW r \in Calls, Unlock(r) PROVE Sole'
  BY <1>16 DEF Unlock, End, TypeOK, Sole
<1>17. CASE ForgetEndpoint
  BY <1>17 DEF ForgetEndpoint, TypeOK, Sole
<1>18. CASE UNCHANGED vars
  BY <1>18 DEF vars, TypeOK, Sole
<1> QED
  BY <1>1, <1>2, <1>3, <1>4, <1>5, <1>6, <1>7, <1>8, <1>9, <1>10, <1>11, <1>12, <1>13,
     <1>14, <1>15, <1>16, <1>17, <1>18
  DEF Next, CallerNext, GoNext

(* The epoch is stored by the holder of the lock only.                     *)
LEMMA FreshStep ==
    ASSUME TypeOK, Sole, Fresh, [Next]_vars PROVE Fresh'
<1> USE ClusterAssumption DEF kafkaVars, metaVars, goVars, Holding, Refreshing, Answered
<1>1. ASSUME NEW s \in Shapes, Change(s) PROVE Fresh'
  BY <1>1 DEF Change, TypeOK, Sole, Fresh
<1>2. ASSUME NEW r \in Calls, RefreshMetadata(r) PROVE Fresh'
  BY <1>2 DEF RefreshMetadata, TypeOK, Sole, Fresh
<1>3. ASSUME NEW r \in Calls, GetTimeout(r) PROVE Fresh'
  BY <1>3 DEF GetTimeout, TypeOK, Sole, Fresh
<1>4. ASSUME NEW r \in Calls, Return(r) PROVE Fresh'
  BY <1>4 DEF Return, TypeOK, Sole, Fresh
<1>5. ASSUME NEW r \in Calls, Timeout(r) PROVE Fresh'
  BY <1>5 DEF Timeout, TypeOK, Sole, Fresh
<1>6. ASSUME NEW r \in Calls, LoadEpoch(r) PROVE Fresh'
  BY <1>6 DEF LoadEpoch, TypeOK, Sole, Fresh
<1>7. ASSUME NEW r \in Calls, Piggyback(r) PROVE Fresh'
  BY <1>7 DEF Piggyback, Send, End, TypeOK, Sole, Fresh, Refreshed
<1>8. ASSUME NEW r \in Calls, Lock(r) PROVE Fresh'
  BY <1>8 DEF Lock, TypeOK, Sole, Fresh, Unlocked, Refreshed
<1>9. ASSUME NEW r \in Calls, NEW a \in Addrs, FetchAnswer(r, a) PROVE Fresh'
  BY <1>9 DEF FetchAnswer, TypeOK, Sole, Fresh
<1>10. ASSUME NEW r \in Calls, NEW a \in Addrs, FetchFail(r, a) PROVE Fresh'
  BY <1>10 DEF FetchFail, TypeOK, Sole, Fresh
<1>11. ASSUME NEW r \in Calls, FetchError(r) PROVE Fresh'
  BY <1>11 DEF FetchError, Send, End, TypeOK, Sole, Fresh
<1>12. ASSUME NEW r \in Calls, RefuseResponse(r) PROVE Fresh'
  BY <1>12 DEF RefuseResponse, TypeOK, Sole, Fresh
<1>13. ASSUME NEW r \in Calls, Cache(r) PROVE Fresh'
  BY <1>13 DEF Cache, TypeOK, Sole, Fresh
<1>14. ASSUME NEW r \in Calls, ReinitializeAddrs(r) PROVE Fresh'
  BY <1>14 DEF ReinitializeAddrs, TypeOK, Sole, Fresh
<1>15. ASSUME NEW r \in Calls, StoreEpoch(r) PROVE Fresh'
  BY <1>15 DEF StoreEpoch, Send, TypeOK, Sole, Fresh
<1>16. ASSUME NEW r \in Calls, Unlock(r) PROVE Fresh'
  BY <1>16 DEF Unlock, End, TypeOK, Sole, Fresh
<1>17. CASE ForgetEndpoint
  BY <1>17 DEF ForgetEndpoint, TypeOK, Sole, Fresh
<1>18. CASE UNCHANGED vars
  BY <1>18 DEF vars, TypeOK, Sole, Fresh
<1> QED
  BY <1>1, <1>2, <1>3, <1>4, <1>5, <1>6, <1>7, <1>8, <1>9, <1>10, <1>11, <1>12, <1>13,
     <1>14, <1>15, <1>16, <1>17, <1>18
  DEF Next, CallerNext, GoNext

(* A response comes with Fetch's answer and stays until the epoch is       *)
(* stored.                                                                 *)
LEMMA ResponsesStep ==
    ASSUME TypeOK, Sole, Responses, [Next]_vars PROVE Responses'
<1> USE ClusterAssumption DEF kafkaVars, metaVars, goVars, Holding, Refreshing, Answered
<1>1. ASSUME NEW s \in Shapes, Change(s) PROVE Responses'
  BY <1>1 DEF Change, TypeOK, Responses
<1>2. ASSUME NEW r \in Calls, RefreshMetadata(r) PROVE Responses'
  BY <1>2 DEF RefreshMetadata, TypeOK, Responses
<1>3. ASSUME NEW r \in Calls, GetTimeout(r) PROVE Responses'
  BY <1>3 DEF GetTimeout, TypeOK, Responses
<1>4. ASSUME NEW r \in Calls, Return(r) PROVE Responses'
  BY <1>4 DEF Return, TypeOK, Responses
<1>5. ASSUME NEW r \in Calls, Timeout(r) PROVE Responses'
  BY <1>5 DEF Timeout, TypeOK, Responses
<1>6. ASSUME NEW r \in Calls, LoadEpoch(r) PROVE Responses'
  BY <1>6 DEF LoadEpoch, TypeOK, Responses
<1>7. ASSUME NEW r \in Calls, Piggyback(r) PROVE Responses'
  BY <1>7 DEF Piggyback, Send, End, TypeOK, Responses
<1>8. ASSUME NEW r \in Calls, Lock(r) PROVE Responses'
  BY <1>8 DEF Lock, TypeOK, Responses
<1>9. ASSUME NEW r \in Calls, NEW a \in Addrs, FetchAnswer(r, a) PROVE Responses'
  BY <1>9 DEF FetchAnswer, TypeOK, Responses, Response
<1>10. ASSUME NEW r \in Calls, NEW a \in Addrs, FetchFail(r, a) PROVE Responses'
  BY <1>10 DEF FetchFail, TypeOK, Responses
<1>11. ASSUME NEW r \in Calls, FetchError(r) PROVE Responses'
  BY <1>11 DEF FetchError, Send, End, TypeOK, Responses
<1>12. ASSUME NEW r \in Calls, RefuseResponse(r) PROVE Responses'
  BY <1>12 DEF RefuseResponse, TypeOK, Responses, Refused
<1>13. ASSUME NEW r \in Calls, Cache(r) PROVE Responses'
  BY <1>13 DEF Cache, TypeOK, Responses, Refused
<1>14. ASSUME NEW r \in Calls, ReinitializeAddrs(r) PROVE Responses'
  BY <1>14 DEF ReinitializeAddrs, TypeOK, Responses
<1>15. ASSUME NEW r \in Calls, StoreEpoch(r) PROVE Responses'
  BY <1>15 DEF StoreEpoch, Send, TypeOK, Responses
<1>16. ASSUME NEW r \in Calls, Unlock(r) PROVE Responses'
  BY <1>16 DEF Unlock, End, TypeOK, Responses
<1>17. CASE ForgetEndpoint
  BY <1>17 DEF ForgetEndpoint, TypeOK, Responses
<1>18. CASE UNCHANGED vars
  BY <1>18 DEF vars, TypeOK, Responses
<1> QED
  BY <1>1, <1>2, <1>3, <1>4, <1>5, <1>6, <1>7, <1>8, <1>9, <1>10, <1>11, <1>12, <1>13,
     <1>14, <1>15, <1>16, <1>17, <1>18
  DEF Next, CallerNext, GoNext

(* An answer is sent last, by a goroutine that saw the epoch move.         *)
LEMMA UpdatesStep ==
    ASSUME TypeOK, Sole, Fresh, Updates, [Next]_vars PROVE Updates'
<1> USE ClusterAssumption DEF kafkaVars, metaVars, goVars, Holding, Refreshing, Answered
<1>1. ASSUME NEW s \in Shapes, Change(s) PROVE Updates'
  BY <1>1 DEF Change, TypeOK, Sole, Fresh, Updates
<1>2. ASSUME NEW r \in Calls, RefreshMetadata(r) PROVE Updates'
  BY <1>2 DEF RefreshMetadata, TypeOK, Sole, Fresh, Updates
<1>3. ASSUME NEW r \in Calls, GetTimeout(r) PROVE Updates'
  BY <1>3 DEF GetTimeout, TypeOK, Sole, Fresh, Updates
<1>4. ASSUME NEW r \in Calls, Return(r) PROVE Updates'
  BY <1>4 DEF Return, TypeOK, Sole, Fresh, Updates
<1>5. ASSUME NEW r \in Calls, Timeout(r) PROVE Updates'
  BY <1>5 DEF Timeout, TypeOK, Sole, Fresh, Updates
<1>6. ASSUME NEW r \in Calls, LoadEpoch(r) PROVE Updates'
  BY <1>6 DEF LoadEpoch, TypeOK, Sole, Fresh, Updates
<1>7. ASSUME NEW r \in Calls, Piggyback(r) PROVE Updates'
  BY <1>7 DEF Piggyback, Send, End, TypeOK, Sole, Fresh, Updates, Refreshed
<1>8. ASSUME NEW r \in Calls, Lock(r) PROVE Updates'
  BY <1>8 DEF Lock, TypeOK, Sole, Fresh, Updates
<1>9. ASSUME NEW r \in Calls, NEW a \in Addrs, FetchAnswer(r, a) PROVE Updates'
  BY <1>9 DEF FetchAnswer, TypeOK, Sole, Fresh, Updates
<1>10. ASSUME NEW r \in Calls, NEW a \in Addrs, FetchFail(r, a) PROVE Updates'
  BY <1>10 DEF FetchFail, TypeOK, Sole, Fresh, Updates
<1>11. ASSUME NEW r \in Calls, FetchError(r) PROVE Updates'
  BY <1>11 DEF FetchError, Send, End, TypeOK, Sole, Fresh, Updates
<1>12. ASSUME NEW r \in Calls, RefuseResponse(r) PROVE Updates'
  BY <1>12 DEF RefuseResponse, TypeOK, Sole, Fresh, Updates
<1>13. ASSUME NEW r \in Calls, Cache(r) PROVE Updates'
  BY <1>13 DEF Cache, TypeOK, Sole, Fresh, Updates
<1>14. ASSUME NEW r \in Calls, ReinitializeAddrs(r) PROVE Updates'
  BY <1>14 DEF ReinitializeAddrs, TypeOK, Sole, Fresh, Updates
<1>15. ASSUME NEW r \in Calls, StoreEpoch(r) PROVE Updates'
  BY <1>15 DEF StoreEpoch, Send, TypeOK, Sole, Fresh, Updates
<1>16. ASSUME NEW r \in Calls, Unlock(r) PROVE Updates'
  BY <1>16 DEF Unlock, End, TypeOK, Sole, Fresh, Updates
<1>17. CASE ForgetEndpoint
  BY <1>17 DEF ForgetEndpoint, TypeOK, Sole, Fresh, Updates
<1>18. CASE UNCHANGED vars
  BY <1>18 DEF vars, TypeOK, Sole, Fresh, Updates
<1> QED
  BY <1>1, <1>2, <1>3, <1>4, <1>5, <1>6, <1>7, <1>8, <1>9, <1>10, <1>11, <1>12, <1>13,
     <1>14, <1>15, <1>16, <1>17, <1>18
  DEF Next, CallerNext, GoNext

(* The types; that the epoch does not go down is Fresh at StoreEpoch.      *)
LEMMA TypeStep ==
    ASSUME IInv, [Next]_vars PROVE TypeOK'
<1> USE ClusterAssumption DEF kafkaVars, metaVars, goVars, Holding, Refreshing, Answered
<1>1. ASSUME NEW s \in Shapes, Change(s) PROVE TypeOK'
  BY <1>1 DEF Change, IInv, TypeOK, Versions, AddrSets
<1>2. ASSUME NEW r \in Calls, RefreshMetadata(r) PROVE TypeOK'
  BY <1>2 DEF RefreshMetadata, IInv, TypeOK, Versions, AddrSets
<1>3. ASSUME NEW r \in Calls, GetTimeout(r) PROVE TypeOK'
  BY <1>3 DEF GetTimeout, IInv, TypeOK, Versions, AddrSets
<1>4. ASSUME NEW r \in Calls, Return(r) PROVE TypeOK'
  BY <1>4 DEF Return, IInv, TypeOK, Versions, AddrSets
<1>5. ASSUME NEW r \in Calls, Timeout(r) PROVE TypeOK'
  BY <1>5 DEF Timeout, IInv, TypeOK, Versions, AddrSets
<1>6. ASSUME NEW r \in Calls, LoadEpoch(r) PROVE TypeOK'
  BY <1>6 DEF LoadEpoch, IInv, TypeOK, Versions, AddrSets
<1>7. ASSUME NEW r \in Calls, Piggyback(r) PROVE TypeOK'
  BY <1>7 DEF Piggyback, Send, End, IInv, TypeOK, Versions, AddrSets
<1>8. ASSUME NEW r \in Calls, Lock(r) PROVE TypeOK'
  BY <1>8 DEF Lock, IInv, TypeOK, Versions, AddrSets
<1>9. ASSUME NEW r \in Calls, NEW a \in Addrs, FetchAnswer(r, a) PROVE TypeOK'
  BY <1>9 DEF FetchAnswer, IInv, TypeOK, Responses, Response, Versions, AddrSets
<1>10. ASSUME NEW r \in Calls, NEW a \in Addrs, FetchFail(r, a) PROVE TypeOK'
  BY <1>10 DEF FetchFail, IInv, TypeOK, Versions, AddrSets
<1>11. ASSUME NEW r \in Calls, FetchError(r) PROVE TypeOK'
  BY <1>11 DEF FetchError, Send, End, IInv, TypeOK, Versions, AddrSets
<1>12. ASSUME NEW r \in Calls, RefuseResponse(r) PROVE TypeOK'
  BY <1>12 DEF RefuseResponse, IInv, TypeOK, Versions, AddrSets
<1>13. ASSUME NEW r \in Calls, Cache(r) PROVE TypeOK'
  BY <1>13 DEF Cache, IInv, TypeOK, Responses, Response, Versions, AddrSets
<1>14. ASSUME NEW r \in Calls, ReinitializeAddrs(r) PROVE TypeOK'
  BY <1>14 DEF ReinitializeAddrs, IInv, TypeOK, Responses, Response, Versions, AddrSets
<1>15. ASSUME NEW r \in Calls, StoreEpoch(r) PROVE TypeOK'
  BY <1>15 DEF StoreEpoch, Send, IInv, TypeOK, Fresh, Versions, AddrSets
<1>16. ASSUME NEW r \in Calls, Unlock(r) PROVE TypeOK'
  BY <1>16 DEF Unlock, End, IInv, TypeOK, Versions, AddrSets
<1>17. CASE ForgetEndpoint
  BY <1>17 DEF ForgetEndpoint, IInv, TypeOK, Versions, AddrSets
<1>18. CASE UNCHANGED vars
  BY <1>18 DEF vars, IInv, TypeOK, Versions, AddrSets
<1> QED
  BY <1>1, <1>2, <1>3, <1>4, <1>5, <1>6, <1>7, <1>8, <1>9, <1>10, <1>11, <1>12, <1>13,
     <1>14, <1>15, <1>16, <1>17, <1>18
  DEF Next, CallerNext, GoNext

(* The invariant holds at first, and always.                               *)
LEMMA InitIInv == Init => IInv
<1> SUFFICES ASSUME Init PROVE IInv
  OBVIOUS
<1> USE ClusterAssumption DEF Init, Holding, Refreshing, Answered
<1>1. TypeOK
  BY DEF TypeOK, AddrSets, Versions
<1>2. Sole /\ Fresh /\ Responses /\ Updates
  BY DEF Sole, Fresh, Responses, Updates
<1> QED BY <1>1, <1>2 DEF IInv

(* The invariant holds throughout.                                         *)
LEMMA Invariance == Spec => []IInv
<1>1. IInv /\ [Next]_vars => IInv'
  BY SoleStep, FreshStep, ResponsesStep, UpdatesStep, TypeStep DEF IInv
<1> QED BY InitIInv, <1>1, PTL DEF Spec

(* Every variable of RefreshMetadata and of the cached metadata stays      *)
(* within its type, and the epoch is never below one that a call has read: *)
(* storing ctr1 + 1 does not take back a refresh.                          *)
THEOREM ClusterTypeOK == Spec => []TypeOK
<1>1. IInv => TypeOK
  BY DEF IInv
<1> QED BY Invariance, <1>1, PTL

(* No response leaves the client without an address to refresh from: only  *)
(* one that names brokers reaches the pools.                               *)
THEOREM ClusterNeverStranded == Spec => []NeverStranded
<1>1. Init => NeverStranded
  BY DEF Init, NeverStranded
<1>2. ASSUME IInv, NeverStranded, [Next]_vars PROVE NeverStranded'
  <2>1. ASSUME NEW r \in Calls, ReinitializeAddrs(r) PROVE NeverStranded'
    BY <1>2, <2>1 DEF ReinitializeAddrs, IInv, Responses, NeverStranded
  <2>2. (\A r \in Calls : ~ReinitializeAddrs(r)) => addrs' = addrs
    BY <1>2 DEF Next, CallerNext, GoNext, vars, kafkaVars, metaVars, goVars, Change,
       RefreshMetadata, GetTimeout, Return, Timeout, LoadEpoch, Piggyback, Lock,
       FetchAnswer, FetchFail, FetchError, RefuseResponse, Cache, StoreEpoch, Unlock,
       ForgetEndpoint
  <2> QED BY <1>2, <2>1, <2>2 DEF NeverStranded
<1> QED BY Invariance, <1>1, <1>2, PTL DEF Spec

-----------------------------------------------------------------------------
(* The refinement, step by step.  What Metadata sees of a refresh changes  *)
(* only with where a goroutine is that has an answer, ...                  *)
LEMMA SameRefresh ==
    ASSUME \A q \in Calls : /\ Uncached(q)' = Uncached(q)
                            /\ Cached(q)' = Cached(q)
                            /\ Uncached(q) => resp'[q] = resp[q]
    PROVE  UNCHANGED <<Fetched, Installed>>
<1>1. Fetched' = Fetched
  BY DEF Fetched, Content
<1>2. Installed' = Installed
  BY DEF Installed
<1> QED BY <1>1, <1>2

(* ... and what it sees of the calls with a call's begin, answer and end,  *)
(* and the epoch.                                                          *)
LEMMA SameStatus ==
    ASSUME \A q \in Calls : /\ caller'[q] = "none" <=> caller[q] = "none"
                            /\ update'[q] = "nil" <=> update[q] = "nil"
                            /\ epoch' > began'[q] <=> epoch > began[q]
    PROVE  Status' = Status
BY DEF Status
(* No other goroutine has an answer while one refreshes.                   *)
LEMMA Alone ==
    ASSUME Sole, NEW r \in Calls, go[r] \in Holding
    PROVE  \A q \in Calls \ {r} : ~Uncached(q) /\ ~Cached(q)
BY DEF Sole, Uncached, Cached, Holding, Refreshing, Answered

(* Every step of Cluster is one of Metadata, or none.                      *)
LEMMA MetadataStep ==
    ASSUME IInv, [Next]_vars PROVE [Meta!Next]_(Meta!vars)
<1> USE DEF kafkaVars, metaVars, goVars
<1>1. ASSUME NEW s \in Shapes, Change(s) PROVE Meta!Change
  <2>1. UNCHANGED <<Fetched, Installed>>
    BY <1>1, SameRefresh DEF Change, Uncached, Cached
  <2>2. Status' = Status
    BY <1>1, SameStatus DEF Change
  <2> QED BY <1>1, <2>1, <2>2 DEF Change, Meta!Change, Meta!refreshVars, Meta!cacheVars
<1>2. ASSUME NEW r \in Calls, RefreshMetadata(r) PROVE Meta!Call(r)
  <2>1. UNCHANGED <<Fetched, Installed>>
    BY <1>2, SameRefresh DEF RefreshMetadata, Uncached, Cached, IInv, TypeOK
  <2>2. /\ update' = update /\ update[r] = "none" /\ epoch' = epoch
        /\ caller[r] = "none" /\ caller'[r] # "none" /\ ~(epoch > began'[r])
        /\ \A q \in Calls \ {r} : caller'[q] = caller[q] /\ began'[q] = began[q]
    BY <1>2 DEF RefreshMetadata, IInv, TypeOK, Updates
  <2>3. Status[r] = "idle" /\ Status'[r] = "pending"
    BY <2>2 DEF Status
  <2>4. \A q \in Calls \ {r} : Status'[q] = Status[q]
    BY <2>2 DEF Status
  <2>5. Status' = [Status EXCEPT ![r] = "pending"]
    BY <2>3, <2>4 DEF Status
  <2> QED BY <1>2, <2>1, <2>3, <2>5 DEF RefreshMetadata, Meta!Call, Meta!Becomes,
             Meta!refreshVars, Meta!cacheVars
<1>3. ASSUME NEW r \in Calls, GetTimeout(r) PROVE UNCHANGED Meta!vars
  <2>1. UNCHANGED <<Fetched, Installed>>
    BY <1>3, SameRefresh DEF GetTimeout, Uncached, Cached, IInv, TypeOK
  <2>2. Status' = Status
    BY <1>3, SameStatus DEF GetTimeout, IInv, TypeOK
  <2> QED BY <1>3, <2>1, <2>2 DEF GetTimeout, Meta!vars
<1>4. ASSUME NEW r \in Calls, Return(r) PROVE Meta!ReturnNil(r) \/ Meta!ReturnError(r)
  <2>1. UNCHANGED <<Fetched, Installed>>
    BY <1>4, SameRefresh DEF Return, Uncached, Cached, IInv, TypeOK
  <2>2. Status[r] # "idle" /\ Status' = [Status EXCEPT ![r] = "idle"]
    BY <1>4 DEF Return, Status, IInv, TypeOK
  <2> QED BY <1>4, <2>1, <2>2 DEF Return, Meta!ReturnError, Meta!Becomes,
             Meta!refreshVars, Meta!cacheVars
<1>5. ASSUME NEW r \in Calls, Timeout(r) PROVE Meta!ReturnError(r)
  <2>1. UNCHANGED <<Fetched, Installed>>
    BY <1>5, SameRefresh DEF Timeout, Uncached, Cached, IInv, TypeOK
  <2>2. Status[r] # "idle" /\ Status' = [Status EXCEPT ![r] = "idle"]
    BY <1>5 DEF Timeout, Status, IInv, TypeOK
  <2> QED BY <1>5, <2>1, <2>2 DEF Timeout, Meta!ReturnError, Meta!Becomes,
             Meta!refreshVars, Meta!cacheVars
<1>6. ASSUME NEW r \in Calls, LoadEpoch(r) PROVE UNCHANGED Meta!vars
  <2>1. UNCHANGED <<Fetched, Installed>>
    BY <1>6, SameRefresh DEF LoadEpoch, Uncached, Cached, IInv, TypeOK
  <2>2. Status' = Status
    BY <1>6, SameStatus DEF LoadEpoch, IInv, TypeOK
  <2> QED BY <1>6, <2>1, <2>2 DEF LoadEpoch, Meta!vars
<1>7. ASSUME NEW r \in Calls, Piggyback(r) PROVE Meta!Answer(r) \/ UNCHANGED Meta!vars
  <2>1. UNCHANGED <<Fetched, Installed>>
    BY <1>7, SameRefresh DEF Piggyback, Send, End, Uncached, Cached, IInv, TypeOK
  <2>2. CASE caller[r] = "none"
    <3>1. Status' = Status
      BY <1>7, <2>2, SameStatus DEF Piggyback, Send, End, IInv, TypeOK, Updates
    <3> QED BY <1>7, <2>1, <3>1 DEF Piggyback, Meta!vars
  <2>3. CASE caller[r] # "none"
    <3>1. epoch > began[r] /\ update[r] = "none"
      BY <1>7 DEF Piggyback, Refreshed, IInv, TypeOK, Fresh, Updates
    <3>2. Status[r] = "refreshed" /\ Status' = [Status EXCEPT ![r] = "nil"]
      BY <1>7, <2>3, <3>1 DEF Piggyback, Send, Status, IInv, TypeOK
    <3> QED BY <1>7, <2>1, <3>2 DEF Piggyback, Meta!Answer, Meta!Becomes,
               Meta!refreshVars, Meta!cacheVars
  <2> QED BY <2>2, <2>3
<1>8. ASSUME NEW r \in Calls, Lock(r) PROVE UNCHANGED Meta!vars
  <2>1. UNCHANGED <<Fetched, Installed>>
    BY <1>8, SameRefresh DEF Lock, Uncached, Cached, IInv, TypeOK
  <2>2. Status' = Status
    BY <1>8, SameStatus DEF Lock, IInv, TypeOK
  <2> QED BY <1>8, <2>1, <2>2 DEF Lock, Meta!vars
<1>9. ASSUME NEW r \in Calls, NEW a \in Addrs, FetchAnswer(r, a) PROVE Meta!Fetch
  <2>1. \A q \in Calls : ~Uncached(q) /\ ~Cached(q)
    BY <1>9, Alone DEF FetchAnswer, IInv, Uncached, Cached, Holding, Refreshing
  <2>2. Fetched = {} /\ Installed = FALSE
    BY <2>1 DEF Fetched, Installed
  <2>3. Uncached(r)' /\ \A q \in Calls \ {r} : ~Uncached(q)'
    BY <1>9, <2>1 DEF FetchAnswer, Uncached, IInv, TypeOK
  <2>4. Fetched' = {Content(version, brokers)}
    BY <1>9, <2>3 DEF FetchAnswer, Fetched, Content, IInv, TypeOK
  <2>5. Installed' = FALSE
    BY <1>9, <2>1 DEF FetchAnswer, Installed, Cached, IInv, TypeOK
  <2>6. Status' = Status
    BY <1>9, SameStatus DEF FetchAnswer
  <2> QED BY <1>9, <2>2, <2>4, <2>5, <2>6
          DEF FetchAnswer, Content, Meta!Fetch, Meta!cacheVars
<1>10. ASSUME NEW r \in Calls, NEW a \in Addrs, FetchFail(r, a) PROVE UNCHANGED Meta!vars
  <2>1. UNCHANGED <<Fetched, Installed>>
    BY <1>10, SameRefresh DEF FetchFail, Uncached, Cached, IInv, TypeOK
  <2>2. Status' = Status
    BY <1>10, SameStatus DEF FetchFail, IInv, TypeOK
  <2> QED BY <1>10, <2>1, <2>2 DEF FetchFail, Meta!vars
<1>11. ASSUME NEW r \in Calls, FetchError(r) PROVE UNCHANGED Meta!vars
  <2>1. UNCHANGED <<Fetched, Installed>>
    BY <1>11, SameRefresh DEF FetchError, Send, End, Uncached, Cached, IInv, TypeOK, Updates
  <2>2. Status' = Status
    BY <1>11, SameStatus DEF FetchError, Send, End, IInv, TypeOK, Updates
  <2> QED BY <1>11, <2>1, <2>2 DEF FetchError, Meta!vars
<1>12. ASSUME NEW r \in Calls, RefuseResponse(r) PROVE UNCHANGED Meta!vars
  <2>1. UNCHANGED <<Fetched, Installed>>
    BY <1>12, SameRefresh DEF RefuseResponse, Refused, Uncached, Cached, IInv, TypeOK
  <2>2. Status' = Status
    BY <1>12, SameStatus DEF RefuseResponse, Refused, IInv, TypeOK
  <2> QED BY <1>12, <2>1, <2>2 DEF RefuseResponse, Meta!vars
<1>13. ASSUME NEW r \in Calls, Cache(r) PROVE Meta!Install
  <2>1. Uncached(r) /\ \A q \in Calls \ {r} : ~Uncached(q) /\ ~Cached(q)
    BY <1>13, Alone DEF Cache, IInv, Uncached, Holding, Refreshing, Answered
  <2>2. Fetched = {Content(resp[r].version, resp[r].brokers)}
    BY <2>1 DEF Fetched
  <2>3. Cached(r)' /\ \A q \in Calls : ~Uncached(q)'
    BY <1>13, <2>1 DEF Cache, Refused, Uncached, Cached, IInv, TypeOK
  <2>4. Fetched' = {} /\ Installed'
    BY <2>3 DEF Fetched, Installed
  <2>5. Status' = Status
    BY <1>13, SameStatus DEF Cache
  <2> QED BY <1>13, <2>2, <2>4, <2>5
          DEF Cache, Refused, Content, Meta!Install, Meta!Usable
<1>14. ASSUME NEW r \in Calls, ReinitializeAddrs(r) PROVE UNCHANGED Meta!vars
  <2>1. UNCHANGED <<Fetched, Installed>>
    BY <1>14, SameRefresh DEF ReinitializeAddrs, Uncached, Cached, IInv, TypeOK, Responses
  <2>2. Status' = Status
    BY <1>14, SameStatus DEF ReinitializeAddrs, IInv, TypeOK, Responses
  <2> QED BY <1>14, <2>1, <2>2 DEF ReinitializeAddrs, Meta!vars
<1>15. ASSUME NEW r \in Calls, StoreEpoch(r) PROVE Meta!Refreshed
  <2>1. \A q \in Calls \ {r} : ~Uncached(q) /\ ~Cached(q)
    BY <1>15, Alone DEF StoreEpoch, IInv, Holding, Refreshing, Answered
  <2>2. Installed \/ \E c \in Fetched : ~Meta!Usable(c)
    <3>1. CASE resp[r].brokers # {}
      BY <1>15, <3>1 DEF StoreEpoch, Installed, Cached
    <3>2. CASE resp[r].brokers = {}
      <4>1. Content(resp[r].version, resp[r].brokers) \in Fetched
        BY <1>15, <3>2 DEF StoreEpoch, Fetched, Uncached
      <4> QED BY <3>2, <4>1 DEF Content, Meta!Usable
    <3> QED BY <3>1, <3>2
  <2>3. \A q \in Calls : ~Uncached(q)' /\ ~Cached(q)'
    BY <1>15, <2>1 DEF StoreEpoch, Uncached, Cached, IInv, TypeOK
  <2>4. Fetched' = {} /\ Installed' = FALSE
    BY <2>3 DEF Fetched, Installed
  <2>5. Status' \in [Calls -> Meta!Statuses]
    BY DEF Status, Meta!Statuses
  <2>6. \A q \in Calls : Status'[q] \in Meta!Told(Status[q])
    <3>1. \A q \in Calls : epoch' > began[q]
      BY <1>15 DEF StoreEpoch, IInv, TypeOK, Fresh, Refreshing, Answered
    <3>2. \A q \in Calls : update[q] = "nil" /\ caller[q] # "none" => update'[q] = "nil"
      BY <1>15 DEF StoreEpoch, Send, IInv, TypeOK
    <3> QED BY <1>15, <3>1, <3>2 DEF StoreEpoch, Status, Meta!Told
  <2> QED BY <1>15, <2>2, <2>4, <2>5, <2>6
          DEF StoreEpoch, Meta!Refreshed, Meta!cacheVars
<1>16. ASSUME NEW r \in Calls, Unlock(r) PROVE UNCHANGED Meta!vars
  <2>1. UNCHANGED <<Fetched, Installed>>
    BY <1>16, SameRefresh DEF Unlock, End, Uncached, Cached, IInv, TypeOK
  <2>2. Status' = Status
    BY <1>16, SameStatus DEF Unlock, End, IInv, TypeOK
  <2> QED BY <1>16, <2>1, <2>2 DEF Unlock, Meta!vars
<1>17. CASE ForgetEndpoint
  <2>1. UNCHANGED <<Fetched, Installed>>
    BY <1>17, SameRefresh DEF ForgetEndpoint, Uncached, Cached
  <2>2. Status' = Status
    BY <1>17, SameStatus DEF ForgetEndpoint
  <2>3. Meta!Forget
    BY <1>17, <2>1, <2>2 DEF ForgetEndpoint, Meta!Forget, Meta!refreshVars
  <2> QED BY <2>3 DEF Meta!Next
<1>18. CASE UNCHANGED vars
  <2>1. UNCHANGED <<Fetched, Installed>>
    BY <1>18, SameRefresh DEF vars, Uncached, Cached
  <2>2. Status' = Status
    BY <1>18, SameStatus DEF vars
  <2> QED BY <1>18, <2>1, <2>2 DEF vars, Meta!vars
<1> QED
  BY <1>1, <1>2, <1>3, <1>4, <1>5, <1>6, <1>7, <1>8, <1>9, <1>10, <1>11, <1>12, <1>13,
     <1>14, <1>15, <1>16, <1>17, <1>18
  DEF Next, CallerNext, GoNext, Meta!Next

(* The initial states: nothing is cached, nothing under way.               *)
LEMMA MetadataInit == Init => Meta!Init
<1> SUFFICES ASSUME Init PROVE Meta!Init
  OBVIOUS
<1>1. \A q \in Calls : ~Uncached(q) /\ ~Cached(q)
  BY DEF Init, Uncached, Cached
<1>2. Fetched = {} /\ Installed = FALSE
  BY <1>1 DEF Fetched, Installed
<1>3. Status = [r \in Calls |-> "idle"]
  BY DEF Init, Status
<1> QED BY <1>2, <1>3 DEF Init, Meta!Init, Meta!Nothing

(* RefreshMetadata, Fetch, cache and ForgetEndpoint implement what         *)
(* Metadata promises those that share a Cluster, whatever the number of    *)
(* calls, of goroutines left behind by a time-out and of refreshes.        *)
THEOREM ClusterImplementsMetadata == Spec => ImplementsMetadata
<1>1. Init => Meta!Init
  BY MetadataInit
<1>2. IInv /\ [Next]_vars => [Meta!Next]_(Meta!vars)
  BY MetadataStep
<1> QED BY Invariance, <1>1, <1>2, PTL DEF Spec, ImplementsMetadata, Meta!Spec
=============================================================================
