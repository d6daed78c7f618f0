------------------------- MODULE MetadataCacheProofs -------------------------
(***************************************************************************)
(* Proofs about MetadataCache, for any threads, caches, names and clients. *)
(* That brokers share a Cluster rests on the lock of the cache, which is   *)
(* held for all of NewCluster: an entry that was found missing still is    *)
(* when it is filled.  That the pools follow a refresh rests on the lock   *)
(* of the pool cache, held while reinitializeAddrs goes through them.      *)
(***************************************************************************)
EXTENDS MetadataCache, TLAPS

Creating == {"connect", "wait"}
Served == {"addrs", "pool", "done"}

(* The cache a call uses is chosen first and for good.                     *)
Chosen ==
    \A t \in Threads :
        /\ pc[t] # "start" => cache[t] \in Caches
        /\ cluster[t] # NoCluster <=> pc[t] \in Served
        /\ pc[t] \in {"start", "get"} => refresh[t] = "none"

(* The lock of a cache excludes: it is held for all of NewCluster.         *)
Locked ==
    \A t \in Threads, k \in Caches :
        lock[k] = t <=> pc[t] \in Creating /\ cache[t] = k

(* An entry is of its name, and is missing while NewCluster makes it.      *)
Entries ==
    /\ \A k \in Caches, n \in Names : metadataMap[k][n] # NoCluster =>
          name[metadataMap[k][n]] = n
    /\ \A t \in Threads : pc[t] \in Creating => Entry(t) = NoCluster

(* While reinitializeAddrs is under way every pool that it is past has the *)
(* new addresses.                                                          *)
Follow ==
    \A k \in Threads : refresh[k] = "reinit" =>
        \A p \in Pools \ left[k] : pools[k][p] \in {NoPool, fetched[k]}

IInv == TypeOK /\ Chosen /\ Locked /\ Entries /\ Shared /\ Follow

-----------------------------------------------------------------------------
(* The initial state.                                                      *)
LEMMA Initially == Init => IInv
<1> SUFFICES ASSUME Init PROVE IInv
  OBVIOUS
<1> USE MetadataCacheAssumption DEF Init
<1>1. TypeOK
  BY DEF TypeOK, Caches, Versions, Pools
<1>2. Chosen /\ Locked /\ Follow
  BY DEF Chosen, Locked, Follow, Served, Creating
<1>3. Entries /\ Shared
  BY DEF Entries, Shared, Creating
<1> QED
  BY <1>1, <1>2, <1>3 DEF IInv

(* Every step keeps the types.                                             *)
LEMMA TypeStep ==
    ASSUME TypeOK, Chosen, [Next]_vars
    PROVE  TypeOK'
<1> USE MetadataCacheAssumption DEF cacheVars, clusterVars, argVars, callVars
<1>1. ASSUME Change PROVE TypeOK'
  <2>1. kafka' \in Versions
    BY <1>1 DEF Change, TypeOK, Versions
  <2> QED
    BY <1>1, <2>1 DEF Change, TypeOK
<1>2. ASSUME NEW g \in Globals, InitializeMetadataCache(g) PROVE TypeOK'
  BY <1>2 DEF InitializeMetadataCache, TypeOK
<1>3. ASSUME uninitializeMetadataCache PROVE TypeOK'
  BY <1>3 DEF uninitializeMetadataCache, TypeOK
<1>4. ASSUME NEW t \in Threads, getMetadataCache(t) PROVE TypeOK'
  <2>1. cache' \in [Threads -> {NoCache} \cup Caches]
    BY <1>4 DEF getMetadataCache, TypeOK, Caches
  <2> QED
    BY <1>4, <2>1 DEF getMetadataCache, TypeOK
<1>5. ASSUME NEW t \in Threads, Found(t) PROVE TypeOK'
  <2>1. Entry(t) \in Threads
    BY <1>5 DEF Found, Entry, TypeOK, Chosen
  <2> QED
    BY <1>5, <2>1 DEF Found, TypeOK
<1>6. ASSUME NEW t \in Threads, NewCluster(t) PROVE TypeOK'
  <2>1. pools' \in [Threads -> [Pools -> {NoPool} \cup 0..MaxVersion]]
    <3>1. MetadataClient \in Pools /\ 0 \in {NoPool} \cup 0..MaxVersion
      BY DEF Pools
    <3> QED
      BY <1>6, <3>1 DEF NewCluster, TypeOK
  <2>2. lock' \in [Caches -> {NoThread} \cup Threads]
    BY <1>6 DEF NewCluster, TypeOK
  <2> QED
    BY <1>6, <2>1, <2>2 DEF NewCluster, TypeOK
<1>7. ASSUME NEW t \in Threads, Attempt(t) PROVE TypeOK'
  <2>1. try' \in [Threads -> 0..DialRetryLimit]
    BY <1>7 DEF Attempt, MoreAttempts, TypeOK
  <2> QED
    BY <1>7, <2>1 DEF Attempt, TypeOK
<1>8. ASSUME NEW t \in Threads, AttemptFails(t) PROVE TypeOK'
  BY <1>8 DEF AttemptFails, TypeOK
<1>9. ASSUME NEW t \in Threads, Created(t) PROVE TypeOK'
  <2>1. metadataMap' \in [Caches -> [Names -> {NoCluster} \cup Threads]]
    <3>1. cache[t] \in Caches /\ name[t] \in Names /\ t \in {NoCluster} \cup Threads
      BY <1>9 DEF Created, TypeOK, Chosen
    <3> QED
      BY <1>9, <3>1 DEF Created, TypeOK
  <2>2. lock' \in [Caches -> {NoThread} \cup Threads]
    BY <1>9 DEF Created, TypeOK
  <2>3. try' \in [Threads -> 0..DialRetryLimit]
    BY <1>9 DEF Created, TypeOK
  <2> QED
    BY <1>9, <2>1, <2>2, <2>3 DEF Created, TypeOK
<1>10. ASSUME NEW t \in Threads, NewClusterFails(t) PROVE TypeOK'
  <2>1. lock' \in [Caches -> {NoThread} \cup Threads]
    BY <1>10 DEF NewClusterFails, Unlocks, TypeOK
  <2>2. try' \in [Threads -> 0..DialRetryLimit]
    BY <1>10 DEF NewClusterFails, TypeOK
  <2> QED
    BY <1>10, <2>1, <2>2 DEF NewClusterFails, TypeOK
<1>11. ASSUME NEW t \in Threads, connectionPoolForClient(t) PROVE TypeOK'
  <2>1. cluster[t] \in Threads /\ MetadataClient \in Pools
    BY <1>11 DEF connectionPoolForClient, TypeOK, Chosen, Served, Pools
  <2>2. pools[cluster[t]][MetadataClient] \in {NoPool} \cup 0..MaxVersion
    BY <2>1 DEF TypeOK
  <2> QED
    BY <1>11, <2>2 DEF connectionPoolForClient, TypeOK
<1>12. ASSUME NEW t \in Threads, getOrCreateConnectionPool(t) PROVE TypeOK'
  <2>1. cluster[t] \in Threads /\ client[t] \in Pools
    BY <1>12 DEF getOrCreateConnectionPool, TypeOK, Chosen, Served, Pools
  <2>2. pools' \in [Threads -> [Pools -> {NoPool} \cup 0..MaxVersion]]
    BY <1>12, <2>1 DEF getOrCreateConnectionPool, TypeOK
  <2> QED
    BY <1>12, <2>2 DEF getOrCreateConnectionPool, TypeOK
<1>13. ASSUME NEW t \in Threads, Fetch(t) PROVE TypeOK'
  <2>1. fetched' \in [Threads -> 0..MaxVersion]
    BY <1>13 DEF Fetch, TypeOK, Versions
  <2> QED
    BY <1>13, <2>1 DEF Fetch, TypeOK
<1>14. ASSUME NEW t \in Threads, Cache(t) PROVE TypeOK'
  BY <1>14 DEF Cache, Known, TypeOK
<1>15. ASSUME NEW t \in Threads, Refused(t) PROVE TypeOK'
  <2>1. fetched' \in [Threads -> 0..MaxVersion]
    BY <1>15 DEF Refused, TypeOK
  <2>2. told' \subseteq Threads
    BY <1>15 DEF Refused, Ended, TypeOK
  <2> QED
    BY <1>15, <2>1, <2>2 DEF Refused, TypeOK
<1>16. ASSUME NEW t \in Threads, Refreshed(t) PROVE TypeOK'
  <2>1. fetched' \in [Threads -> 0..MaxVersion]
    BY <1>16 DEF Refreshed, TypeOK
  <2>2. told' \subseteq Threads
    BY <1>16 DEF Refreshed, Ended, TypeOK
  <2> QED
    BY <1>16, <2>1, <2>2 DEF Refreshed, TypeOK
<1>17. ASSUME NEW t \in Threads, NEW p \in Pools, InitializeAddrs(t, p) PROVE TypeOK'
  BY <1>17 DEF InitializeAddrs, TypeOK
<1>18. ASSUME UNCHANGED vars PROVE TypeOK'
  BY <1>18 DEF vars, TypeOK
<1> QED
  BY <1>1, <1>2, <1>3, <1>4, <1>5, <1>6, <1>7, <1>8, <1>9,
     <1>10, <1>11, <1>12, <1>13, <1>14, <1>15, <1>16, <1>17, <1>18
  DEF Next, CallNext, RefreshNext

(* A call goes through its stages in order.                                *)
LEMMA ChosenStep ==
    ASSUME TypeOK, Chosen, [Next]_vars
    PROVE  Chosen'
<1> USE MetadataCacheAssumption DEF cacheVars, clusterVars, argVars, callVars
<1>1. ASSUME Change PROVE Chosen'
  BY <1>1 DEF Change, TypeOK, Chosen, Served, Entry, Caches
<1>2. ASSUME NEW g \in Globals, InitializeMetadataCache(g) PROVE Chosen'
  BY <1>2 DEF InitializeMetadataCache, TypeOK, Chosen, Served, Entry, Caches
<1>3. ASSUME uninitializeMetadataCache PROVE Chosen'
  BY <1>3 DEF uninitializeMetadataCache, TypeOK, Chosen, Served, Entry, Caches
<1>4. ASSUME NEW t \in Threads, getMetadataCache(t) PROVE Chosen'
  BY <1>4 DEF getMetadataCache, TypeOK, Chosen, Served, Entry, Caches
<1>5. ASSUME NEW t \in Threads, Found(t) PROVE Chosen'
  BY <1>5 DEF Found, Unlocked, TypeOK, Chosen, Served, Entry, Caches
<1>6. ASSUME NEW t \in Threads, NewCluster(t) PROVE Chosen'
  BY <1>6 DEF NewCluster, Unlocked, TypeOK, Chosen, Served, Entry, Caches
<1>7. ASSUME NEW t \in Threads, Attempt(t) PROVE Chosen'
  BY <1>7 DEF Attempt, MoreAttempts, TypeOK, Chosen, Served, Entry, Caches
<1>8. ASSUME NEW t \in Threads, AttemptFails(t) PROVE Chosen'
  BY <1>8 DEF AttemptFails, TypeOK, Chosen, Served, Entry, Caches
<1>9. ASSUME NEW t \in Threads, Created(t) PROVE Chosen'
  BY <1>9 DEF Created, TypeOK, Chosen, Served, Entry, Caches
<1>10. ASSUME NEW t \in Threads, NewClusterFails(t) PROVE Chosen'
  BY <1>10 DEF NewClusterFails, Unlocks, TypeOK, Chosen, Served, Entry, Caches
<1>11. ASSUME NEW t \in Threads, connectionPoolForClient(t) PROVE Chosen'
  BY <1>11 DEF connectionPoolForClient, TypeOK, Chosen, Served, Entry, Caches
<1>12. ASSUME NEW t \in Threads, getOrCreateConnectionPool(t) PROVE Chosen'
  BY <1>12 DEF getOrCreateConnectionPool, PoolsUnlocked, TypeOK, Chosen, Served, Entry, Caches
<1>13. ASSUME NEW t \in Threads, Fetch(t) PROVE Chosen'
  BY <1>13 DEF Fetch, TypeOK, Chosen, Served, Entry, Caches
<1>14. ASSUME NEW t \in Threads, Cache(t) PROVE Chosen'
  BY <1>14 DEF Cache, TypeOK, Chosen, Served, Entry, Caches
<1>15. ASSUME NEW t \in Threads, Refused(t) PROVE Chosen'
  BY <1>15 DEF Refused, Ended, TypeOK, Chosen, Served, Entry, Caches
<1>16. ASSUME NEW t \in Threads, Refreshed(t) PROVE Chosen'
  BY <1>16 DEF Refreshed, Ended, TypeOK, Chosen, Served, Entry, Caches
<1>17. ASSUME NEW t \in Threads, NEW p \in Pools, InitializeAddrs(t, p) PROVE Chosen'
  BY <1>17 DEF InitializeAddrs, TypeOK, Chosen, Served, Entry, Caches
<1>18. ASSUME UNCHANGED vars PROVE Chosen'
  BY <1>18 DEF vars, TypeOK, Chosen, Served, Entry, Caches
<1> QED
  BY <1>1, <1>2, <1>3, <1>4, <1>5, <1>6, <1>7, <1>8, <1>9,
     <1>10, <1>11, <1>12, <1>13, <1>14, <1>15, <1>16, <1>17, <1>18
  DEF Next, CallNext, RefreshNext

(* A lock is taken when it is free, and given up by its holder.            *)
LEMMA LockedStep ==
    ASSUME TypeOK, Chosen, Locked, [Next]_vars
    PROVE  Locked'
<1> USE MetadataCacheAssumption DEF cacheVars, clusterVars, argVars, callVars
<1>1. ASSUME Change PROVE Locked'
  BY <1>1 DEF Change, TypeOK, Chosen, Locked, Creating, Caches
<1>2. ASSUME NEW g \in Globals, InitializeMetadataCache(g) PROVE Locked'
  BY <1>2 DEF InitializeMetadataCache, TypeOK, Chosen, Locked, Creating, Caches
<1>3. ASSUME uninitializeMetadataCache PROVE Locked'
  BY <1>3 DEF uninitializeMetadataCache, TypeOK, Chosen, Locked, Creating, Caches
<1>4. ASSUME NEW t \in Threads, getMetadataCache(t) PROVE Locked'
  BY <1>4 DEF getMetadataCache, TypeOK, Chosen, Locked, Creating, Caches
<1>5. ASSUME NEW t \in Threads, Found(t) PROVE Locked'
  BY <1>5 DEF Found, Unlocked, TypeOK, Chosen, Locked, Creating, Caches
<1>6. ASSUME NEW t \in Threads, NewCluster(t) PROVE Locked'
  BY <1>6 DEF NewCluster, Unlocked, TypeOK, Chosen, Locked, Creating, Caches
<1>7. ASSUME NEW t \in Threads, Attempt(t) PROVE Locked'
  BY <1>7 DEF Attempt, MoreAttempts, TypeOK, Chosen, Locked, Creating, Caches
<1>8. ASSUME NEW t \in Threads, AttemptFails(t) PROVE Locked'
  BY <1>8 DEF AttemptFails, TypeOK, Chosen, Locked, Creating, Caches
<1>9. ASSUME NEW t \in Threads, Created(t) PROVE Locked'
  BY <1>9 DEF Created, TypeOK, Chosen, Locked, Creating, Caches
<1>10. ASSUME NEW t \in Threads, NewClusterFails(t) PROVE Locked'
  BY <1>10 DEF NewClusterFails, Unlocks, TypeOK, Chosen, Locked, Creating, Caches
<1>11. ASSUME NEW t \in Threads, connectionPoolForClient(t) PROVE Locked'
  BY <1>11 DEF connectionPoolForClient, TypeOK, Chosen, Locked, Creating, Caches
<1>12. ASSUME NEW t \in Threads, getOrCreateConnectionPool(t) PROVE Locked'
  BY <1>12 DEF getOrCreateConnectionPool, PoolsUnlocked, TypeOK, Chosen, Locked, Creating, Caches
<1>13. ASSUME NEW t \in Threads, Fetch(t) PROVE Locked'
  BY <1>13 DEF Fetch, TypeOK, Chosen, Locked, Creating, Caches
<1>14. ASSUME NEW t \in Threads, Cache(t) PROVE Locked'
  BY <1>14 DEF Cache, TypeOK, Chosen, Locked, Creating, Caches
<1>15. ASSUME NEW t \in Threads, Refused(t) PROVE Locked'
  BY <1>15 DEF Refused, Ended, TypeOK, Chosen, Locked, Creating, Caches
<1>16. ASSUME NEW t \in Threads, Refreshed(t) PROVE Locked'
  BY <1>16 DEF Refreshed, Ended, TypeOK, Chosen, Locked, Creating, Caches
<1>17. ASSUME NEW t \in Threads, NEW p \in Pools, InitializeAddrs(t, p) PROVE Locked'
  BY <1>17 DEF InitializeAddrs, TypeOK, Chosen, Locked, Creating, Caches
<1>18. ASSUME UNCHANGED vars PROVE Locked'
  BY <1>18 DEF vars, TypeOK, Chosen, Locked, Creating, Caches
<1> QED
  BY <1>1, <1>2, <1>3, <1>4, <1>5, <1>6, <1>7, <1>8, <1>9,
     <1>10, <1>11, <1>12, <1>13, <1>14, <1>15, <1>16, <1>17, <1>18
  DEF Next, CallNext, RefreshNext

(* An entry is filled by the holder of the lock.                           *)
LEMMA EntriesStep ==
    ASSUME TypeOK, Chosen, Locked, Entries, [Next]_vars
    PROVE  Entries'
<1> USE MetadataCacheAssumption DEF cacheVars, clusterVars, argVars, callVars
<1>1. ASSUME Change PROVE Entries'
  BY <1>1 DEF Change, TypeOK, Chosen, Locked, Entries, Entry, Creating
<1>2. ASSUME NEW g \in Globals, InitializeMetadataCache(g) PROVE Entries'
  BY <1>2 DEF InitializeMetadataCache, TypeOK, Chosen, Locked, Entries, Entry, Creating
<1>3. ASSUME uninitializeMetadataCache PROVE Entries'
  BY <1>3 DEF uninitializeMetadataCache, TypeOK, Chosen, Locked, Entries, Entry, Creating
<1>4. ASSUME NEW t \in Threads, getMetadataCache(t) PROVE Entries'
  BY <1>4 DEF getMetadataCache, TypeOK, Chosen, Locked, Entries, Entry, Creating
<1>5. ASSUME NEW t \in Threads, Found(t) PROVE Entries'
  BY <1>5 DEF Found, Unlocked, TypeOK, Chosen, Locked, Entries, Entry, Creating
<1>6. ASSUME NEW t \in Threads, NewCluster(t) PROVE Entries'
  BY <1>6 DEF NewCluster, Unlocked, TypeOK, Chosen, Locked, Entries, Entry, Creating
<1>7. ASSUME NEW t \in Threads, Attempt(t) PROVE Entries'
  BY <1>7 DEF Attempt, MoreAttempts, TypeOK, Chosen, Locked, Entries, Entry, Creating
<1>8. ASSUME NEW t \in Threads, AttemptFails(t) PROVE Entries'
  BY <1>8 DEF AttemptFails, TypeOK, Chosen, Locked, Entries, Entry, Creating
<1>9. ASSUME NEW t \in Threads, Created(t) PROVE Entries'
  BY <1>9 DEF Created, TypeOK, Chosen, Locked, Entries, Entry, Creating
<1>10. ASSUME NEW t \in Threads, NewClusterFails(t) PROVE Entries'
  BY <1>10 DEF NewClusterFails, Unlocks, TypeOK, Chosen, Locked, Entries, Entry, Creating
<1>11. ASSUME NEW t \in Threads, connectionPoolForClient(t) PROVE Entries'
  BY <1>11 DEF connectionPoolForClient, TypeOK, Chosen, Locked, Entries, Entry, Creating
<1>12. ASSUME NEW t \in Threads, getOrCreateConnectionPool(t) PROVE Entries'
  BY <1>12 DEF getOrCreateConnectionPool, PoolsUnlocked, TypeOK, Chosen, Locked, Entries, Entry, Creating
<1>13. ASSUME NEW t \in Threads, Fetch(t) PROVE Entries'
  BY <1>13 DEF Fetch, TypeOK, Chosen, Locked, Entries, Entry, Creating
<1>14. ASSUME NEW t \in Threads, Cache(t) PROVE Entries'
  BY <1>14 DEF Cache, TypeOK, Chosen, Locked, Entries, Entry, Creating
<1>15. ASSUME NEW t \in Threads, Refused(t) PROVE Entries'
  BY <1>15 DEF Refused, Ended, TypeOK, Chosen, Locked, Entries, Entry, Creating
<1>16. ASSUME NEW t \in Threads, Refreshed(t) PROVE Entries'
  BY <1>16 DEF Refreshed, Ended, TypeOK, Chosen, Locked, Entries, Entry, Creating
<1>17. ASSUME NEW t \in Threads, NEW p \in Pools, InitializeAddrs(t, p) PROVE Entries'
  BY <1>17 DEF InitializeAddrs, TypeOK, Chosen, Locked, Entries, Entry, Creating
<1>18. ASSUME UNCHANGED vars PROVE Entries'
  BY <1>18 DEF vars, TypeOK, Chosen, Locked, Entries, Entry, Creating
<1> QED
  BY <1>1, <1>2, <1>3, <1>4, <1>5, <1>6, <1>7, <1>8, <1>9,
     <1>10, <1>11, <1>12, <1>13, <1>14, <1>15, <1>16, <1>17, <1>18
  DEF Next, CallNext, RefreshNext

(* An entry that is there is neither removed nor changed.                  *)
LEMMA SharedStep ==
    ASSUME TypeOK, Chosen, Entries, Shared, [Next]_vars
    PROVE  Shared'
<1> USE MetadataCacheAssumption DEF cacheVars, clusterVars, argVars, callVars
<1>1. ASSUME Change PROVE Shared'
  BY <1>1 DEF Change, TypeOK, Chosen, Entries, Shared, Entry, Creating, Served
<1>2. ASSUME NEW g \in Globals, InitializeMetadataCache(g) PROVE Shared'
  BY <1>2 DEF InitializeMetadataCache, TypeOK, Chosen, Entries, Shared, Entry, Creating, Served
<1>3. ASSUME uninitializeMetadataCache PROVE Shared'
  BY <1>3 DEF uninitializeMetadataCache, TypeOK, Chosen, Entries, Shared, Entry, Creating, Served
<1>4. ASSUME NEW t \in Threads, getMetadataCache(t) PROVE Shared'
  BY <1>4 DEF getMetadataCache, TypeOK, Chosen, Entries, Shared, Entry, Creating, Served
<1>5. ASSUME NEW t \in Threads, Found(t) PROVE Shared'
  BY <1>5 DEF Found, Unlocked, TypeOK, Chosen, Entries, Shared, Entry, Creating, Served
<1>6. ASSUME NEW t \in Threads, NewCluster(t) PROVE Shared'
  BY <1>6 DEF NewCluster, Unlocked, TypeOK, Chosen, Entries, Shared, Entry, Creating, Served
<1>7. ASSUME NEW t \in Threads, Attempt(t) PROVE Shared'
  BY <1>7 DEF Attempt, MoreAttempts, TypeOK, Chosen, Entries, Shared, Entry, Creating, Served
<1>8. ASSUME NEW t \in Threads, AttemptFails(t) PROVE Shared'
  BY <1>8 DEF AttemptFails, TypeOK, Chosen, Entries, Shared, Entry, Creating, Served
<1>9. ASSUME NEW t \in Threads, Created(t) PROVE Shared'
  BY <1>9 DEF Created, TypeOK, Chosen, Entries, Shared, Entry, Creating, Served
<1>10. ASSUME NEW t \in Threads, NewClusterFails(t) PROVE Shared'
  BY <1>10 DEF NewClusterFails, Unlocks, TypeOK, Chosen, Entries, Shared, Entry, Creating, Served
<1>11. ASSUME NEW t \in Threads, connectionPoolForClient(t) PROVE Shared'
  BY <1>11 DEF connectionPoolForClient, TypeOK, Chosen, Entries, Shared, Entry, Creating, Served
<1>12. ASSUME NEW t \in Threads, getOrCreateConnectionPool(t) PROVE Shared'
  BY <1>12 DEF getOrCreateConnectionPool, PoolsUnlocked, TypeOK, Chosen, Entries, Shared, Entry, Creating, Served
<1>13. ASSUME NEW t \in Threads, Fetch(t) PROVE Shared'
  BY <1>13 DEF Fetch, TypeOK, Chosen, Entries, Shared, Entry, Creating, Served
<1>14. ASSUME NEW t \in Threads, Cache(t) PROVE Shared'
  BY <1>14 DEF Cache, TypeOK, Chosen, Entries, Shared, Entry, Creating, Served
<1>15. ASSUME NEW t \in Threads, Refused(t) PROVE Shared'
  BY <1>15 DEF Refused, Ended, TypeOK, Chosen, Entries, Shared, Entry, Creating, Served
<1>16. ASSUME NEW t \in Threads, Refreshed(t) PROVE Shared'
  BY <1>16 DEF Refreshed, Ended, TypeOK, Chosen, Entries, Shared, Entry, Creating, Served
<1>17. ASSUME NEW t \in Threads, NEW p \in Pools, InitializeAddrs(t, p) PROVE Shared'
  BY <1>17 DEF InitializeAddrs, TypeOK, Chosen, Entries, Shared, Entry, Creating, Served
<1>18. ASSUME UNCHANGED vars PROVE Shared'
  BY <1>18 DEF vars, TypeOK, Chosen, Entries, Shared, Entry, Creating, Served
<1> QED
  BY <1>1, <1>2, <1>3, <1>4, <1>5, <1>6, <1>7, <1>8, <1>9,
     <1>10, <1>11, <1>12, <1>13, <1>14, <1>15, <1>16, <1>17, <1>18
  DEF Next, CallNext, RefreshNext

(* No pool is made or changed behind the back of reinitializeAddrs.        *)
LEMMA FollowStep ==
    ASSUME TypeOK, Chosen, Follow, [Next]_vars
    PROVE  Follow'
<1> USE MetadataCacheAssumption DEF cacheVars, clusterVars, argVars, callVars
<1>1. ASSUME Change PROVE Follow'
  BY <1>1 DEF Change, TypeOK, Chosen, Follow, Served
<1>2. ASSUME NEW g \in Globals, InitializeMetadataCache(g) PROVE Follow'
  BY <1>2 DEF InitializeMetadataCache, TypeOK, Chosen, Follow, Served
<1>3. ASSUME uninitializeMetadataCache PROVE Follow'
  BY <1>3 DEF uninitializeMetadataCache, TypeOK, Chosen, Follow, Served
<1>4. ASSUME NEW t \in Threads, getMetadataCache(t) PROVE Follow'
  BY <1>4 DEF getMetadataCache, TypeOK, Chosen, Follow, Served
<1>5. ASSUME NEW t \in Threads, Found(t) PROVE Follow'
  BY <1>5 DEF Found, Unlocked, TypeOK, Chosen, Follow, Served
<1>6. ASSUME NEW t \in Threads, NewCluster(t) PROVE Follow'
  BY <1>6 DEF NewCluster, Unlocked, TypeOK, Chosen, Follow, Served
<1>7. ASSUME NEW t \in Threads, Attempt(t) PROVE Follow'
  BY <1>7 DEF Attempt, MoreAttempts, TypeOK, Chosen, Follow, Served
<1>8. ASSUME NEW t \in Threads, AttemptFails(t) PROVE Follow'
  BY <1>8 DEF AttemptFails, TypeOK, Chosen, Follow, Served
<1>9. ASSUME NEW t \in Threads, Created(t) PROVE Follow'
  BY <1>9 DEF Created, TypeOK, Chosen, Follow, Served
<1>10. ASSUME NEW t \in Threads, NewClusterFails(t) PROVE Follow'
  BY <1>10 DEF NewClusterFails, Unlocks, TypeOK, Chosen, Follow, Served
<1>11. ASSUME NEW t \in Threads, connectionPoolForClient(t) PROVE Follow'
  BY <1>11 DEF connectionPoolForClient, TypeOK, Chosen, Follow, Served
<1>12. ASSUME NEW t \in Threads, getOrCreateConnectionPool(t) PROVE Follow'
  BY <1>12 DEF getOrCreateConnectionPool, PoolsUnlocked, TypeOK, Chosen, Follow, Served
<1>13. ASSUME NEW t \in Threads, Fetch(t) PROVE Follow'
  BY <1>13 DEF Fetch, TypeOK, Chosen, Follow, Served
<1>14. ASSUME NEW t \in Threads, Cache(t) PROVE Follow'
  BY <1>14 DEF Cache, Known, TypeOK, Chosen, Follow, Served
<1>15. ASSUME NEW t \in Threads, Refused(t) PROVE Follow'
  BY <1>15 DEF Refused, Ended, TypeOK, Chosen, Follow, Served
<1>16. ASSUME NEW t \in Threads, Refreshed(t) PROVE Follow'
  BY <1>16 DEF Refreshed, Ended, TypeOK, Chosen, Follow, Served
<1>17. ASSUME NEW t \in Threads, NEW p \in Pools, InitializeAddrs(t, p) PROVE Follow'
  BY <1>17 DEF InitializeAddrs, TypeOK, Chosen, Follow, Served
<1>18. ASSUME UNCHANGED vars PROVE Follow'
  BY <1>18 DEF vars, TypeOK, Chosen, Follow, Served
<1> QED
  BY <1>1, <1>2, <1>3, <1>4, <1>5, <1>6, <1>7, <1>8, <1>9,
     <1>10, <1>11, <1>12, <1>13, <1>14, <1>15, <1>16, <1>17, <1>18
  DEF Next, CallNext, RefreshNext

(* The invariant holds throughout.                                         *)
LEMMA Invariance == Spec => []IInv
<1>1. IInv /\ [Next]_vars => IInv'
  BY TypeStep, ChosenStep, LockedStep, EntriesStep, SharedStep, FollowStep DEF IInv
<1> QED
  BY <1>1, Initially, PTL DEF Spec

-----------------------------------------------------------------------------
(* Type correctness.                                                       *)
THEOREM CacheTypeOK == Spec => []TypeOK
BY Invariance, PTL DEF IInv

(* Brokers for one Kafka cluster made through one cache share the Cluster  *)
(* that the cache has, however NewBroker calls overlap and fail.           *)
THEOREM CacheShared == Spec => []Shared
BY Invariance, PTL DEF IInv

(* A refresh that ends leaves no pool of its Cluster with other addresses  *)
(* than it fetched.                                                        *)
THEOREM CachePoolsFollow == Spec => PoolsFollow
<1> DEFINE Complete ==
      \A k \in Threads : refresh[k] = "reinit" /\ refresh'[k] = "idle" =>
          \A p \in Pools : pools[k][p] \in {NoPool, fetched[k]}
<1>1. ASSUME IInv, Next, NEW k \in Threads, refresh[k] = "reinit", refresh'[k] = "idle"
      PROVE  left[k] = {}
  <2> USE DEF cacheVars, clusterVars, argVars, callVars, IInv, TypeOK
  <2>1. ASSUME NEW t \in Threads, NewCluster(t) PROVE left[k] = {}
    BY <1>1, <2>1 DEF NewCluster, Chosen
  <2>2. ASSUME NEW t \in Threads, CallNext(t), ~NewCluster(t) PROVE refresh' = refresh
    BY <2>2 DEF CallNext, getMetadataCache, Found, Attempt, AttemptFails, Created,
         NewClusterFails, connectionPoolForClient, getOrCreateConnectionPool
  <2>3. ASSUME NEW t \in Threads, RefreshNext(t) PROVE left[k] = {}
    BY <1>1, <2>3 DEF RefreshNext, Fetch, Cache, Refused, Refreshed, InitializeAddrs
  <2>4. ASSUME Change \/ uninitializeMetadataCache \/ \E g \in Globals : InitializeMetadataCache(g)
        PROVE  refresh' = refresh
    BY <2>4 DEF Change, uninitializeMetadataCache, InitializeMetadataCache
  <2> QED
    BY <1>1, <2>1, <2>2, <2>3, <2>4 DEF Next
<1>2. IInv /\ [Next]_vars => [Complete]_vars
  BY <1>1 DEF IInv, Follow
<1> QED
  BY <1>2, Invariance, PTL DEF Spec, PoolsFollow
=============================================================================
