---------------------------- MODULE RedisProofs ----------------------------
(***************************************************************************)
(* Proofs about what the services keep in Redis: the rate limiter          *)
(* (RateLimiter) implements an atomic token bucket and lets at most twice  *)
(* its amount through in a period; no value of a lazy cache (LazyCache) is *)
(* older than its lifetime and the time its calculation took; and one-time *)
(* login tokens, and the nonces in Postgres (LoginTokens), are used once,  *)
(* for every lifetime, as long as the extra minute of the Redis key covers *)
(* the servers' clock differences and stalls.  MCRedis, which the run      *)
(* checks, makes each a part of its own; none refers to the variables of   *)
(* another.                                                                *)
(***************************************************************************)
EXTENDS MCRedis, TLAPS

\* The variables' types.
CacheType ==
    /\ cacheNow \in 0..CacheTime /\ data \in 0..cacheNow
    /\ replacedAt \in [0..CacheTime -> Nat]
    /\ cache \in [value : 0..CacheTime, expires : Nat]
    /\ loaderPc \in [Loader -> {"idle", "calc", "set"}]
    /\ value \in [Loader -> 0..CacheTime] /\ since \in [Loader -> Nat]
    /\ staleness \in Nat

\* A value that was read or stored is the data, or was until replacedAt.
LoadersFresh ==
    \A l \in Loader : loaderPc[l] = "set" =>
        /\ since[l] <= cacheNow /\ cacheNow <= since[l] + MaxCalc
        /\ value[l] <= data
        /\ value[l] # data => since[l] <= replacedAt[value[l]] /\ replacedAt[value[l]] <= cacheNow

\* What the cache holds expires within TTL, and is the data or was until replacedAt,
\* no longer ago than the calculation and the entry can have taken.
CacheFresh ==
    cache # Cache!Empty =>
        /\ cacheNow < cache.expires /\ cache.expires <= cacheNow + TTL
        /\ cache.value <= data
        /\ cache.value # data =>
              /\ cache.expires <= replacedAt[cache.value] + TTL + MaxCalc
              /\ replacedAt[cache.value] <= cacheNow

\* The inductive invariant of LazyCache.
CacheInv == CacheType /\ LoadersFresh /\ CacheFresh /\ Cache!StalenessBound

\* A value that Load returns was the data less than TTL + MaxCalc ago, however the
\* loaders, which take no lock, overtake each other between calc and SET.
THEOREM ValuesAreFresh ==
    ASSUME Cache!LazyAssumption
    PROVE  Cache!Spec => []StalenessBound
<1> USE DEF Cache!LazyAssumption
<1>1. Cache!Init => CacheInv
  BY DEF Cache!Init, CacheInv, CacheType, LoadersFresh, CacheFresh, Cache!Empty, Cache!StalenessBound
<1>2. CacheInv /\ [Cache!Next]_Cache!vars => CacheInv'
  <2> SUFFICES ASSUME CacheInv, [Cache!Next]_Cache!vars PROVE CacheInv'
    OBVIOUS
  <2> USE DEF CacheInv
  <2>1. CASE Cache!Tick
    <3>1. CacheType'
      <4>1. cacheNow' \in 0..CacheTime /\ data' \in 0..cacheNow'
        BY <2>1 DEF Cache!Tick, CacheType
      <4>2. cache' \in [value : 0..CacheTime, expires : Nat]
        BY <2>1 DEF Cache!Tick, CacheType, Cache!Empty
      <4>3. UNCHANGED <<replacedAt, loaderPc, value, since, staleness>>
        BY <2>1 DEF Cache!Tick
      <4> QED
        BY <4>1, <4>2, <4>3 DEF CacheType
    <3>2. LoadersFresh'
      BY <2>1 DEF Cache!Tick, CacheType, LoadersFresh
    <3>3. CacheFresh'
      <4>1. CASE cache.expires <= cacheNow'
        BY <2>1, <4>1 DEF Cache!Tick, CacheFresh
      <4>2. CASE ~(cache.expires <= cacheNow')
        <5>1. cache' = cache /\ cacheNow' < cache.expires /\ cacheNow < cache.expires
          BY <2>1, <4>2 DEF Cache!Tick, CacheType
        <5> QED
          BY <2>1, <5>1 DEF Cache!Tick, CacheType, CacheFresh
      <4> QED
        BY <4>1, <4>2
    <3>4. Cache!StalenessBound'
      BY <2>1 DEF Cache!Tick, Cache!StalenessBound
    <3> QED
      BY <3>1, <3>2, <3>3, <3>4
  <2>2. CASE Cache!Change
    <3>1. /\ data' = cacheNow /\ data # cacheNow
          /\ replacedAt' = [replacedAt EXCEPT ![data] = cacheNow]
          /\ UNCHANGED <<cacheNow, cache, loaderPc, value, since, staleness>>
      BY <2>2 DEF Cache!Change
    <3>2. CacheType'
      BY <3>1 DEF CacheType
    <3>3. /\ replacedAt'[data] = cacheNow
          /\ \A v \in 0..CacheTime : v # data => replacedAt'[v] = replacedAt[v]
      BY <3>1 DEF CacheType
    <3>4. LoadersFresh'
      BY <3>1, <3>3 DEF CacheType, LoadersFresh
    <3>5. CacheFresh'
      BY <3>1, <3>3 DEF CacheType, CacheFresh, Cache!Empty
    <3>6. Cache!StalenessBound'
      BY <3>1 DEF Cache!StalenessBound
    <3> QED
      BY <3>2, <3>4, <3>5, <3>6
  <2>3. ASSUME NEW l \in Loader, Cache!Hit(l) PROVE CacheInv'
    <3>1. Cache!Age(cache.value) \in Nat /\ Cache!Age(cache.value) < TTL + MaxCalc
      <4>1. CASE cache.value = data
        BY <4>1 DEF Cache!Age
      <4>2. CASE cache.value # data
        <5> DEFINE until == replacedAt[cache.value]
        <5>1. /\ cacheNow < cache.expires /\ until <= cacheNow
              /\ cache.expires <= until + TTL + MaxCalc
          BY <2>3, <4>2 DEF Cache!Hit, CacheFresh
        <5>2. until \in Nat /\ cacheNow \in Nat /\ cache.expires \in Nat
          BY DEF CacheType
        <5>3. Cache!Age(cache.value) = cacheNow - until
          BY <4>2 DEF Cache!Age
        <5> HIDE DEF until
        <5> QED
          BY <5>1, <5>2, <5>3
      <4> QED
        BY <4>1, <4>2
    <3>2. staleness' \in Nat /\ Cache!StalenessBound'
      BY <2>3, <3>1 DEF Cache!Hit, Cache!Deliver, CacheType, Cache!StalenessBound
    <3> QED
      BY <2>3, <3>2 DEF Cache!Hit, CacheType, LoadersFresh, CacheFresh
  <2>4. ASSUME NEW l \in Loader, Cache!Miss(l) PROVE CacheInv'
    BY <2>4 DEF Cache!Miss, CacheType, LoadersFresh, CacheFresh, Cache!Empty, Cache!StalenessBound
  <2>5. ASSUME NEW l \in Loader, Cache!Calc(l) PROVE CacheInv'
    BY <2>5 DEF Cache!Calc, CacheType, LoadersFresh, CacheFresh, Cache!Empty, Cache!StalenessBound
  <2>6. ASSUME NEW l \in Loader, Cache!CalcFails(l) PROVE CacheInv'
    BY <2>6 DEF Cache!CalcFails, CacheType, LoadersFresh, CacheFresh, Cache!Empty, Cache!StalenessBound
  <2>7. ASSUME NEW l \in Loader, Cache!Set(l) PROVE CacheInv'
    <3>1. Cache!Age(value[l]) \in Nat /\ Cache!Age(value[l]) < TTL + MaxCalc
      <4>1. CASE value[l] = data
        BY <4>1 DEF Cache!Age
      <4>2. CASE value[l] # data
        BY <2>7, <4>2 DEF Cache!Set, Cache!Age, CacheType, LoadersFresh
      <4> QED
        BY <4>1, <4>2
    <3>2. staleness' \in Nat /\ Cache!StalenessBound'
      BY <2>7, <3>1 DEF Cache!Set, Cache!Deliver, CacheType, Cache!StalenessBound
    <3>3. CacheFresh' /\ cache' \in [value : 0..CacheTime, expires : Nat]
      <4>1. CASE cache' = cache
        BY <2>7, <4>1 DEF Cache!Set, CacheType, CacheFresh
      <4>2. CASE cache' = [value |-> value[l], expires |-> cacheNow + TTL]
        BY <2>7, <4>2 DEF Cache!Set, CacheType, LoadersFresh, CacheFresh
      <4> QED
        BY <2>7, <4>1, <4>2 DEF Cache!Set, Cache!expiry
    <3> QED
      BY <2>7, <3>2, <3>3 DEF Cache!Set, CacheType, LoadersFresh
  <2>8. CASE UNCHANGED Cache!vars
    BY <2>8 DEF Cache!vars, CacheType, LoadersFresh, CacheFresh, Cache!Empty, Cache!StalenessBound
  <2> QED
    BY <2>1, <2>2, <2>3, <2>4, <2>5, <2>6, <2>7, <2>8 DEF Cache!Next
<1>3. CacheInv => StalenessBound
  BY DEF CacheInv, StalenessBound
<1> QED
  BY <1>1, <1>2, <1>3, PTL DEF Cache!Spec

----------------------------------------------------------------------------
(* The rate limiter                                                        *)

\* What a request at a bucket relies on: it has a key, the lock expires when its
\* time is over, and what it is about to write has a token to take.
HoldInv ==
    \A r \in Client :
        /\ place[r] # "idle" => client[r].key \in Key
        /\ client[r].at <= time
        /\ place[r] \in Limiter!Holding =>
              /\ NodeOf[r] \notin outstayed => lock.expires = client[r].since + LockTTL
              /\ client[r].since <= time /\ time <= client[r].since + MaxHold
        /\ place[r] = "write" =>
              client[r].state.available > 0 /\ client[r].state.last <= client[r].at

\* A process has handles of its own requests' locks only.
HandleInv == \A n \in Node : handle[n] # Nobody => NodeOf[handle[n]] = n

\* A request that is about to write has read the bucket as it still is.
ReadIsCurrent ==
    \A r \in Client : place[r] = "write" =>
        /\ bucket[client[r].key].last <= client[r].at
        /\ client[r].state = Limiter!Abstract!Refilled(bucket[client[r].key], client[r].at)

\* The locals of a request, as in TypeOK.
LimiterLocal == [key : Key \cup {NoKey}, at : Nat, since : Nat, state : Limiter!Abstract!Bucket,
          reply : {"none", "ok", "limited", "error"}]

\* No bucket was reckoned at a later time than it is.
ClockInv == time <= LimiterTime /\ \A k \in Key : bucket[k].last <= time

\* The inductive invariant of RateLimiter, however long a request stays.
LockInv == Limiter!TypeOK /\ Limiter!HolderHasLock /\ HoldInv /\ HandleInv /\ ClockInv

\* What holds in addition when a request is done before its lock expires.
LimiterInv == LockInv /\ outstayed = {} /\ ReadIsCurrent

\* Whole tokens of a time do not amount to more than the time.
LEMMA WholeTokens ==
    ASSUME NEW n \in Nat, NEW rate \in Nat \ {0}
    PROVE  n \div rate \in Nat /\ (n \div rate) * rate \in Nat /\ (n \div rate) * rate <= n
  OBVIOUS

\* Refilling a bucket gives a bucket, reckoned no later than it is refilled.
LEMMA RefilledType ==
    ASSUME Limiter!LimiterAssumption,
           NEW b \in Limiter!Abstract!Bucket, NEW at \in Nat, b.last <= at
    PROVE  /\ Limiter!Abstract!Refilled(b, at) \in Limiter!Abstract!Bucket
           /\ Limiter!Abstract!Refilled(b, at).last <= at
<1> DEFINE tokens == (at - b.last) \div RefillRate
<1>1. at - b.last \in Nat /\ b.last \in Nat /\ b.available \in 0..Capacity
  BY DEF Limiter!Abstract!Bucket
<1>2. tokens \in Nat /\ tokens * RefillRate \in Nat /\ tokens * RefillRate <= at - b.last
  BY <1>1, WholeTokens DEF Limiter!LimiterAssumption
<1> HIDE DEF tokens
<1>3. Capacity \in Nat
  BY DEF Limiter!LimiterAssumption
<1>4. Limiter!Abstract!Refilled(b, at) =
        IF b.available + tokens < Capacity
        THEN [last |-> b.last + tokens * RefillRate, available |-> b.available + tokens]
        ELSE [last |-> at, available |-> Capacity]
  BY DEF Limiter!Abstract!Refilled, Limiter!Abstract!FullBucket, tokens
<1> DEFINE used == tokens * RefillRate
<1>5. used \in Nat /\ used <= at - b.last
  BY <1>2
<1>6. Limiter!Abstract!Refilled(b, at) =
        IF b.available + tokens < Capacity
        THEN [last |-> b.last + used, available |-> b.available + tokens]
        ELSE [last |-> at, available |-> Capacity]
  BY <1>4
<1> HIDE DEF used
<1> QED
  BY <1>1, <1>2, <1>3, <1>5, <1>6 DEF Limiter!Abstract!Bucket

\* Init => LimiterInv.
LEMMA LimiterInit == Limiter!LimiterAssumption /\ Limiter!Init => LimiterInv
<1> SUFFICES ASSUME Limiter!LimiterAssumption, Limiter!Init PROVE LimiterInv
  OBVIOUS
<1>1. /\ Limiter!Abstract!FullBucket(0) \in Limiter!Abstract!Bucket
      /\ Limiter!Abstract!FullBucket(0).last = 0
  BY DEF Limiter!LimiterAssumption, Limiter!Abstract!FullBucket, Limiter!Abstract!Bucket
<1>2. Limiter!TypeOK
  BY <1>1 DEF Limiter!LimiterAssumption, Limiter!Init, Limiter!TypeOK, Limiter!Free,
     Limiter!NoLocal, Limiter!Stage
<1> QED
  BY <1>1, <1>2 DEF Limiter!LimiterAssumption, Limiter!Init, Limiter!NoLocal, LimiterInv, LockInv,
     Limiter!HolderHasLock, HoldInv, HandleInv, ClockInv,
     ReadIsCurrent, Limiter!Holding

\* A request that has nothing to do has these locals.
LEMMA NoLocalType ==
    Limiter!LimiterAssumption => Limiter!NoLocal \in LimiterLocal /\ Limiter!NoLocal.at = 0
<1>1. Limiter!LimiterAssumption => Limiter!NoLocal.state \in Limiter!Abstract!Bucket
  BY DEF Limiter!NoLocal, Limiter!LimiterAssumption, Limiter!Abstract!FullBucket,
     Limiter!Abstract!Bucket
<1> QED
  BY <1>1 DEF Limiter!NoLocal, LimiterLocal

\* Leaving the limiter keeps the types, and what the others are at.
LEMMA LeaveFacts ==
    ASSUME Limiter!LimiterAssumption, LockInv, NEW r \in Client, Limiter!Leave(r),
           lock' \in [holder : Client \cup {Nobody}, expires : Nat]
    PROVE  /\ Limiter!TypeOK' /\ ClockInv' /\ HandleInv'
           /\ place[r] = "unlock" /\ place'[r] = "idle" /\ client'[r].at = 0
           /\ \A q \in Client \ {r} : place'[q] = place[q] /\ client'[q] = client[q]
           /\ time' = time /\ 0 <= time /\ outstayed' = outstayed /\ handle' = handle
<1> USE DEF LockInv
<1>2. client[r].key \in Key
  BY DEF Limiter!Leave, HoldInv
<1>3. admitted' \in [Key -> [Window -> Nat]]
  <2> DEFINE old == admitted[client[r].key]
             new == [w \in Window |->
                       IF Limiter!Within(w, client[r].at) THEN old[w] + 1 ELSE old[w]]
  <2>1. old \in [Window -> Nat]
    BY <1>2 DEF Limiter!TypeOK
  <2>2. new \in [Window -> Nat]
    <3> HIDE DEF old
    <3> QED
      BY <2>1
  <2>3. admitted' \in {admitted, [admitted EXCEPT ![client[r].key] = new]}
    BY DEF Limiter!Leave
  <2> HIDE DEF new
  <2> QED
    BY <1>2, <2>2, <2>3 DEF Limiter!TypeOK
<1>4. Limiter!TypeOK'
  BY <1>3, NoLocalType DEF Limiter!Leave, Limiter!Goto, Limiter!TypeOK, LimiterLocal,
     Limiter!Stage
<1> QED
  BY <1>4, NoLocalType DEF Limiter!Leave, Limiter!Goto, Limiter!TypeOK, ClockInv, HandleInv

\* LockInv /\ [Next]_Limiter!vars => LockInv', however long a request stays.
LEMMA LockStep ==
    Limiter!LimiterAssumption /\ LockInv /\ [Limiter!Next]_Limiter!vars => LockInv'
<1> SUFFICES ASSUME Limiter!LimiterAssumption, LockInv, [Limiter!Next]_Limiter!vars
             PROVE  LockInv'
  OBVIOUS
<1> USE DEF LockInv
<1>0. LockTTL \in Nat /\ MaxHold \in Nat /\ LimiterTime \in Nat
      /\ NodeOf \in [Client -> Node] /\ Nobody \notin Client
  BY DEF Limiter!LimiterAssumption
<1>1. CASE Limiter!Tick
  <2>1. Limiter!TypeOK'
    BY <1>0, <1>1 DEF Limiter!Tick, Limiter!TypeOK, Limiter!Free
  <2>2. \A r \in Client : place[r] \in Limiter!Holding /\ NodeOf[r] \notin outstayed' =>
          /\ NodeOf[r] \notin outstayed
          /\ time + 1 < client[r].since + LockTTL
    BY <1>0, <1>1 DEF Limiter!Tick, Limiter!TypeOK
  <2>3. \A r \in Client : place[r] \in Limiter!Holding /\ NodeOf[r] \notin outstayed' =>
          lock' = lock
    BY <1>0, <1>1, <2>2 DEF Limiter!Tick, Limiter!TypeOK, HoldInv
  <2>4. Limiter!HolderHasLock'
    BY <1>1, <2>2, <2>3 DEF Limiter!Tick, Limiter!HolderHasLock
  <2>5. HoldInv'
    BY <1>0, <1>1, <2>2, <2>3 DEF Limiter!Tick, Limiter!TypeOK, HoldInv
  <2>6. ClockInv' /\ HandleInv'
    BY <1>0, <1>1 DEF Limiter!Tick, Limiter!TypeOK, ClockInv, HandleInv,
       Limiter!Abstract!Bucket
  <2> QED
    BY <2>1, <2>4, <2>5, <2>6
<1>2. ASSUME NEW r \in Client, NEW k \in Key, Limiter!ForKey(r, k) PROVE LockInv'
  <2>1. Limiter!NoLocal.state \in Limiter!Abstract!Bucket
    BY DEF Limiter!NoLocal, Limiter!LimiterAssumption, Limiter!Abstract!FullBucket,
       Limiter!Abstract!Bucket
  <2>2. Limiter!TypeOK'
    BY <1>2, <2>1 DEF Limiter!ForKey, Limiter!Goto, Limiter!TypeOK, Limiter!NoLocal, Limiter!Stage
  <2> QED
    BY <1>2, <2>2 DEF Limiter!ForKey, Limiter!Goto, Limiter!TypeOK, Limiter!HolderHasLock,
       HoldInv, ClockInv, HandleInv, Limiter!Holding, Limiter!NoLocal
<1>3. ASSUME NEW r \in Client, Limiter!Lock(r) PROVE LockInv'
  <2>0. [client[r] EXCEPT !.since = time] \in LimiterLocal
    BY DEF Limiter!TypeOK, LimiterLocal
  <2>1. Limiter!TypeOK'
    <3>1. client' \in [Client -> LimiterLocal]
      BY <1>3, <2>0 DEF Limiter!Lock, Limiter!TypeOK, LimiterLocal
    <3>2. lock' \in [holder : Client \cup {Nobody}, expires : Nat]
      BY <1>0, <1>3 DEF Limiter!Lock, Limiter!TypeOK
    <3>3. handle' \in [Node -> Client \cup {Nobody}] /\ outstayed' \subseteq Node
      BY <1>0, <1>3 DEF Limiter!Lock, Limiter!TypeOK, Limiter!Rejoined
    <3> QED
      BY <1>3, <3>1, <3>2, <3>3 DEF Limiter!Lock, Limiter!Goto, Limiter!TypeOK, Limiter!Stage,
         LimiterLocal
  <2>2. \A q \in Client : place[q] \in Limiter!Holding => NodeOf[q] \in outstayed
    BY <1>0, <1>3 DEF Limiter!Lock, Limiter!HolderHasLock
  <2>3. \A q \in Client : place'[q] \in Limiter!Holding /\ NodeOf[q] \notin outstayed' => q = r
    BY <1>0, <1>3, <2>2 DEF Limiter!Lock, Limiter!Goto, Limiter!Rejoined, Limiter!TypeOK
  <2>4. /\ lock'.holder = r /\ handle'[NodeOf[r]] = r /\ lock'.expires = time + LockTTL
        /\ handle' = [handle EXCEPT ![NodeOf[r]] = r] /\ time' = time
        /\ place[r] = "lock" /\ place'[r] = "read"
        /\ client'[r].since = time /\ bucket' = bucket
        /\ \A q \in Client : /\ client'[q].key = client[q].key
                             /\ client'[q].at = client[q].at
                             /\ client'[q].state = client[q].state
                             /\ q # r => place'[q] = place[q] /\ client'[q] = client[q]
    BY <1>0, <1>3 DEF Limiter!Lock, Limiter!Goto, Limiter!TypeOK
  <2>5. Limiter!HolderHasLock'
    BY <2>3, <2>4 DEF Limiter!HolderHasLock
  <2>6. HoldInv'
    <3>1. client[r].key \in Key
      BY <2>4 DEF HoldInv
    <3>2. time <= time + MaxHold /\ time \in Nat
      BY <1>0 DEF Limiter!TypeOK
    <3> QED
      BY <2>3, <2>4, <3>1, <3>2 DEF HoldInv
  <2>7. ClockInv' /\ HandleInv'
    BY <1>0, <2>4 DEF Limiter!TypeOK, ClockInv, HandleInv
  <2> QED
    BY <2>1, <2>5, <2>6, <2>7
<1>4. ASSUME NEW r \in Client, Limiter!LockFails(r) PROVE LockInv'
  <2>1. Limiter!TypeOK'
    BY <1>4, NoLocalType DEF Limiter!LockFails, Limiter!Goto, Limiter!TypeOK, LimiterLocal,
       Limiter!Stage
  <2> QED
    BY <1>4, <2>1, NoLocalType DEF Limiter!LockFails, Limiter!Goto, Limiter!TypeOK,
       Limiter!HolderHasLock, HoldInv, ClockInv, HandleInv, Limiter!Holding
<1>5. ASSUME NEW r \in Client, Limiter!ReadState(r) PROVE LockInv'
  <2> DEFINE k == client[r].key
             state == Limiter!Abstract!Refilled(bucket[k], time)
  <2>1. k \in Key /\ state \in Limiter!Abstract!Bucket /\ state.last <= time
    BY <1>5, RefilledType DEF Limiter!ReadState, Limiter!TypeOK, HoldInv, ClockInv
  <2>2. state.available \in Nat
    BY <2>1 DEF Limiter!Abstract!Bucket, Limiter!LimiterAssumption
  <2>3. /\ client' = [client EXCEPT ![r].at = time, ![r].state = state,
                              ![r].reply = IF state.available = 0 THEN "limited" ELSE "none"]
        /\ place' = [place EXCEPT ![r] = IF state.available = 0 THEN "unlock" ELSE "write"]
        /\ place[r] = "read" /\ UNCHANGED <<time, bucket, lock, handle, outstayed, admitted>>
    BY <1>5 DEF Limiter!ReadState, Limiter!Goto
  <2> HIDE DEF state
  <2>4. Limiter!TypeOK'
    <3>1. client'[r] \in LimiterLocal
      <4>1. client'[r] = [client[r] EXCEPT !.at = time, !.state = state,
                            !.reply = IF state.available = 0 THEN "limited" ELSE "none"]
        BY <2>3 DEF Limiter!TypeOK
      <4>2. client[r] \in LimiterLocal /\ time \in Nat
        BY DEF Limiter!TypeOK, LimiterLocal
      <4> QED
        BY <2>1, <4>1, <4>2 DEF LimiterLocal
    <3>2. client' \in [Client -> LimiterLocal]
      BY <2>3, <3>1 DEF Limiter!TypeOK, LimiterLocal
    <3> QED
      BY <2>3, <3>2 DEF Limiter!TypeOK, Limiter!Stage, LimiterLocal
  <2>5. \A q \in Client : /\ place'[q] \in Limiter!Holding => place[q] \in Limiter!Holding
                          /\ place'[q] # "idle" => place[q] # "idle"
                          /\ client'[q].key = client[q].key /\ client'[q].since = client[q].since
                          /\ client'[q].at \in {client[q].at, time}
                          /\ q # r => place'[q] = place[q] /\ client'[q] = client[q]
    BY <2>3 DEF Limiter!TypeOK, Limiter!Holding
  <2>6. place'[r] = "write" =>
          client'[r].state.available > 0 /\ client'[r].state.last <= client'[r].at
    <3>1. /\ client'[r].state = state /\ client'[r].at = time
          /\ place'[r] = "write" => state.available # 0
      BY <2>3 DEF Limiter!TypeOK
    <3> QED
      BY <2>1, <2>2, <3>1
  <2>7. Limiter!HolderHasLock'
    BY <2>3, <2>5 DEF Limiter!HolderHasLock
  <2>8. HoldInv'
    <3> SUFFICES ASSUME NEW q \in Client
                 PROVE  /\ place'[q] # "idle" => client'[q].key \in Key
                        /\ client'[q].at <= time
                        /\ place'[q] \in Limiter!Holding =>
                              /\ NodeOf[q] \notin outstayed => lock.expires = client'[q].since + LockTTL
                              /\ client'[q].since <= time /\ time <= client'[q].since + MaxHold
                        /\ place'[q] = "write" =>
                              client'[q].state.available > 0 /\ client'[q].state.last <= client'[q].at
      BY <2>3 DEF HoldInv
    <3>1. time <= time
      BY DEF Limiter!TypeOK
    <3>2. CASE q = r
      BY <2>5, <2>6, <3>1, <3>2 DEF HoldInv
    <3>3. CASE q # r
      BY <2>5, <3>3 DEF HoldInv
    <3> QED
      BY <3>2, <3>3
  <2> QED
    BY <2>3, <2>4, <2>7, <2>8 DEF ClockInv, HandleInv
<1>6. ASSUME NEW r \in Client, Limiter!SetState(r) PROVE LockInv'
  <2> DEFINE k == client[r].key
             new == [client[r].state EXCEPT !.available = @ - 1]
  <2>1. /\ k \in Key /\ client[r].at \in Nat /\ client[r].at <= time
        /\ client[r].state \in Limiter!Abstract!Bucket
        /\ client[r].state.available > 0 /\ client[r].state.last <= client[r].at
    BY <1>6 DEF Limiter!SetState, Limiter!TypeOK, HoldInv, Limiter!Holding
  <2>3. new \in Limiter!Abstract!Bucket /\ new.last <= time
    <3>1. /\ client[r].state.last \in Nat /\ client[r].state.available \in 0..Capacity
          /\ new = [last |-> client[r].state.last, available |-> client[r].state.available - 1]
      BY <2>1 DEF Limiter!Abstract!Bucket
    <3> QED
      <4>1. client[r].state.available - 1 \in 0..Capacity
        BY <2>1, <3>1 DEF Limiter!LimiterAssumption
      <4>2. new \in Limiter!Abstract!Bucket
        BY <3>1, <4>1 DEF Limiter!Abstract!Bucket
      <4>3. new.last <= time
        BY <2>1, <3>1 DEF Limiter!TypeOK
      <4> QED
        BY <4>2, <4>3
  <2>4. /\ place[r] = "write" /\ bucket' = [bucket EXCEPT ![k] = new]
        /\ client' = [client EXCEPT ![r].reply = "ok"] /\ place' = [place EXCEPT ![r] = "unlock"]
        /\ UNCHANGED <<time, lock, handle, outstayed, admitted>>
    BY <1>6 DEF Limiter!SetState, Limiter!Goto
  <2> HIDE DEF new
  <2>5. Limiter!TypeOK'
    <3>1. client' \in [Client -> LimiterLocal]
      BY <2>4 DEF Limiter!TypeOK, LimiterLocal
    <3>2. bucket' \in [Key -> Limiter!Abstract!Bucket]
      BY <2>1, <2>3, <2>4 DEF Limiter!TypeOK
    <3> QED
      BY <2>4, <3>1, <3>2 DEF Limiter!TypeOK, Limiter!Stage, LimiterLocal
  <2>6. \A q \in Client : /\ place'[q] \in Limiter!Holding => place[q] \in Limiter!Holding
                          /\ place'[q] # "idle" => place[q] # "idle"
                          /\ place'[q] = "write" => place[q] = "write"
                          /\ client'[q].key = client[q].key /\ client'[q].since = client[q].since
                          /\ client'[q].at = client[q].at /\ client'[q].state = client[q].state
    BY <2>4 DEF Limiter!TypeOK, Limiter!Holding
  <2>7. Limiter!HolderHasLock'
    BY <2>4, <2>6 DEF Limiter!HolderHasLock
  <2>8. HoldInv'
    BY <2>4, <2>6 DEF HoldInv
  <2>9. ClockInv' /\ HandleInv'
    BY <2>1, <2>3, <2>4 DEF Limiter!TypeOK, ClockInv, HandleInv
  <2> QED
    BY <2>5, <2>7, <2>8, <2>9
<1>7. ASSUME NEW r \in Client, Limiter!StateFails(r) PROVE LockInv'
  <2>1. Limiter!TypeOK'
    <3>1. [client[r] EXCEPT !.reply = "error"] \in LimiterLocal
      BY DEF Limiter!TypeOK, LimiterLocal
    <3>2. client' \in [Client -> LimiterLocal]
      BY <1>7, <3>1 DEF Limiter!StateFails, Limiter!TypeOK, LimiterLocal
    <3>3. place' \in [Client -> Limiter!Stage]
      BY <1>7 DEF Limiter!StateFails, Limiter!Goto, Limiter!TypeOK, Limiter!Stage
    <3> QED
      BY <1>7, <3>2, <3>3 DEF Limiter!StateFails, Limiter!TypeOK, LimiterLocal
  <2>2. \A q \in Client : /\ place'[q] \in Limiter!Holding => place[q] \in Limiter!Holding
                          /\ place'[q] # "idle" => place[q] # "idle"
                          /\ place'[q] = "write" => place[q] = "write"
                          /\ client'[q].key = client[q].key /\ client'[q].since = client[q].since
                          /\ client'[q].at = client[q].at /\ client'[q].state = client[q].state
    BY <1>7 DEF Limiter!StateFails, Limiter!Goto, Limiter!TypeOK, Limiter!Holding
  <2>3. UNCHANGED <<time, bucket, lock, handle, outstayed>>
    BY <1>7 DEF Limiter!StateFails
  <2>4. Limiter!HolderHasLock'
    BY <2>2, <2>3 DEF Limiter!HolderHasLock
  <2>5. HoldInv'
    BY <2>2, <2>3 DEF HoldInv
  <2> QED
    BY <2>1, <2>3, <2>4, <2>5 DEF ClockInv, HandleInv
<1>8. ASSUME NEW r \in Client, Limiter!Unlock(r) PROVE LockInv'
  <2>1. lock' \in [holder : Client \cup {Nobody}, expires : Nat]
    BY <1>8 DEF Limiter!Unlock, Limiter!Released, Limiter!Free, Limiter!TypeOK
  <2>2. /\ Limiter!TypeOK' /\ ClockInv' /\ HandleInv'
        /\ place[r] = "unlock" /\ place'[r] = "idle" /\ client'[r].at = 0
        /\ \A q \in Client \ {r} : place'[q] = place[q] /\ client'[q] = client[q]
        /\ time' = time /\ 0 <= time /\ outstayed' = outstayed /\ handle' = handle
    BY <1>8, <2>1, LeaveFacts DEF Limiter!Unlock
  <2>3. ASSUME NEW q \in Client, place'[q] \in Limiter!Holding, NodeOf[q] \notin outstayed
        PROVE  q # r /\ lock.holder = q /\ lock' = lock
    <3>1. q # r /\ place[q] \in Limiter!Holding
      BY <2>2, <2>3 DEF Limiter!Holding
    <3>2. lock.holder = q
      BY <2>3, <3>1 DEF Limiter!HolderHasLock
    <3>3. handle[NodeOf[r]] # q
      <4>1. CASE NodeOf[r] = NodeOf[q]
        BY <2>2, <2>3, <3>1, <3>2, <4>1 DEF Limiter!HolderHasLock, Limiter!Holding
      <4>2. CASE NodeOf[r] # NodeOf[q]
        BY <1>0, <4>2 DEF HandleInv
      <4> QED
        BY <4>1, <4>2
    <3> QED
      BY <1>8, <3>1, <3>2, <3>3 DEF Limiter!Unlock, Limiter!Released
  <2>4. Limiter!HolderHasLock'
    BY <2>2, <2>3 DEF Limiter!HolderHasLock
  <2>5. HoldInv'
    BY <2>2, <2>3 DEF HoldInv, Limiter!Holding
  <2> QED
    BY <2>2, <2>4, <2>5
<1>9. ASSUME NEW r \in Client, Limiter!ReleaseFails(r) PROVE LockInv'
  <2>1. /\ Limiter!TypeOK' /\ ClockInv' /\ HandleInv'
        /\ place[r] = "unlock" /\ place'[r] = "idle" /\ client'[r].at = 0
        /\ \A q \in Client \ {r} : place'[q] = place[q] /\ client'[q] = client[q]
        /\ time' = time /\ 0 <= time /\ outstayed' = outstayed /\ handle' = handle
        /\ lock' = lock
    BY <1>9, LeaveFacts DEF Limiter!ReleaseFails, Limiter!TypeOK
  <2>2. Limiter!HolderHasLock'
    BY <2>1 DEF Limiter!HolderHasLock, Limiter!Holding
  <2>3. HoldInv'
    BY <2>1 DEF HoldInv, Limiter!Holding
  <2> QED
    BY <2>1, <2>2, <2>3
<1>10. ASSUME NEW n \in Node, Limiter!Crash(n) PROVE LockInv'
  <2>1. Limiter!TypeOK'
    BY <1>10, NoLocalType DEF Limiter!Crash, Limiter!TypeOK, LimiterLocal, Limiter!Stage
  <2>2. /\ \A q \in Client :
             IF NodeOf[q] = n THEN place'[q] = "idle" /\ client'[q].at = 0
             ELSE place'[q] = place[q] /\ client'[q] = client[q]
        /\ outstayed' = outstayed \ {n} /\ UNCHANGED <<time, bucket, lock>>
        /\ \A m \in Node : handle'[m] = IF m = n THEN Nobody ELSE handle[m]
    BY <1>10, NoLocalType DEF Limiter!Crash, Limiter!TypeOK
  <2>3. Limiter!HolderHasLock'
    BY <1>0, <2>2 DEF Limiter!HolderHasLock, Limiter!Holding
  <2>4. HoldInv'
    <3>1. 0 <= time
      BY DEF Limiter!TypeOK
    <3> QED
      BY <1>0, <2>2, <3>1 DEF HoldInv, Limiter!Holding
  <2>5. ClockInv' /\ HandleInv'
    BY <2>2 DEF ClockInv, HandleInv
  <2> QED
    BY <2>1, <2>3, <2>4, <2>5
<1>11. CASE UNCHANGED Limiter!vars
  BY <1>11 DEF Limiter!vars, Limiter!TypeOK, Limiter!HolderHasLock, HoldInv, ClockInv, HandleInv
<1> QED
  BY <1>1, <1>2, <1>3, <1>4, <1>5, <1>6, <1>7, <1>8, <1>9, <1>10, <1>11 DEF Limiter!Next


\* The request at the buckets has the lock in Redis and its process's handle is the
\* one of that lock, for any number of processes and however long requests stay,
\* with processes that end and releases that fail, unless a request of its own
\* process has outstayed a lock.
THEOREM HoldersHaveLock ==
    ASSUME Limiter!LimiterAssumption
    PROVE  Limiter!Spec => []HolderHasLock
<1>1. LockInv => HolderHasLock
  BY DEF LockInv, HolderHasLock
<1>2. Limiter!Init => LockInv
  BY LimiterInit DEF LimiterInv
<1> QED
  BY <1>1, <1>2, LockStep, PTL DEF Limiter!Spec

\* LimiterInv /\ [Next]_Limiter!vars => LimiterInv', when no lock expires in use.
LEMMA LimiterStep ==
    Limiter!LimiterAssumption /\ Limiter!HoldAssumption /\ LimiterInv
        /\ [Limiter!Next]_Limiter!vars => LimiterInv'
<1> SUFFICES ASSUME Limiter!LimiterAssumption, Limiter!HoldAssumption,
                    LimiterInv, [Limiter!Next]_Limiter!vars
             PROVE  outstayed' = {} /\ ReadIsCurrent'
  BY LockStep DEF LimiterInv
<1> USE DEF LimiterInv, LockInv
<1>0. LockTTL \in Nat /\ MaxHold \in Nat /\ MaxHold < LockTTL
      /\ NodeOf \in [Client -> Node] /\ Nobody \notin Client
  BY DEF Limiter!LimiterAssumption, Limiter!HoldAssumption
<1>1. \A q, r \in Client : place[q] \in Limiter!Holding /\ place[r] \in Limiter!Holding => q = r
  BY DEF Limiter!HolderHasLock
<1>2. CASE Limiter!Tick
  <2>1. \A r \in Client : place[r] \in Limiter!Holding => ~(client[r].since + LockTTL <= time')
    BY <1>0, <1>2 DEF Limiter!Tick, Limiter!TypeOK
  <2>2. outstayed' = {}
    BY <1>2, <2>1 DEF Limiter!Tick
  <2> QED
    BY <1>2, <2>2 DEF Limiter!Tick, ReadIsCurrent
<1>3. ASSUME NEW r \in Client, Limiter!ReadState(r) PROVE outstayed' = {} /\ ReadIsCurrent'
  <2> DEFINE k == client[r].key
             state == Limiter!Abstract!Refilled(bucket[k], time)
             stage == IF state.available = 0 THEN "unlock" ELSE "write"
  <2>1. /\ client' = [client EXCEPT ![r].at = time, ![r].state = state,
                              ![r].reply = IF state.available = 0 THEN "limited" ELSE "none"]
        /\ place' = [place EXCEPT ![r] = stage]
        /\ place[r] = "read" /\ UNCHANGED <<time, bucket, outstayed>>
    BY <1>3 DEF Limiter!ReadState, Limiter!Goto
  <2>2. k \in Key /\ bucket[k].last <= time
    BY <2>1 DEF HoldInv, ClockInv
  <2> HIDE DEF state, stage
  <2>3. client'[r].state = state /\ client'[r].at = time /\ client'[r].key = k
    BY <2>1 DEF Limiter!TypeOK
  <2>4. \A q \in Client \ {r} : place'[q] = place[q] /\ client'[q] = client[q]
    BY <2>1 DEF Limiter!TypeOK
  <2>5. /\ bucket'[client'[r].key].last <= client'[r].at
        /\ client'[r].state = Limiter!Abstract!Refilled(bucket'[client'[r].key], client'[r].at)
    BY <2>1, <2>2, <2>3 DEF state
  <2>6. \A q \in Client \ {r} : place'[q] = "write" =>
          /\ bucket'[client'[q].key].last <= client'[q].at
          /\ client'[q].state = Limiter!Abstract!Refilled(bucket'[client'[q].key], client'[q].at)
    BY <2>1, <2>4 DEF ReadIsCurrent
  <2> QED
    BY <2>1, <2>5, <2>6 DEF ReadIsCurrent
<1>4. ASSUME NEW r \in Client, Limiter!SetState(r) PROVE outstayed' = {} /\ ReadIsCurrent'
  <2>1. /\ place[r] = "write" /\ place' = [place EXCEPT ![r] = "unlock"]
        /\ outstayed' = outstayed
    BY <1>4 DEF Limiter!SetState, Limiter!Goto
  <2>2. \A q \in Client : place'[q] # "write"
    BY <1>1, <2>1 DEF Limiter!TypeOK, Limiter!Holding
  <2> QED
    BY <2>1, <2>2 DEF ReadIsCurrent
<1>5. ASSUME bucket' = bucket, outstayed' = {},
             \A q \in Client : place'[q] = "write" =>
                 /\ place[q] = "write" /\ client'[q].key = client[q].key
                 /\ client'[q].at = client[q].at /\ client'[q].state = client[q].state
      PROVE  outstayed' = {} /\ ReadIsCurrent'
  BY <1>5 DEF ReadIsCurrent
<1>6. ASSUME NEW r \in Client, NEW k \in Key, Limiter!ForKey(r, k)
      PROVE  outstayed' = {} /\ ReadIsCurrent'
  <2>1. \A q \in Client : place'[q] = "write" => place[q] = "write" /\ client'[q] = client[q]
    BY <1>6 DEF Limiter!ForKey, Limiter!Goto, Limiter!TypeOK
  <2> QED
    BY <1>5, <1>6, <2>1 DEF Limiter!ForKey
<1>7. ASSUME NEW r \in Client, Limiter!Lock(r) PROVE outstayed' = {} /\ ReadIsCurrent'
  <2>1. \A q \in Client : place'[q] = "write" => place[q] = "write" /\ client'[q] = client[q]
    BY <1>7 DEF Limiter!Lock, Limiter!Goto, Limiter!TypeOK
  <2> QED
    BY <1>5, <1>7, <2>1 DEF Limiter!Lock, Limiter!Rejoined
<1>8. ASSUME NEW r \in Client, Limiter!LockFails(r) PROVE outstayed' = {} /\ ReadIsCurrent'
  <2>1. \A q \in Client : place'[q] = "write" => place[q] = "write" /\ client'[q] = client[q]
    BY <1>8 DEF Limiter!LockFails, Limiter!Goto, Limiter!TypeOK
  <2> QED
    BY <1>5, <1>8, <2>1 DEF Limiter!LockFails
<1>9. ASSUME NEW r \in Client, Limiter!StateFails(r) PROVE outstayed' = {} /\ ReadIsCurrent'
  <2>1. \A q \in Client : place'[q] = "write" => place[q] = "write" /\ client'[q] = client[q]
    BY <1>9 DEF Limiter!StateFails, Limiter!Goto, Limiter!TypeOK
  <2> QED
    BY <1>5, <1>9, <2>1 DEF Limiter!StateFails
<1>10. ASSUME NEW r \in Client, Limiter!Unlock(r) \/ Limiter!ReleaseFails(r)
       PROVE  outstayed' = {} /\ ReadIsCurrent'
  <2>1. Limiter!Leave(r)
    BY <1>10 DEF Limiter!Unlock, Limiter!ReleaseFails
  <2>2. \A q \in Client : place'[q] = "write" => place[q] = "write" /\ client'[q] = client[q]
    BY <2>1 DEF Limiter!Leave, Limiter!Goto, Limiter!TypeOK
  <2> QED
    BY <1>5, <2>1, <2>2 DEF Limiter!Leave
<1>11. ASSUME NEW n \in Node, Limiter!Crash(n) PROVE outstayed' = {} /\ ReadIsCurrent'
  <2>1. \A q \in Client : place'[q] = "write" => place[q] = "write" /\ client'[q] = client[q]
    BY <1>11 DEF Limiter!Crash, Limiter!TypeOK
  <2> QED
    BY <1>5, <1>11, <2>1 DEF Limiter!Crash
<1>12. CASE UNCHANGED Limiter!vars
  BY <1>12 DEF Limiter!vars, ReadIsCurrent
<1> QED
  BY <1>2, <1>3, <1>4, <1>6, <1>7, <1>8, <1>9, <1>10, <1>11, <1>12 DEF Limiter!Next

\* Every step is a step of the token bucket or leaves it alone: writing the bucket
\* back takes a token reckoned at the time of the read, everything else does not
\* touch it.
LEMMA LimiterRefines ==
    Limiter!LimiterAssumption /\ LimiterInv /\ [Limiter!Next]_Limiter!vars
        => [Limiter!Abstract!Next]_<<time, bucket>>
<1> SUFFICES ASSUME Limiter!LimiterAssumption, LimiterInv, [Limiter!Next]_Limiter!vars
             PROVE  [Limiter!Abstract!Next]_<<time, bucket>>
  OBVIOUS
<1>1. CASE Limiter!Tick
  BY <1>1 DEF Limiter!Tick, Limiter!Abstract!Next, Limiter!Abstract!Tick
<1>2. ASSUME NEW r \in Client, Limiter!SetState(r) PROVE Limiter!Abstract!Next
  <2> DEFINE k == client[r].key
             at == client[r].at
  <2>1. /\ k \in Key /\ at \in 0..time /\ bucket[k].last <= at
        /\ client[r].state = Limiter!Abstract!Refilled(bucket[k], at)
        /\ client[r].state.available > 0
    BY <1>2 DEF Limiter!SetState, LimiterInv, LockInv, Limiter!TypeOK, HoldInv, ReadIsCurrent
  <2>2. bucket' = [bucket EXCEPT ![k] =
                     [Limiter!Abstract!Refilled(bucket[k], at) EXCEPT !.available = @ - 1]]
    <3> DEFINE b == client[r].state
    <3>1. bucket' = [bucket EXCEPT ![k] = [b EXCEPT !.available = @ - 1]]
      BY <1>2 DEF Limiter!SetState
    <3>2. b = Limiter!Abstract!Refilled(bucket[k], at)
      BY <2>1
    <3> HIDE DEF b, k, at
    <3> QED
      BY <3>1, <3>2
  <2>3. Limiter!Abstract!Take(k, at)
    <3>1. time' = time /\ Limiter!Abstract!Refilled(bucket[k], at).available > 0
      BY <1>2, <2>1 DEF Limiter!SetState
    <3> QED
      BY <2>1, <2>2, <3>1 DEF Limiter!Abstract!Take
  <2> QED
    BY <2>1, <2>3 DEF Limiter!Abstract!Next
<1>3. ASSUME NEW r \in Client,
             \/ \E k \in Key : Limiter!ForKey(r, k)
             \/ Limiter!Lock(r) \/ Limiter!LockFails(r) \/ Limiter!ReadState(r)
             \/ Limiter!StateFails(r) \/ Limiter!Unlock(r) \/ Limiter!ReleaseFails(r)
      PROVE  UNCHANGED <<time, bucket>>
  BY <1>3 DEF Limiter!ForKey, Limiter!Lock, Limiter!LockFails, Limiter!ReadState,
     Limiter!StateFails, Limiter!Unlock, Limiter!ReleaseFails, Limiter!Leave
<1>5. ASSUME NEW n \in Node, Limiter!Crash(n) PROVE UNCHANGED <<time, bucket>>
  BY <1>5 DEF Limiter!Crash
<1>4. CASE UNCHANGED Limiter!vars
  BY <1>4 DEF Limiter!vars
<1> QED
  BY <1>1, <1>2, <1>3, <1>4, <1>5 DEF Limiter!Next

----------------------------------------------------------------------------
(* How much a limiter lets through                                         *)

\* A request has taken a token at a time of window w and has not been let through yet.
Pending(k, w) ==
    \E r \in Client : /\ place[r] = "unlock" /\ client[r].reply = "ok"
                      /\ client[r].key = k /\ Limiter!Within(w, client[r].at)

\* How often key k was let through in window w, such a request included.
Passed(k, w) == IF Pending(k, w) THEN admitted[k][w] + 1 ELSE admitted[k][w]

\* The n requests since t and the tokens that bucket b still has are what a full
\* bucket has and what was refilled since t.
Paid(n, b, t) ==
    n # 0 => (n + b.available) * RefillRate + t < b.last + Capacity * RefillRate + RefillRate

\* What passed in a window is paid for, none of it lies ahead, and whoever is about
\* to write has read the clock after it.
WindowPaid(k, w) ==
    /\ Passed(k, w) <= 2 * Capacity
    /\ Paid(Passed(k, w), bucket[k], w)
    /\ Passed(k, w) # 0 =>
          /\ w <= time
          /\ \A r \in Client : place[r] = "write" => w <= client[r].at

\* The inductive invariant of the amounts, on top of LimiterInv.
AmountInv ==
    \A k \in Key, w \in Window : WindowPaid(k, w)

\* Products with the refill rate.
LEMMA Products ==
    ASSUME NEW x \in Nat, NEW y \in Nat, NEW rate \in Nat \ {0}
    PROVE  /\ x * rate \in Nat /\ (x + y) * rate = x * rate + y * rate
           /\ x <= y => x * rate <= y * rate
           /\ x * rate < y * rate => x < y
<1>1. x * rate \in Nat /\ (x + y) * rate = x * rate + y * rate
  OBVIOUS
<1>2. x <= y => x * rate <= y * rate
  OBVIOUS
<1>3. x * rate < y * rate => x < y
  OBVIOUS
<1> QED
  BY <1>1, <1>2, <1>3

\* The rest of a time in which no whole token was refilled is less than a token's.
LEMMA RestOfToken ==
    ASSUME NEW n \in Nat, NEW rate \in Nat \ {0}
    PROVE  n < (n \div rate) * rate + rate
  OBVIOUS

\* A token that is taken at time at was paid for: a bucket that is full again has as
\* many tokens as it is long since, and one that is not keeps what it had.
LEMMA TakePays ==
    ASSUME Limiter!LimiterAssumption,
           NEW b \in Limiter!Abstract!Bucket, NEW at \in Nat, b.last <= at,
           NEW t \in Nat, NEW n \in Nat, Paid(n, b, t), n # 0 => t <= at,
           Limiter!Abstract!Refilled(b, at).available > 0,
           NEW new,
           new = [Limiter!Abstract!Refilled(b, at) EXCEPT !.available = @ - 1]
    PROVE  /\ Paid(n, new, t)
           /\ t <= at => Paid(n + 1, new, t)
<1> DEFINE R == RefillRate
           tokens == (at - b.last) \div R
           last == b.last
           a == b.available
           aR == a * R
           nR == n * R
           tokensR == tokens * R
           CR == Capacity * R
<1>1. R \in Nat \ {0} /\ Capacity \in Nat \ {0}
  BY DEF Limiter!LimiterAssumption
<1>2. last \in Nat /\ a \in 0..Capacity /\ a \in Nat /\ at - last \in Nat
  BY <1>1 DEF Limiter!Abstract!Bucket
<1>3. /\ tokens \in Nat /\ tokensR \in Nat /\ tokensR <= at - last
      /\ at - last < tokensR + R
  BY <1>1, <1>2, WholeTokens, RestOfToken
<1>4. Limiter!Abstract!Refilled(b, at) =
        IF a + tokens < Capacity
        THEN [last |-> last + tokensR, available |-> a + tokens]
        ELSE [last |-> at, available |-> Capacity]
  BY DEF Limiter!Abstract!Refilled, Limiter!Abstract!FullBucket
<1>5. n # 0 => (n + a) * R + t < last + CR + R
  BY DEF Paid
<1> HIDE DEF tokens, last, a, tokensR
<1>6. aR \in Nat /\ nR \in Nat /\ CR \in Nat /\ tokens * R = tokensR
  BY <1>1, <1>2, Products DEF tokensR
<1>7. (n + a) * R = nR + aR
  BY <1>1, <1>2, Products
<1>8. CASE a + tokens < Capacity
  <2>1. new.last = last + tokensR /\ new.available = a + tokens - 1 /\ a + tokens > 0
    BY <1>2, <1>3, <1>4, <1>8
  <2>2. (n + 1 + new.available) * R = nR + aR + tokensR
    <3>1. n + 1 + new.available = n + (a + tokens)
      BY <1>2, <1>3, <2>1
    <3>2. (n + (a + tokens)) * R = nR + (a + tokens) * R
      BY <1>1, <1>2, <1>3, Products
    <3>3. (a + tokens) * R = aR + tokensR
      BY <1>1, <1>2, <1>3, <1>6, Products
    <3> HIDE DEF R, aR, nR
    <3> QED
      BY <1>1, <1>2, <1>3, <1>6, <3>1, <3>2, <3>3
  <2>3. (n + new.available) * R <= nR + aR + tokensR
    <3> DEFINE x == n + new.available
               y == n + 1 + new.available
    <3>1. x \in Nat /\ y \in Nat /\ x <= y
      BY <1>2, <1>3, <2>1
    <3> HIDE DEF x, y, R
    <3>2. x * R <= y * R
      BY <1>1, <3>1, Products
    <3> USE DEF x, y
    <3> QED
      BY <2>2, <3>2
  <2>4. aR + tokensR + R <= CR
    <3>1. a + tokens + 1 <= Capacity
      BY <1>1, <1>2, <1>3, <1>8
    <3>2. (a + tokens + 1) * R <= CR
      <4> DEFINE x == a + tokens + 1
      <4>1. x \in Nat /\ x <= Capacity
        BY <1>2, <1>3, <3>1
      <4> HIDE DEF x, R
      <4>2. x * R <= Capacity * R
        BY <1>1, <4>1, Products
      <4> QED
        BY <4>2 DEF x
    <3>3. (a + tokens + 1) * R = (a + tokens) * R + 1 * R
      BY <1>1, <1>2, <1>3, Products
    <3>4. (a + tokens) * R = aR + tokensR /\ 1 * R = R
      BY <1>1, <1>2, <1>3, <1>6, Products
    <3> HIDE DEF R, aR, CR
    <3> QED
      BY <1>1, <1>6, <3>2, <3>3, <3>4
  <2>5. n = 0 => nR = 0
    BY <1>1
  <2> DEFINE paid == (n + new.available) * R
             more == (n + 1 + new.available) * R
  <2>6. paid \in Nat /\ more \in Nat
    BY <1>1, <1>2, <1>3, <2>1
  <2>7. n # 0 => paid + t < new.last + CR + R
    <3> HIDE DEF paid, R, aR, nR, CR
    <3> QED
      BY <1>1, <1>2, <1>3, <1>5, <1>6, <1>7, <2>1, <2>3, <2>6 DEF paid
  <2>8. t <= at => more + t < new.last + CR + R
    <3> HIDE DEF more, R, aR, nR, CR
    <3> QED
      BY <1>1, <1>2, <1>3, <1>5, <1>6, <1>7, <2>1, <2>2, <2>4, <2>5, <2>6 DEF more
  <2> QED
    BY <2>7, <2>8 DEF Paid
<1>9. CASE ~(a + tokens < Capacity)
  <2>1. new.last = at /\ new.available = Capacity - 1
    BY <1>4, <1>9
  <2>2. (n + 1 + new.available) * R = nR + CR
    <3>1. n + 1 + new.available = n + Capacity
      BY <1>1, <2>1
    <3>2. (n + Capacity) * R = nR + CR
      BY <1>1, Products
    <3> QED
      BY <3>1, <3>2
  <2>3. (n + new.available) * R <= nR + CR
    <3> DEFINE x == n + new.available
               y == n + 1 + new.available
    <3>1. x \in Nat /\ y \in Nat /\ x <= y
      BY <1>1, <2>1
    <3> HIDE DEF x, y, R
    <3>2. x * R <= y * R
      BY <1>1, <3>1, Products
    <3> USE DEF x, y
    <3> QED
      BY <2>2, <3>2
  <2>4. CR <= aR + tokensR
    <3>1. Capacity <= a + tokens
      BY <1>1, <1>2, <1>3, <1>9
    <3>2. CR <= (a + tokens) * R
      <4> DEFINE x == a + tokens
      <4>1. x \in Nat /\ Capacity <= x
        BY <1>2, <1>3, <3>1
      <4> HIDE DEF x, R
      <4>2. Capacity * R <= x * R
        BY <1>1, <4>1, Products
      <4> QED
        BY <4>2 DEF x
    <3>3. (a + tokens) * R = aR + tokensR
      BY <1>1, <1>2, <1>3, <1>6, Products
    <3> QED
      BY <3>2, <3>3
  <2>5. n = 0 => nR = 0
    BY <1>1
  <2> DEFINE paid == (n + new.available) * R
             more == (n + 1 + new.available) * R
  <2>6. paid \in Nat /\ more \in Nat
    BY <1>1, <1>2, <1>3, <2>1
  <2>7. n # 0 => paid + t < new.last + CR + R
    <3> HIDE DEF paid, R, aR, nR, CR
    <3> QED
      BY <1>1, <1>2, <1>3, <1>5, <1>6, <1>7, <2>1, <2>3, <2>4, <2>6 DEF paid
  <2>8. t <= at => more + t < new.last + CR + R
    <3> HIDE DEF more, R, aR, nR, CR
    <3> QED
      BY <1>1, <1>2, <1>3, <1>5, <1>6, <1>7, <2>1, <2>2, <2>4, <2>5, <2>6 DEF more
  <2> QED
    BY <2>7, <2>8 DEF Paid
<1> QED
  BY <1>8, <1>9

\* What is paid for in a window as long as `every` is at most twice the capacity.
LEMMA PaidIsBounded ==
    ASSUME Limiter!LimiterAssumption,
           NEW b \in Limiter!Abstract!Bucket, NEW t \in Nat, NEW n \in Nat, Paid(n, b, t),
           b.last <= t + Limiter!Every
    PROVE  n <= 2 * Capacity
<1> DEFINE CR == Capacity * RefillRate
<1>1. RefillRate \in Nat \ {0} /\ Capacity \in Nat \ {0} /\ Limiter!Every = CR
  BY DEF Limiter!LimiterAssumption, Limiter!Every
<1>2. b.last \in Nat /\ b.available \in Nat
  BY <1>1 DEF Limiter!Abstract!Bucket
<1>3. CASE n # 0
  <2>1. (n + b.available) * RefillRate + t < b.last + CR + RefillRate
    BY <1>3 DEF Paid
  <2>2. CR \in Nat /\ (Capacity + Capacity + 1) * RefillRate = CR + CR + RefillRate
    <3>1. (Capacity + Capacity + 1) * RefillRate = (Capacity + Capacity) * RefillRate + 1 * RefillRate
      BY <1>1, Products
    <3>2. (Capacity + Capacity) * RefillRate = CR + CR /\ CR \in Nat /\ 1 * RefillRate = RefillRate
      BY <1>1, Products
    <3> QED
      BY <3>1, <3>2
  <2>3. (n + b.available) * RefillRate < (Capacity + Capacity + 1) * RefillRate
    <3> DEFINE left == (n + b.available) * RefillRate
    <3>1. left \in Nat
      BY <1>1, <1>2
    <3> HIDE DEF left, CR
    <3>2. left < CR + CR + RefillRate
      BY <1>1, <1>2, <2>1, <2>2, <3>1 DEF left
    <3> QED
      BY <2>2, <3>2 DEF left
  <2>4. n + b.available < Capacity + Capacity + 1
    BY <1>1, <1>2, <2>3, Products
  <2> QED
    BY <1>1, <1>2, <2>4
<1>4. CASE n = 0
  BY <1>1, <1>4
<1> QED
  BY <1>3, <1>4

\* Counts are numbers.
LEMMA PassedType ==
    ASSUME Limiter!TypeOK, NEW k \in Key, NEW w \in Window
    PROVE  admitted[k][w] \in Nat /\ Passed(k, w) \in Nat
<1>1. admitted[k][w] \in Nat
  BY DEF Limiter!TypeOK
<1> QED
  BY <1>1 DEF Passed

\* What is paid for so many requests is paid for fewer.
LEMMA PaidForFewer ==
    ASSUME Limiter!LimiterAssumption, NEW b \in Limiter!Abstract!Bucket,
           NEW m \in Nat, NEW n \in Nat, m <= n, NEW t \in Nat, Paid(n, b, t)
    PROVE  Paid(m, b, t)
<1> DEFINE few == (m + b.available) * RefillRate
           many == (n + b.available) * RefillRate
           full == Capacity * RefillRate
<1>1. b.available \in Nat /\ b.last \in Nat /\ RefillRate \in Nat \ {0} /\ Capacity \in Nat
  BY DEF Limiter!Abstract!Bucket, Limiter!LimiterAssumption
<1>2. few \in Nat /\ many \in Nat /\ full \in Nat /\ few <= many
  <2> DEFINE x == m + b.available
             y == n + b.available
  <2>1. x \in Nat /\ y \in Nat /\ x <= y
    BY <1>1
  <2> HIDE DEF x, y
  <2>2. x * RefillRate \in Nat /\ y * RefillRate \in Nat /\ x * RefillRate <= y * RefillRate
    BY <1>1, <2>1, Products
  <2>3. full \in Nat
    BY <1>1, Products
  <2> QED
    BY <2>2, <2>3 DEF x, y
<1>3. m # 0 => n # 0
  OBVIOUS
<1>4. n # 0 => many + t < b.last + full + RefillRate
  BY DEF Paid
<1>5. m # 0 => few + t < b.last + full + RefillRate
  <2> HIDE DEF few, many, full
  <2> QED
    BY <1>1, <1>2, <1>3, <1>4
<1> QED
  BY <1>5 DEF Paid

\* A step that takes no token and lets nobody through keeps the invariant.
LEMMA QuietAmounts ==
    ASSUME Limiter!LimiterAssumption, Limiter!TypeOK, Limiter!TypeOK', AmountInv, bucket' = bucket,
           \A k \in Key, w \in Window : Passed(k, w)' <= Passed(k, w),
           time' \in Nat, time <= time',
           \A q \in Client : place'[q] = "write" =>
               \/ client'[q].at = time
               \/ place[q] = "write" /\ client'[q].at = client[q].at
    PROVE  AmountInv'
<1> SUFFICES ASSUME NEW k \in Key, NEW w \in Window
             PROVE  WindowPaid(k, w)'
  BY DEF AmountInv
<1>1. /\ WindowPaid(k, w) /\ Passed(k, w)' <= Passed(k, w)
      /\ Passed(k, w) \in Nat /\ Passed(k, w)' \in Nat
  <2>1. Passed(k, w) \in Nat
    BY PassedType
  <2>2. Passed(k, w)' \in Nat
    <3>1. admitted'[k][w] \in Nat
      BY DEF Limiter!TypeOK
    <3> QED
      BY <3>1 DEF Passed
  <2> QED
    BY <2>1, <2>2 DEF AmountInv
<1>2. time \in Nat /\ w \in Nat /\ bucket[k] \in Limiter!Abstract!Bucket /\ Capacity \in Nat
  BY DEF Limiter!TypeOK, Limiter!LimiterAssumption
<1>3. Paid(Passed(k, w), bucket[k], w)'
  <2> DEFINE m == Passed(k, w)'
             n == Passed(k, w)
  <2>1. Paid(n, bucket[k], w)
    BY <1>1 DEF WindowPaid
  <2> HIDE DEF m, n
  <2>2. Paid(m, bucket[k], w)
    BY <1>1, <1>2, <2>1, PaidForFewer DEF m, n
  <2> QED
    BY <2>2 DEF Paid, m
<1> HIDE DEF Passed, Paid
<1>4. (Passed(k, w) # 0)' => Passed(k, w) # 0
  BY <1>1
<1>5. Passed(k, w)' <= 2 * Capacity
  BY <1>1, <1>2 DEF WindowPaid
<1> QED
  BY <1>1, <1>2, <1>3, <1>4, <1>5 DEF WindowPaid

\* Who has taken a token and not left yet stays the same, and nobody is counted.
LEMMA SamePassed ==
    ASSUME admitted' = admitted,
           \A q \in Client :
               /\ place'[q] = "unlock" /\ client'[q].reply = "ok"
                    <=> place[q] = "unlock" /\ client[q].reply = "ok"
               /\ place[q] = "unlock" => client'[q] = client[q],
           NEW k \in Key, NEW w \in Window
    PROVE  Passed(k, w)' = Passed(k, w)
<1>1. Pending(k, w)' <=> Pending(k, w)
  BY DEF Pending, Limiter!Within
<1> QED
  BY <1>1 DEF Passed

\* Leaving the limiter counts a request that was pending.
LEMMA UnlockAmounts ==
    ASSUME LimiterInv, NEW r \in Client, Limiter!Leave(r),
           NEW k \in Key, NEW w \in Window
    PROVE  Passed(k, w)' = Passed(k, w)
<1>1. /\ place[r] = "unlock" /\ place' = [place EXCEPT ![r] = "idle"]
      /\ client[r].key \in Key
  BY DEF LimiterInv, LockInv, HoldInv, Limiter!Leave, Limiter!Goto
<1>2. \A q \in Client : place[q] = "unlock" => q = r
  BY <1>1 DEF LimiterInv, LockInv, Limiter!HolderHasLock, Limiter!Holding
<1>3. ~Pending(k, w)'
  <2>1. \A q \in Client : place'[q] = "unlock" => place[q] = "unlock" /\ q # r
    BY <1>1 DEF LimiterInv, LockInv, Limiter!TypeOK
  <2> QED
    BY <1>2, <2>1 DEF Pending
<1>4. Pending(k, w) <=> /\ client[r].reply = "ok" /\ client[r].key = k
                        /\ Limiter!Within(w, client[r].at)
  BY <1>1, <1>2 DEF Pending
<1>5. admitted'[k][w] = IF Pending(k, w) THEN admitted[k][w] + 1 ELSE admitted[k][w]
  <2> DEFINE old == admitted[client[r].key]
             new == [x \in Window |->
                       IF Limiter!Within(x, client[r].at) THEN old[x] + 1 ELSE old[x]]
  <2>1. admitted' = IF client[r].reply = "ok"
                    THEN [admitted EXCEPT ![client[r].key] = new] ELSE admitted
    BY DEF Limiter!Leave, Limiter!canContinue
  <2>2. new[w] = IF Limiter!Within(w, client[r].at) THEN old[w] + 1 ELSE old[w]
    OBVIOUS
  <2>3. DOMAIN admitted = Key
    BY DEF LimiterInv, LockInv, Limiter!TypeOK
  <2> HIDE DEF new
  <2> QED
    BY <1>1, <1>4, <2>1, <2>2, <2>3
<1> QED
  BY <1>3, <1>5 DEF Passed

\* Taking a token is paid for in every window that it falls into.
LEMMA SetStateAmounts ==
    ASSUME Limiter!LimiterAssumption, LimiterInv, LimiterInv', AmountInv,
           NEW r \in Client, Limiter!SetState(r)
    PROVE  AmountInv'
<1> DEFINE key == client[r].key
           at == client[r].at
           new == [Limiter!Abstract!Refilled(bucket[key], at) EXCEPT !.available = @ - 1]
<1>1. /\ place[r] = "write" /\ place' = [place EXCEPT ![r] = "unlock"]
      /\ client' = [client EXCEPT ![r].reply = "ok"]
      /\ admitted' = admitted /\ time' = time
  BY DEF Limiter!SetState, Limiter!Goto
<1>2. /\ key \in Key /\ at \in Nat /\ at <= time /\ time \in Nat
      /\ bucket[key] \in Limiter!Abstract!Bucket /\ bucket[key].last <= at
      /\ client[r].state = Limiter!Abstract!Refilled(bucket[key], at)
      /\ client[r].state.available > 0
  BY <1>1 DEF LimiterInv, LockInv, Limiter!TypeOK, HoldInv, ReadIsCurrent
<1>3. bucket' = [bucket EXCEPT ![key] = new]
  <2> DEFINE s == client[r].state
  <2>1. bucket' = [bucket EXCEPT ![key] = [s EXCEPT !.available = @ - 1]]
    BY DEF Limiter!SetState
  <2>2. s = Limiter!Abstract!Refilled(bucket[key], at)
    BY <1>2
  <2> HIDE DEF s, key, at
  <2> QED
    BY <2>1, <2>2
<1>4. new \in Limiter!Abstract!Bucket /\ new.last <= at
  <2>1. bucket'[key] = new
    BY <1>2, <1>3 DEF LimiterInv, LockInv, Limiter!TypeOK
  <2>2. bucket'[key] \in Limiter!Abstract!Bucket
    BY <1>2 DEF LimiterInv, LockInv, Limiter!TypeOK
  <2>3. Limiter!Abstract!Refilled(bucket[key], at) \in Limiter!Abstract!Bucket
        /\ Limiter!Abstract!Refilled(bucket[key], at).last <= at
    BY <1>2, RefilledType
  <2>4. new.last = Limiter!Abstract!Refilled(bucket[key], at).last
    <3> DEFINE s == Limiter!Abstract!Refilled(bucket[key], at)
    <3>1. s \in Limiter!Abstract!Bucket
      BY <2>3
    <3> HIDE DEF s
    <3>2. [s EXCEPT !.available = @ - 1].last = s.last
      BY <3>1 DEF Limiter!Abstract!Bucket
    <3> QED
      BY <3>2 DEF s
  <2> HIDE DEF new
  <2> QED
    BY <2>1, <2>2, <2>3, <2>4
<1>5. \A q \in Client \ {r} : place[q] \notin {"write", "unlock"} /\ place'[q] = place[q]
  BY <1>1 DEF LimiterInv, LockInv, Limiter!TypeOK, Limiter!HolderHasLock, Limiter!Holding
<1>6. /\ place'[r] = "unlock" /\ client'[r].reply = "ok"
      /\ client'[r].key = key /\ client'[r].at = at
  BY <1>1 DEF LimiterInv, LockInv, Limiter!TypeOK
<1> SUFFICES ASSUME NEW k \in Key, NEW w \in Window
             PROVE  WindowPaid(k, w)'
  BY DEF AmountInv
<1> DEFINE n == Passed(k, w)
<1>7. WindowPaid(k, w) /\ n \in Nat /\ admitted[k][w] \in Nat /\ n = admitted[k][w]
  <2>1. ~Pending(k, w)
    BY <1>1, <1>5 DEF Pending
  <2> QED
    BY <2>1, PassedType DEF AmountInv, LimiterInv, LockInv, Passed
<1>8. Pending(k, w)' <=> k = key /\ Limiter!Within(w, at)
  <2>1. Pending(k, w)' => k = key /\ Limiter!Within(w, at)
    BY <1>5, <1>6 DEF Pending, Limiter!Within
  <2>2. k = key /\ Limiter!Within(w, at) => Pending(k, w)'
    BY <1>6 DEF Pending, Limiter!Within
  <2> QED
    BY <2>1, <2>2
<1>9. Passed(k, w)' = IF k = key /\ Limiter!Within(w, at) THEN n + 1 ELSE n
  BY <1>1, <1>7, <1>8 DEF Passed
<1>10. w \in Nat /\ Limiter!Every \in Nat /\ Capacity \in Nat
  BY Products DEF Limiter!LimiterAssumption, Limiter!Every
<1>11. \A q \in Client : place'[q] # "write"
  BY <1>5, <1>6
<1>12. CASE k # key
  <2>1. Passed(k, w)' = n /\ bucket'[k] = bucket[k]
    BY <1>3, <1>9, <1>12
  <2>2. Paid(Passed(k, w), bucket[k], w)'
    BY <1>7, <2>1 DEF WindowPaid, Paid
  <2> HIDE DEF n
  <2> QED
    BY <1>1, <1>7, <1>11, <2>1, <2>2 DEF WindowPaid, n
<1>13. CASE k = key
  <2>1. bucket'[k] = new
    BY <1>2, <1>3, <1>13 DEF LimiterInv, LockInv, Limiter!TypeOK
  <2>2. Paid(n, bucket[k], w) /\ (n # 0 => w <= at)
    BY <1>1, <1>7 DEF WindowPaid
  <2> HIDE DEF n
  <2>3. Paid(n, new, w) /\ (w <= at => Paid(n + 1, new, w))
    <3>1. Limiter!Abstract!Refilled(bucket[key], at).available > 0
      BY <1>2
    <3> HIDE DEF at, key
    <3> QED
      BY <1>2, <1>7, <1>10, <1>13, <2>2, <3>1, TakePays
  <2>4. CASE Limiter!Within(w, at)
    <3>1. w <= at /\ at <= w + Limiter!Every
      BY <2>4 DEF Limiter!Within
    <3>2. n + 1 \in Nat /\ Paid(n + 1, new, w) /\ new.last <= w + Limiter!Every
      <4>1. new.last \in Nat
        BY <1>4 DEF Limiter!Abstract!Bucket
      <4> HIDE DEF new, at
      <4> QED
        BY <1>2, <1>4, <1>7, <1>10, <2>3, <3>1, <4>1
    <3>3. n + 1 <= 2 * Capacity
      <4> HIDE DEF new
      <4> QED
        BY <1>4, <1>10, <3>2, PaidIsBounded
    <3>4. Passed(k, w)' = n + 1
      BY <1>9, <1>13, <2>4
    <3>5. Paid(Passed(k, w), bucket[k], w)'
      BY <2>1, <3>2, <3>4 DEF Paid
    <3>6. w <= time'
      BY <1>1, <1>2, <1>10, <3>1
    <3> QED
      BY <1>11, <3>3, <3>4, <3>5, <3>6 DEF WindowPaid
  <2>5. CASE ~Limiter!Within(w, at)
    <3>1. Passed(k, w)' = n
      BY <1>9, <2>5
    <3>2. Paid(Passed(k, w), bucket[k], w)'
      BY <2>1, <2>3, <3>1 DEF Paid
    <3> QED
      BY <1>1, <1>7, <1>11, <3>1, <3>2 DEF WindowPaid, n
  <2> QED
    BY <2>4, <2>5
<1> QED
  BY <1>12, <1>13

\* AmountInv holds in the beginning, where nothing has passed.
LEMMA AmountInit == Limiter!LimiterAssumption /\ Limiter!Init => AmountInv
<1> SUFFICES ASSUME Limiter!LimiterAssumption, Limiter!Init,
                    NEW k \in Key, NEW w \in Window
             PROVE  WindowPaid(k, w)
  BY DEF AmountInv
<1>1. ~Pending(k, w) /\ admitted[k][w] = 0
  BY DEF Limiter!Init, Pending
<1>2. Passed(k, w) = 0 /\ Capacity \in Nat
  BY <1>1 DEF Passed, Limiter!LimiterAssumption
<1> QED
  BY <1>2 DEF WindowPaid, Paid

\* LimiterInv /\ AmountInv /\ [Next]_vars => AmountInv'.
LEMMA AmountStep ==
    Limiter!LimiterAssumption /\ LimiterInv /\ LimiterInv' /\ AmountInv
        /\ [Limiter!Next]_Limiter!vars => AmountInv'
<1> SUFFICES ASSUME Limiter!LimiterAssumption, LimiterInv, LimiterInv', AmountInv,
                    [Limiter!Next]_Limiter!vars
             PROVE  AmountInv'
  OBVIOUS
<1>1. Limiter!TypeOK /\ Limiter!TypeOK' /\ time \in Nat /\ time' \in Nat
  BY DEF LimiterInv, LockInv, Limiter!TypeOK
<1> DEFINE SameWho ==
             \A q \in Client :
               /\ place'[q] = "unlock" /\ client'[q].reply = "ok"
                    <=> place[q] = "unlock" /\ client[q].reply = "ok"
               /\ place[q] = "unlock" => client'[q] = client[q]
           LaterWriters ==
             \A q \in Client : place'[q] = "write" =>
               \/ client'[q].at = time
               \/ place[q] = "write" /\ client'[q].at = client[q].at
<1>2. ASSUME SameWho, LaterWriters, bucket' = bucket, admitted' = admitted, time <= time'
      PROVE  AmountInv'
  <2>1. \A k \in Key, w \in Window : Passed(k, w) \in Nat /\ Passed(k, w)' = Passed(k, w)
    BY <1>1, <1>2, SamePassed, PassedType
  <2> QED
    BY <1>1, <1>2, <2>1, QuietAmounts
<1>3. CASE Limiter!Tick
  <2>1. SameWho /\ LaterWriters
    BY <1>3 DEF Limiter!Tick
  <2> HIDE DEF SameWho, LaterWriters
  <2> QED
    BY <1>1, <1>2, <1>3, <2>1 DEF Limiter!Tick
<1>4. ASSUME NEW r \in Client, NEW k \in Key, Limiter!ForKey(r, k) PROVE AmountInv'
  <2>1. SameWho /\ LaterWriters
    BY <1>1, <1>4 DEF Limiter!ForKey, Limiter!Goto, Limiter!TypeOK
  <2> HIDE DEF SameWho, LaterWriters
  <2> QED
    BY <1>1, <1>2, <1>4, <2>1 DEF Limiter!ForKey
<1>5. ASSUME NEW r \in Client, Limiter!Lock(r) PROVE AmountInv'
  <2>1. SameWho /\ LaterWriters
    BY <1>1, <1>5 DEF Limiter!Lock, Limiter!Goto, Limiter!TypeOK
  <2> HIDE DEF SameWho, LaterWriters
  <2> QED
    BY <1>1, <1>2, <1>5, <2>1 DEF Limiter!Lock
<1>6. ASSUME NEW r \in Client, Limiter!LockFails(r) PROVE AmountInv'
  <2>1. SameWho /\ LaterWriters
    BY <1>1, <1>6 DEF Limiter!LockFails, Limiter!Goto, Limiter!TypeOK
  <2> HIDE DEF SameWho, LaterWriters
  <2> QED
    BY <1>1, <1>2, <1>6, <2>1 DEF Limiter!LockFails
<1>7. ASSUME NEW r \in Client, Limiter!ReadState(r) PROVE AmountInv'
  <2> DEFINE none == Limiter!Abstract!Refilled(bucket[client[r].key], time).available = 0
  <2>1. /\ place[r] = "read" /\ place' = [place EXCEPT ![r] = IF none THEN "unlock" ELSE "write"]
        /\ place'[r] = IF none THEN "unlock" ELSE "write"
        /\ \A q \in Client \ {r} : place'[q] = place[q] /\ client'[q] = client[q]
        /\ client'[r].at = time /\ client'[r].reply = IF none THEN "limited" ELSE "none"
    BY <1>1, <1>7 DEF Limiter!ReadState, Limiter!Goto, Limiter!TypeOK
  <2> HIDE DEF none
  <2>2. SameWho /\ LaterWriters
    BY <2>1
  <2> HIDE DEF SameWho, LaterWriters
  <2> QED
    BY <1>1, <1>2, <1>7, <2>2 DEF Limiter!ReadState
<1>8. ASSUME NEW r \in Client, Limiter!SetState(r) PROVE AmountInv'
  BY <1>8, SetStateAmounts
<1>9. ASSUME NEW r \in Client, Limiter!StateFails(r) PROVE AmountInv'
  <2>1. SameWho /\ LaterWriters
    BY <1>1, <1>9 DEF Limiter!StateFails, Limiter!Goto, Limiter!TypeOK
  <2> HIDE DEF SameWho, LaterWriters
  <2> QED
    BY <1>1, <1>2, <1>9, <2>1 DEF Limiter!StateFails
<1>10. ASSUME NEW r \in Client, Limiter!Unlock(r) \/ Limiter!ReleaseFails(r) PROVE AmountInv'
  <2>1. Limiter!Leave(r)
    BY <1>10 DEF Limiter!Unlock, Limiter!ReleaseFails
  <2>2. \A k \in Key, w \in Window : Passed(k, w) \in Nat /\ Passed(k, w)' = Passed(k, w)
    BY <1>1, <2>1, UnlockAmounts, PassedType
  <2>3. LaterWriters
    BY <1>1, <2>1 DEF Limiter!Leave, Limiter!Goto, Limiter!TypeOK
  <2> QED
    BY <1>1, <2>1, <2>2, <2>3, QuietAmounts DEF Limiter!Leave
<1>12. ASSUME NEW n \in Node, Limiter!Crash(n) PROVE AmountInv'
  <2>1. \A q \in Client : place'[q] # "idle" => place'[q] = place[q] /\ client'[q] = client[q]
    BY <1>1, <1>12 DEF Limiter!Crash, Limiter!TypeOK
  <2>2. LaterWriters
    BY <2>1
  <2>3. ASSUME NEW k \in Key, NEW w \in Window PROVE Passed(k, w)' <= Passed(k, w)
    <3>1. Pending(k, w)' => Pending(k, w)
      BY <2>1 DEF Pending, Limiter!Within
    <3>2. admitted' = admitted /\ admitted[k][w] \in Nat
      BY <1>1, <1>12, PassedType DEF Limiter!Crash
    <3> QED
      BY <3>1, <3>2 DEF Passed
  <2> HIDE DEF LaterWriters
  <2>4. LaterWriters /\ bucket' = bucket /\ time' = time
    BY <1>12, <2>2 DEF Limiter!Crash
  <2> QED
    BY <1>1, <2>3, <2>4, QuietAmounts DEF LaterWriters
<1>11. CASE UNCHANGED Limiter!vars
  <2>1. SameWho /\ LaterWriters
    BY <1>11 DEF Limiter!vars
  <2> HIDE DEF SameWho, LaterWriters
  <2> QED
    BY <1>1, <1>2, <1>11, <2>1 DEF Limiter!vars
<1> QED
  BY <1>3, <1>4, <1>5, <1>6, <1>7, <1>8, <1>9, <1>10, <1>11, <1>12
  DEF Limiter!Next

\* Reading the bucket and writing it in two calls amounts to taking a token in one
\* step, for every key and all processes: the rate limiter implements the token
\* bucket.  In a time of `every` a key is let through at most twice `amount` times.
THEOREM LimiterImplementsTokenBucket ==
    ASSUME Limiter!LimiterAssumption, Limiter!HoldAssumption
    PROVE  Limiter!Spec => ImplementsTokenBucket
<1>1. Limiter!Init => Limiter!Abstract!Init
  BY DEF Limiter!Init, Limiter!Abstract!Init
<1>2. Limiter!Spec => []LimiterInv
  BY LimiterInit, LimiterStep, PTL DEF Limiter!Spec
<1>3. Limiter!Spec => Limiter!ImplementsTokenBucket
  BY <1>1, <1>2, LimiterRefines, PTL DEF Limiter!Spec, Limiter!ImplementsTokenBucket,
     Limiter!Abstract!Spec
<1>4. LimiterInv /\ AmountInv => Limiter!AtMostTwiceAmount
  <2> SUFFICES ASSUME LimiterInv, AmountInv,
                      NEW k \in Key, NEW w \in Window
               PROVE  admitted[k][w] <= 2 * Capacity
    BY DEF Limiter!AtMostTwiceAmount
  <2>1. Passed(k, w) <= 2 * Capacity /\ admitted[k][w] \in Nat
    BY PassedType DEF AmountInv, WindowPaid, LimiterInv, LockInv
  <2> QED
    BY <2>1 DEF Passed, Limiter!LimiterAssumption
<1>5. Limiter!Spec => []Limiter!AtMostTwiceAmount
  BY <1>2, <1>4, AmountInit, AmountStep, PTL DEF Limiter!Spec
<1> QED
  BY <1>3, <1>5 DEF ImplementsTokenBucket

----------------------------------------------------------------------------
(* Login credentials (LoginTokens): the inductive invariant                *)

\* A request that is about to call SetNX parsed its token not too long ago, on a
\* server whose clock had not reached the token's expiry, and took the time to
\* live from that clock.
PendingInv ==
    \A p \in Request : pc[p] = "setNX" =>
        LET l == local[p]
        IN  /\ l.token \in DOMAIN issued
            /\ l.parsedAt <= now /\ now <= l.parsedAt + Stall
            /\ l.parsedAt + Skew[l.server] < issued[l.token].exp
            /\ l.ttl = issued[l.token].exp - (l.parsedAt + Skew[l.server]) + Wiggle

\* A key is kept until no server can accept the token and none is about to.
KeyInv ==
    \A t \in DOMAIN consumed :
        t \in DOMAIN issued /\ \A s \in Server : issued[t].exp + Stall <= consumed[t] + Skew[s]

\* A token that has logged somebody in is in Redis, or too old for every server.
SpentInv ==
    \A t \in Token : logins[t] # 0 =>
        /\ t \in DOMAIN issued
        /\ t \in DOMAIN consumed \/ \A s \in Server : issued[t].exp + Stall <= now + Skew[s]

\* A nonce that has logged somebody in is marked in its row.
NonceInv ==
    \A v \in Nonce : nonceLogins[v] # 0 => v \in DOMAIN nonces /\ nonces[v].consumed

\* The inductive invariant of tokens and nonces.
LoginInv ==
    /\ TypeOK
    /\ PendingInv
    /\ KeyInv
    /\ SpentInv
    /\ OneTimeTokenOnce
    /\ NonceInv
    /\ NonceOnce

----------------------------------------------------------------------------
\* A state that has nothing issued satisfies the inductive invariant.
LEMMA LoginInit == Init => LoginInv
<1> SUFFICES ASSUME Init PROVE LoginInv
  OBVIOUS
<1>1. \A s \in Server : NewLocal(s) \in Local
  BY DEF NewLocal, Local
<1>2. TypeOK
  BY <1>1 DEF Init, TypeOK, Stage
<1> QED
  BY <1>2 DEF Init, LoginInv, PendingInv, KeyInv, SpentInv, OneTimeTokenOnce, NonceInv, NonceOnce

\* Time passes: no request outstays its stall, and a key that Redis drops is that
\* of a token too old for every server.
LEMMA TickStep == ASSUME LoginInv, Tick PROVE LoginInv'
<1> USE DEF LoginInv, Tick
<1>1. TypeOK'
  BY DEF TypeOK
<1>2. PendingInv'
  <2> SUFFICES ASSUME NEW p \in Request, pc[p] = "setNX"
               PROVE  local[p].parsedAt <= now' /\ now' <= local[p].parsedAt + Stall
    BY DEF PendingInv
  <2>1. local[p].parsedAt \in Nat /\ now \in Nat
    BY DEF TypeOK, Local
  <2>2. local[p].parsedAt <= now /\ now < local[p].parsedAt + Stall
    BY DEF PendingInv
  <2> QED
    BY <2>1, <2>2, TimeAssumption
<1>3. KeyInv'
  BY DEF KeyInv
<1>4. SpentInv'
  <2> SUFFICES ASSUME NEW t \in Token, logins[t] # 0
               PROVE  /\ t \in DOMAIN issued
                      /\ t \in DOMAIN consumed' \/ \A s \in Server : issued[t].exp + Stall <= now' + Skew[s]
    BY DEF SpentInv
  <2>1. t \in DOMAIN issued /\ issued[t].exp \in Nat /\ now \in Nat /\ now' = now + 1
    BY DEF SpentInv, TypeOK, Claims
  <2>2. CASE t \in DOMAIN consumed'
    BY <2>1, <2>2
  <2>3. CASE t \in DOMAIN consumed /\ t \notin DOMAIN consumed'
    <3>1. ~(now' < consumed[t]) /\ consumed[t] \in Nat
      BY <2>3 DEF TypeOK
    <3>2. ASSUME NEW s \in Server PROVE issued[t].exp + Stall <= now' + Skew[s]
      <4>1. issued[t].exp + Stall <= consumed[t] + Skew[s]
        BY <2>3 DEF KeyInv
      <4>2. Skew[s] \in Nat /\ Stall \in Nat
        BY TimeAssumption
      <4> QED
        BY <2>1, <3>1, <4>1, <4>2
    <3> QED
      BY <2>1, <3>2
  <2>4. CASE t \notin DOMAIN consumed
    <3>1. ASSUME NEW s \in Server PROVE issued[t].exp + Stall <= now' + Skew[s]
      <4>1. issued[t].exp + Stall <= now + Skew[s]
        BY <2>4 DEF SpentInv
      <4>2. Skew[s] \in Nat /\ Stall \in Nat
        BY TimeAssumption
      <4> QED
        BY <2>1, <4>1, <4>2
    <3> QED
      BY <2>1, <3>1
  <2> QED
    BY <2>2, <2>3, <2>4
<1>5. OneTimeTokenOnce' /\ NonceInv' /\ NonceOnce'
  BY DEF OneTimeTokenOnce, NonceInv, NonceOnce
<1> QED
  BY <1>1, <1>2, <1>3, <1>4, <1>5

\* A new token changes nothing about those that were issued before.
LEMMA GenerateTokenStep ==
    ASSUME LoginInv, NEW s \in Server, NEW t \in Token, GenerateOneTimeLoginToken(s, t)
    PROVE  LoginInv'
<1> USE DEF LoginInv, GenerateOneTimeLoginToken
<1>1. /\ DOMAIN issued' = DOMAIN issued \cup {t}
      /\ \A x \in DOMAIN issued : issued'[x] = issued[x]
  OBVIOUS
<1>2. issued'[t] \in Claims
  BY TimeAssumption DEF clock, Claims, TypeOK
<1>3. TypeOK'
  BY <1>1, <1>2 DEF TypeOK
<1>4. PendingInv' /\ KeyInv' /\ SpentInv'
  BY <1>1 DEF PendingInv, KeyInv, SpentInv
<1>5. OneTimeTokenOnce' /\ NonceInv' /\ NonceOnce'
  BY DEF OneTimeTokenOnce, NonceInv, NonceOnce
<1> QED
  BY <1>3, <1>4, <1>5

\* A step that leaves clock, tokens, nonces and history alone and takes no request
\* to SetNX keeps the inductive invariant.
LEMMA QuietStep ==
    ASSUME LoginInv, NEW p \in Request, NEW stage \in Stage \ {"setNX"}, NEW l \in Local,
           pc' = [pc EXCEPT ![p] = stage], local' = [local EXCEPT ![p] = l],
           UNCHANGED <<now, issued, consumed, logins>>,
           TypeOK', NonceInv', NonceOnce'
    PROVE  LoginInv'
<1>1. PendingInv'
  BY DEF LoginInv, PendingInv, TypeOK
<1> QED
  BY <1>1 DEF LoginInv, KeyInv, SpentInv, OneTimeTokenOnce

\* A request that returns goes back to a server's empty locals.
LEMMA ReturnFacts ==
    ASSUME TypeOK, NEW p \in Request, Return(p)
    PROVE  /\ pc' = [pc EXCEPT ![p] = "idle"]
           /\ local' = [local EXCEPT ![p] = NewLocal(local[p].server)]
           /\ NewLocal(local[p].server) \in Local
  BY DEF TypeOK, Return, Goto, NewLocal, Local

\* A token that is accepted has not expired on its server, and the key's time to
\* live is reckoned from the same clock.
LEMMA ParseStep ==
    ASSUME LoginInv, NEW p \in Request, NEW s \in Server, NEW t \in Token,
           ParseOneTimeLoginToken(p, s, t)
    PROVE  LoginInv'
<1> DEFINE l == [NewLocal(s) EXCEPT !.token = t, !.parsedAt = now, !.ttl = ttl(s, t)]
<1>1. /\ now \in Nat /\ Skew[s] \in Nat /\ Wiggle \in Nat /\ Stall \in Nat
      /\ issued[t].exp \in Nat /\ t \in DOMAIN issued
  BY TimeAssumption DEF LoginInv, TypeOK, Claims, ParseOneTimeLoginToken
<1>2. now + Skew[s] < issued[t].exp
  BY DEF ParseOneTimeLoginToken, clock
<1>3. ttl(s, t) = issued[t].exp - (now + Skew[s]) + Wiggle /\ ttl(s, t) \in Nat
  BY <1>1, <1>2 DEF ttl, clock
<1>4. /\ l.token = t /\ l.parsedAt = now /\ l.ttl = ttl(s, t) /\ l.server = s /\ l \in Local
  BY <1>1, <1>3 DEF NewLocal, Local
<1>5. /\ pc' = [pc EXCEPT ![p] = "setNX"] /\ local' = [local EXCEPT ![p] = l]
      /\ UNCHANGED <<now, issued, consumed, nonces, logins, nonceLogins>>
  BY DEF ParseOneTimeLoginToken, Goto
<1> HIDE DEF l
<1>6. TypeOK'
  BY <1>4, <1>5 DEF LoginInv, TypeOK, Stage
<1>7. PendingInv'
  <2> SUFFICES ASSUME NEW q \in Request, pc'[q] = "setNX"
               PROVE  /\ local'[q].token \in DOMAIN issued
                      /\ local'[q].parsedAt <= now /\ now <= local'[q].parsedAt + Stall
                      /\ local'[q].parsedAt + Skew[local'[q].server] < issued[local'[q].token].exp
                      /\ local'[q].ttl = issued[local'[q].token].exp
                                           - (local'[q].parsedAt + Skew[local'[q].server]) + Wiggle
    BY <1>5 DEF PendingInv
  <2>1. CASE q = p
    <3>1. local'[q] = l
      BY <1>5, <2>1 DEF LoginInv, TypeOK
    <3> QED
      BY <1>1, <1>2, <1>3, <1>4, <3>1
  <2>2. CASE q # p
    <3>1. local'[q] = local[q] /\ pc[q] = "setNX"
      BY <1>5, <2>2 DEF LoginInv, TypeOK
    <3> QED
      BY <3>1 DEF LoginInv, PendingInv
  <2> QED
    BY <2>1, <2>2
<1> QED
  BY <1>5, <1>6, <1>7 DEF LoginInv, KeyInv, SpentInv, OneTimeTokenOnce, NonceInv, NonceOnce

\* SetNX succeeds: the token was not used before, since it is neither in Redis nor
\* too old, and the key it leaves outlives the token on every server.
LEMMA SetNXStep ==
    ASSUME LoginInv, NEW p \in Request, SetNX(p),
           \/ logins' = [logins EXCEPT ![local[p].token] = @ + 1]
           \/ UNCHANGED logins
    PROVE  LoginInv'
<1> DEFINE t == local[p].token
           s == local[p].server
           at == local[p].parsedAt
           key == now + local[p].ttl
<1>1. /\ t \in DOMAIN issued
      /\ at <= now /\ now <= at + Stall
      /\ at + Skew[s] < issued[t].exp
      /\ local[p].ttl = issued[t].exp - (at + Skew[s]) + Wiggle
  BY DEF LoginInv, PendingInv, SetNX
<1>2. /\ t \in Token /\ s \in Server /\ at \in Nat /\ now \in Nat /\ issued[t].exp \in Nat
      /\ local[p].ttl \in Nat
  BY <1>1 DEF LoginInv, TypeOK, Local, Claims
<1>3. \A x \in Server : Skew[x] \in Nat /\ Wiggle \in Nat /\ Stall \in Nat
  BY TimeAssumption
<1>4. /\ t \notin DOMAIN consumed
      /\ DOMAIN consumed' = DOMAIN consumed \cup {t}
      /\ consumed'[t] = key
      /\ \A x \in DOMAIN consumed : consumed'[x] = consumed[x]
      /\ logins' = [logins EXCEPT ![t] = @ + 1] \/ UNCHANGED logins
      /\ UNCHANGED <<now, issued, nonces, nonceLogins>>
      /\ Return(p)
  BY DEF SetNX
<1>5. logins[t] = 0
  <2> SUFFICES ASSUME logins[t] # 0 PROVE FALSE
    OBVIOUS
  <2>1. issued[t].exp + Stall <= now + Skew[s]
    BY <1>2, <1>4 DEF LoginInv, SpentInv
  <2> QED
    BY <1>1, <1>2, <1>3, <2>1
<1>6. \A x \in Server : issued[t].exp + Stall <= key + Skew[x]
  <2> SUFFICES ASSUME NEW x \in Server PROVE issued[t].exp + Stall <= key + Skew[x]
    OBVIOUS
  <2>1. Skew[s] + Stall <= Skew[x] + Wiggle
    BY <1>2, WiggleAssumption
  <2>2. Skew[s] \in Nat /\ Skew[x] \in Nat
    BY <1>2, <1>3
  <2> QED
    BY <1>1, <1>2, <1>3, <2>1, <2>2
<1>7. /\ pc' = [pc EXCEPT ![p] = "idle"]
      /\ local' = [local EXCEPT ![p] = NewLocal(s)]
      /\ NewLocal(s) \in Local
  BY <1>4, ReturnFacts DEF LoginInv
<1>8. key \in Nat
  BY <1>2
<1> HIDE DEF t, s, at, key
<1>9. TypeOK'
  <2>1. consumed' \in [DOMAIN consumed' -> Nat] /\ DOMAIN consumed' \subseteq Token
    <3>1. consumed' = [x \in DOMAIN consumed' |-> consumed'[x]]
      BY DEF SetNX
    <3> QED
      BY <1>2, <1>4, <1>8, <3>1 DEF LoginInv, TypeOK
  <2>2. logins' \in [Token -> Nat]
    BY <1>2, <1>4 DEF LoginInv, TypeOK
  <2> QED
    BY <1>4, <1>7, <2>1, <2>2 DEF LoginInv, TypeOK, Stage
<1>10. PendingInv'
  BY <1>4, <1>7 DEF LoginInv, PendingInv, TypeOK
<1>11. KeyInv'
  BY <1>1, <1>4, <1>6 DEF LoginInv, KeyInv
<1>12. SpentInv'
  <2> SUFFICES ASSUME NEW x \in Token, logins'[x] # 0
               PROVE  /\ x \in DOMAIN issued
                      /\ x \in DOMAIN consumed' \/ \A y \in Server : issued[x].exp + Stall <= now + Skew[y]
    BY <1>4 DEF SpentInv
  <2>1. CASE x = t
    BY <1>1, <1>4, <2>1
  <2>2. CASE x # t
    <3>1. logins[x] # 0
      BY <1>4, <2>2 DEF LoginInv, TypeOK
    <3> QED
      BY <1>4, <3>1 DEF LoginInv, SpentInv
  <2> QED
    BY <2>1, <2>2
<1>13. OneTimeTokenOnce'
  BY <1>2, <1>4, <1>5 DEF LoginInv, OneTimeTokenOnce, TypeOK
<1> QED
  BY <1>4, <1>9, <1>10, <1>11, <1>12, <1>13 DEF LoginInv, NonceInv, NonceOnce

\* The row is marked by the step that lets the nonce in, and only an unmarked one is.
LEMMA UseNonceStep ==
    ASSUME LoginInv, NEW p \in Request, UseNonce(p),
           \/ nonceLogins' = [nonceLogins EXCEPT ![local[p].nonce] = @ + 1]
           \/ UNCHANGED nonceLogins
    PROVE  LoginInv'
<1> DEFINE v == local[p].nonce
<1>1. /\ v \in DOMAIN nonces /\ ~nonces[v].consumed
      /\ nonces' = [nonces EXCEPT ![v].consumed = TRUE]
      /\ nonceLogins' = [nonceLogins EXCEPT ![v] = @ + 1] \/ UNCHANGED nonceLogins
      /\ UNCHANGED <<now, issued, consumed, logins>>
      /\ Return(p)
  BY DEF UseNonce, consumable
<1>2. v \in Nonce /\ nonceLogins[v] = 0
  BY <1>1 DEF LoginInv, TypeOK, NonceInv
<1>3. /\ pc' = [pc EXCEPT ![p] = "idle"]
      /\ local' = [local EXCEPT ![p] = NewLocal(local[p].server)]
      /\ NewLocal(local[p].server) \in Local
  BY <1>1, ReturnFacts DEF LoginInv
<1> HIDE DEF v
<1>4. TypeOK'
  <2>1. nonces' \in [DOMAIN nonces -> NonceRow] /\ DOMAIN nonces' = DOMAIN nonces
    BY <1>1 DEF LoginInv, TypeOK, NonceRow
  <2>2. nonceLogins' \in [Nonce -> Nat]
    BY <1>1, <1>2 DEF LoginInv, TypeOK
  <2> QED
    BY <1>1, <1>3, <2>1, <2>2 DEF LoginInv, TypeOK, Stage
<1>5. NonceInv' /\ NonceOnce'
  <2>1. \A x \in Nonce : x # v => nonceLogins'[x] = nonceLogins[x]
    BY <1>1 DEF LoginInv, TypeOK
  <2>2. nonceLogins'[v] <= 1 /\ nonces'[v].consumed
    BY <1>1, <1>2 DEF LoginInv, TypeOK, NonceRow
  <2>3. DOMAIN nonces' = DOMAIN nonces /\ \A x \in DOMAIN nonces : x # v => nonces'[x] = nonces[x]
    BY <1>1
  <2>4. NonceInv'
    BY <1>1, <2>1, <2>2, <2>3 DEF LoginInv, NonceInv
  <2>5. NonceOnce'
    BY <2>1, <2>2 DEF LoginInv, NonceOnce
  <2> QED
    BY <2>4, <2>5
<1> QED
  BY <1>1, <1>3, <1>4, <1>5, QuietStep DEF Stage

\* A new nonce replaces no row.
LEMMA InsertNonceStep ==
    ASSUME LoginInv, NEW p \in Request, NEW v \in Nonce, InsertNonce(p, v)
    PROVE  LoginInv'
<1>1. /\ v \notin DOMAIN nonces
      /\ nonces' = [x \in DOMAIN nonces \cup {v} |->
                      IF x = v THEN [createdAt |-> now, consumed |-> FALSE] ELSE nonces[x]]
      /\ UNCHANGED <<now, issued, consumed, logins, nonceLogins>>
      /\ Return(p)
  BY DEF InsertNonce
<1>2. /\ pc' = [pc EXCEPT ![p] = "idle"]
      /\ local' = [local EXCEPT ![p] = NewLocal(local[p].server)]
      /\ NewLocal(local[p].server) \in Local
  BY <1>1, ReturnFacts DEF LoginInv
<1>3. TypeOK'
  <2>1. nonces' \in [DOMAIN nonces' -> NonceRow] /\ DOMAIN nonces' \subseteq Nonce
    BY <1>1 DEF LoginInv, TypeOK, NonceRow
  <2> QED
    BY <1>1, <1>2, <2>1 DEF LoginInv, TypeOK, Stage
<1>4. NonceInv' /\ NonceOnce'
  BY <1>1 DEF LoginInv, NonceInv, NonceOnce
<1> QED
  BY <1>1, <1>2, <1>3, <1>4, QuietStep DEF Stage

\* Steps that only move a request, and not to SetNX, keep the inductive invariant.
LEMMA LocalStep ==
    ASSUME LoginInv, NEW p \in Request, NEW stage \in Stage \ {"setNX"}, NEW l \in Local,
           pc' = [pc EXCEPT ![p] = stage], local' = [local EXCEPT ![p] = l],
           UNCHANGED <<now, issued, consumed, nonces, logins, nonceLogins>>
    PROVE  LoginInv'
<1>1. TypeOK'
  BY DEF LoginInv, TypeOK
<1>2. NonceInv' /\ NonceOnce'
  BY DEF LoginInv, NonceInv, NonceOnce
<1> QED
  BY <1>1, <1>2, QuietStep

\* Requests that return without having logged anybody in.
LEMMA RejectStep ==
    ASSUME LoginInv, NEW p \in Request, Return(p),
           UNCHANGED <<now, issued, consumed, nonces, logins, nonceLogins>>
    PROVE  LoginInv'
<1>1. /\ pc' = [pc EXCEPT ![p] = "idle"]
      /\ local' = [local EXCEPT ![p] = NewLocal(local[p].server)]
      /\ NewLocal(local[p].server) \in Local
  BY ReturnFacts DEF LoginInv
<1> QED
  BY <1>1, LocalStep DEF Stage

\* GenerateAuthNonce tries again or gives up.
LEMMA InsertFailsStep ==
    ASSUME LoginInv, NEW p \in Request, InsertNonceFails(p)
    PROVE  LoginInv'
<1>1. CASE local[p].attempt + 1 < Attempts
  <2>1. [local[p] EXCEPT !.attempt = @ + 1] \in Local
    BY DEF LoginInv, TypeOK, Local
  <2>2. pc' = [pc EXCEPT ![p] = "generateNonce"]
    BY <1>1 DEF InsertNonceFails, LoginInv, TypeOK
  <2> QED
    BY <1>1, <2>1, <2>2, LocalStep DEF InsertNonceFails, Stage
<1>2. CASE ~(local[p].attempt + 1 < Attempts)
  BY <1>2, RejectStep DEF InsertNonceFails
<1> QED
  BY <1>1, <1>2

\* Every step keeps the inductive invariant.
LEMMA LoginSteps == LoginInv /\ [Next]_vars => LoginInv'
<1> SUFFICES ASSUME LoginInv, [Next]_vars PROVE LoginInv'
  OBVIOUS
<1>1. CASE Tick
  BY <1>1, TickStep
<1>2. CASE \E s \in Server, t \in Token : GenerateOneTimeLoginToken(s, t)
  BY <1>2, GenerateTokenStep
<1>3. ASSUME NEW p \in Request, NEW s \in Server, NEW t \in Token, ParseOneTimeLoginToken(p, s, t)
      PROVE  LoginInv'
  BY <1>3, ParseStep
<1>4. ASSUME NEW p \in Request, ConsumeToken(p) \/ WasteToken(p) PROVE LoginInv'
  BY <1>4, SetNXStep DEF ConsumeToken, WasteToken
<1>5. ASSUME NEW p \in Request, TokenAlreadyUsed(p) PROVE LoginInv'
  BY <1>5, RejectStep DEF TokenAlreadyUsed
<1>6. ASSUME NEW p \in Request, NEW s \in Server, GenerateAuthNonce(p, s) PROVE LoginInv'
  <2>1. NewLocal(s) \in Local
    BY DEF NewLocal, Local
  <2> QED
    BY <1>6, <2>1, LocalStep DEF GenerateAuthNonce, Goto, Stage
<1>7. ASSUME NEW p \in Request, NEW v \in Nonce, InsertNonce(p, v) PROVE LoginInv'
  BY <1>7, InsertNonceStep
<1>8. ASSUME NEW p \in Request, InsertNonceFails(p) PROVE LoginInv'
  BY <1>8, InsertFailsStep
<1>9. ASSUME NEW p \in Request, NEW s \in Server, NEW v \in Nonce, VerifySignature(p, s, v) PROVE LoginInv'
  <2>1. [NewLocal(s) EXCEPT !.nonce = v] \in Local
    BY DEF NewLocal, Local
  <2> QED
    BY <1>9, <2>1, LocalStep DEF VerifySignature, Goto, Stage
<1>10. ASSUME NEW p \in Request, ConsumeNonce(p) \/ WasteNonce(p) PROVE LoginInv'
  BY <1>10, UseNonceStep DEF ConsumeNonce, WasteNonce
<1>11. ASSUME NEW p \in Request, NonceRejected(p) \/ StoreFails(p) PROVE LoginInv'
  BY <1>11, RejectStep DEF NonceRejected, StoreFails
<1>12. CASE UNCHANGED vars
  BY <1>12 DEF vars, LoginInv, TypeOK, PendingInv, KeyInv, SpentInv, OneTimeTokenOnce, NonceInv, NonceOnce
<1> QED
  BY <1>1, <1>2, <1>3, <1>4, <1>5, <1>6, <1>7, <1>8, <1>9, <1>10, <1>11, <1>12 DEF Next

\* The inductive invariant holds in every state the credentials can reach.
THEOREM LoginInvariance == Spec => []LoginInv
  BY LoginInit, LoginSteps, PTL DEF Spec

\* The variables of nonces and one-time tokens keep their types: the time to live
\* a server computes for the Redis key is never negative.
THEOREM LoginTypes == Spec => []TypeOK
<1>1. LoginInv => TypeOK
  BY DEF LoginInv
<1> QED
  BY <1>1, LoginInvariance, PTL

\* A one-time login token logs in at most one client, on any number of servers whose
\* clock differences and stalls the extra minute of the Redis key covers.
THEOREM TokensUsedOnce == Spec => []OneTimeTokenOnce
<1>1. LoginInv => OneTimeTokenOnce
  BY DEF LoginInv
<1> QED
  BY <1>1, LoginInvariance, PTL

\* A nonce authenticates at most one request, whatever requests present it at once.
THEOREM NoncesUsedOnce == Spec => []NonceOnce
<1>1. LoginInv => NonceOnce
  BY DEF LoginInv
<1> QED
  BY <1>1, LoginInvariance, PTL
=============================================================================
