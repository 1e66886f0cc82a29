------------------------------ MODULE MCRedis ------------------------------
(***************************************************************************)
(* What the system keeps in Redis for a while: used one-time login tokens  *)
(* (with the nonces in Postgres), the buckets of the rate limiters, and    *)
(* cached values.  The models do not interact; part says which of them a   *)
(* behaviour follows, and the variables of the others do not change.       *)
(***************************************************************************)
EXTENDS LoginTokens, TLC

CONSTANTS
    s1, s2,                                     \* servers
    Client, Node, NodeOf, Key, Nobody, NoKey,   \* RateLimiter
    Capacity, RefillRate, LockTTL, MaxHold, LimiterTime, Window, r3, n1, n2,
    SlowTTL, SlowHold, SlowTimeBound,
    Loader, TTL, MaxCalc, CacheTime             \* LazyCache

VARIABLES
    part,
    time, bucket, lock, handle, place, client, outstayed, admitted,
    slowTime, slowBucket, slowAdmitted,
    cacheNow, data, replacedAt, cache, loaderPc, value, since, staleness

limiterVars == <<time, bucket, lock, handle, place, client, outstayed, admitted>>
slowVars == <<slowTime, slowBucket, slowAdmitted>>
cacheVars == <<cacheNow, data, replacedAt, cache, loaderPc, value, since, staleness>>

Limiter ==
    INSTANCE RateLimiter WITH
        Request <- Client, MaxTime <- LimiterTime,
        now <- time, pc <- place, local <- client
\* The limiter whose requests may outstay their locks, with buckets of its own: they
\* implement no token bucket.
Slow ==
    INSTANCE RateLimiter WITH
        Request <- Client,
        LockTTL <- SlowTTL, MaxHold <- SlowHold, MaxTime <- SlowTimeBound, Window <- {},
        now <- slowTime, bucket <- slowBucket, admitted <- slowAdmitted,
        pc <- place, local <- client
Cache == INSTANCE LazyCache WITH MaxTime <- CacheTime, now <- cacheNow, pc <- loaderPc

ASSUME /\ Limiter!LimiterAssumption /\ Limiter!HoldAssumption
       /\ Slow!LimiterAssumption /\ Cache!LazyAssumption

MCInit ==
    /\ part \in {"login", "limiter", "slow", "cache"}
    /\ Init /\ (part # "login" => local = [p \in Request |-> NewLocal(s1)])
    /\ Limiter!Init /\ Slow!Init /\ Cache!Init

MCNext ==
    /\ UNCHANGED part
    /\ \/ part = "login" /\ Next /\ UNCHANGED <<limiterVars, slowVars, cacheVars>>
       \/ part = "limiter" /\ Limiter!Next /\ UNCHANGED <<vars, slowVars, cacheVars>>
       \/ /\ part = "slow" /\ Slow!Next
          /\ UNCHANGED <<vars, time, bucket, admitted, cacheVars>>
       \/ part = "cache" /\ Cache!Next /\ UNCHANGED <<vars, limiterVars, slowVars>>

MCSpec == MCInit /\ [][MCNext]_<<part, vars, limiterVars, slowVars, cacheVars>>

\* Server s2's clock is one second ahead.
MCSkew == [s \in Server |-> IF s = s2 THEN 1 ELSE 0]
\* Two requests of one process and one of another.
MCNodeOf == [r \in Client |-> IF r = r3 THEN n2 ELSE n1]

Symmetry == Permutations(Request) \cup Permutations(Key) \cup Permutations(Client \ {r3})

----------------------------------------------------------------------------
\* Whoever is at a bucket has the lock, in both limiters: only a request of its own
\* process that outstayed a lock can release it through the shared handle.
HolderHasLock == Limiter!TypeOK /\ Limiter!HolderHasLock

\* Reading the bucket, writing it and waiting for the lock amount to taking a
\* token in one step: the rate limiter implements the token bucket.  In a time of
\* `every` a key is let through at most twice `amount` times.
ImplementsTokenBucket == Limiter!ImplementsTokenBucket /\ []Limiter!AtMostTwiceAmount

\* A value that a LazyCache returns was true at most TTL plus the time of
\* computing it ago, although a slow load may store an old value over a new one.
StalenessBound == Cache!StalenessBound
=============================================================================
