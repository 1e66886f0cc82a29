---------------------------- MODULE RateLimiter ----------------------------
(***************************************************************************)
(* The rate limiters of service/limiters, as middleware.IPRateLimited uses *)
(* them.  A KeyRateLimiter has one token bucket in Redis for every key.  A *)
(* request reads the bucket and writes it back in two calls, between Lock  *)
(* and Unlock of a lock in Redis that expires after LockTTL, whether its   *)
(* holder is done or not.  A process keeps ONE handle of that lock,        *)
(* handle[n], for all keys of the limiter: Lock overwrites it, and Unlock  *)
(* releases whatever it holds by then.  A process may end at any time.     *)
(*                                                                         *)
(* The bucket's key expires when the bucket is full again, and an absent   *)
(* bucket is read as a full one, so that expiry is not told apart here.    *)
(* The token bucket and the lock client are external.                      *)
(***************************************************************************)
EXTENDS Naturals

CONSTANTS
    Request,     \* requests in flight at one time
    Node,        \* processes that share the limiter's name
    NodeOf,      \* the process of each request
    Key,
    Capacity, RefillRate,
    Nobody, NoKey,
    LockTTL,     \* the lock goes by itself after this time (1 second)
    MaxHold,     \* longest time from obtaining the lock to releasing it;
                 \* no bound at all if it is not less than MaxTime
    MaxTime,     \* bound on the clock
    Window       \* times from which on the requests let through are counted

LimiterAssumption ==
    /\ Capacity \in Nat \ {0} /\ RefillRate \in Nat \ {0}
    /\ LockTTL \in Nat /\ MaxHold \in Nat /\ MaxTime \in Nat
    /\ Window \subseteq Nat
    /\ NodeOf \in [Request -> Node] /\ Nobody \notin Request /\ NoKey \notin Key
\* A request is done with the bucket before the lock expires.  Nothing in the
\* code sees to that: the refinement of the token bucket assumes it.
HoldAssumption == MaxHold < LockTTL

VARIABLES
    now,
    bucket,    \* Redis: the bucket of each key
    lock,      \* Redis: who holds the lock and when it expires
    handle,    \* process -> the lock its distributedLock last obtained
    pc, local,
    outstayed, \* history: processes with a request that kept working on a
               \* bucket when its lock's time was over, until none is left
    admitted   \* history: for each key and window, the requests let through

vars == <<now, bucket, lock, handle, pc, local, outstayed, admitted>>

Abstract == INSTANCE TokenBucket

Free == [holder |-> Nobody, expires |-> 0]
NoLocal == [key |-> NoKey, at |-> 0, since |-> 0,
            state |-> Abstract!FullBucket(0), reply |-> "none"]
Stage == {"idle", "lock", "read", "write", "unlock"}

\* A window is a time of `every`, which fills an empty bucket.
Every == Capacity * RefillRate
Within(w, t) == w <= t /\ t <= w + Every

TypeOK ==
    /\ now \in Nat
    /\ bucket \in [Key -> Abstract!Bucket]
    /\ lock \in [holder : Request \cup {Nobody}, expires : Nat]
    /\ handle \in [Node -> Request \cup {Nobody}]
    /\ pc \in [Request -> Stage]
    /\ local \in [Request -> [key : Key \cup {NoKey}, at : Nat, since : Nat, state : Abstract!Bucket,
                              reply : {"none", "ok", "limited", "error"}]]
    /\ outstayed \subseteq Node
    /\ admitted \in [Key -> [Window -> Nat]]

Init ==
    /\ now = 0
    /\ bucket = [k \in Key |-> Abstract!FullBucket(0)]
    /\ lock = Free
    /\ handle = [n \in Node |-> Nobody]
    /\ pc = [r \in Request |-> "idle"]
    /\ local = [r \in Request |-> NoLocal]
    /\ outstayed = {}
    /\ admitted = [k \in Key |-> [w \in Window |-> 0]]

Goto(r, stage) == pc' = [pc EXCEPT ![r] = stage]
Holding == {"read", "write", "unlock"}

\* External: time passes and Redis drops a lock that expired.
Tick ==
    /\ now < MaxTime
    /\ \A r \in Request : pc[r] \in Holding => now < local[r].since + MaxHold
    /\ now' = now + 1
    /\ lock' = IF lock.expires <= now' THEN Free ELSE lock
    /\ outstayed' = outstayed \cup
         {NodeOf[r] : r \in {q \in Request : /\ pc[q] \in Holding
                                            /\ local[q].since + LockTTL <= now'}}
    /\ UNCHANGED <<bucket, handle, pc, local, admitted>>

\* ForKey: the bucket object of the key (one for each process) is entered
\* under its own mutex.
ForKey(r, k) ==
    /\ pc[r] = "idle"
    /\ \A q \in Request : pc[q] # "idle" /\ NodeOf[q] = NodeOf[r] => local[q].key # k
    /\ local' = [local EXCEPT ![r] = [NoLocal EXCEPT !.key = k]]
    /\ Goto(r, "lock")
    /\ UNCHANGED <<now, bucket, lock, handle, outstayed, admitted>>

\* A process whose requests are done starts with a clean record.
Rejoined(r) ==
    IF \E q \in Request : pc[q] \in Holding /\ NodeOf[q] = NodeOf[r]
    THEN outstayed ELSE outstayed \ {NodeOf[r]}

\* Mutant: the key is set although another request's lock is there.
Lock_Overwrite(r) ==
    /\ pc[r] = "lock"
    /\ lock' = [holder |-> r, expires |-> now + LockTTL]
    /\ handle' = [handle EXCEPT ![NodeOf[r]] = r]
    /\ local' = [local EXCEPT ![r].since = now]
    /\ outstayed' = Rejoined(r)
    /\ Goto(r, "read")
    /\ UNCHANGED <<now, bucket, admitted>>

\* Lock: Obtain sets the key if it is absent, and the handle is replaced.
Lock(r) ==
    /\ pc[r] = "lock" /\ lock.holder = Nobody
    /\ lock' = [holder |-> r, expires |-> now + LockTTL]
    /\ handle' = [handle EXCEPT ![NodeOf[r]] = r]
    /\ local' = [local EXCEPT ![r].since = now]
    /\ outstayed' = Rejoined(r)
    /\ Goto(r, "read")
    /\ UNCHANGED <<now, bucket, admitted>>

\* Obtain gave up after ten tries or Redis failed: Limit returns the error.
LockFails(r) ==
    /\ pc[r] = "lock"
    /\ local' = [local EXCEPT ![r] = NoLocal]
    /\ Goto(r, "idle")
    /\ UNCHANGED <<now, bucket, lock, handle, outstayed, admitted>>

\* Limit reads the bucket and the clock, and fails when no token is left.
ReadState(r) ==
    LET k == local[r].key
        state == Abstract!Refilled(bucket[k], now) IN
    /\ pc[r] = "read"
    /\ local' = [local EXCEPT ![r].at = now, ![r].state = state,
                              ![r].reply = IF state.available = 0 THEN "limited" ELSE "none"]
    /\ Goto(r, IF state.available = 0 THEN "unlock" ELSE "write")
    /\ UNCHANGED <<now, bucket, lock, handle, outstayed, admitted>>

\* Mutant: the bucket is written back as it was read.
SetState_NoTake(r) ==
    /\ pc[r] = "write"
    /\ bucket' = [bucket EXCEPT ![local[r].key] = local[r].state]
    /\ local' = [local EXCEPT ![r].reply = "ok"]
    /\ Goto(r, "unlock")
    /\ UNCHANGED <<now, lock, handle, outstayed, admitted>>

\* Limit writes the bucket back with one token less.
SetState(r) ==
    /\ pc[r] = "write"
    /\ bucket' = [bucket EXCEPT ![local[r].key] =
                    [local[r].state EXCEPT !.available = @ - 1]]
    /\ local' = [local EXCEPT ![r].reply = "ok"]
    /\ Goto(r, "unlock")
    /\ UNCHANGED <<now, lock, handle, outstayed, admitted>>

\* Reading or writing the bucket failed.
StateFails(r) ==
    /\ pc[r] \in {"read", "write"}
    /\ local' = [local EXCEPT ![r].reply = "error"]
    /\ Goto(r, "unlock")
    /\ UNCHANGED <<now, bucket, lock, handle, outstayed, admitted>>

\* IPRateLimited: an error and an empty bucket both end the request.
canContinue(reply) == reply = "ok"

\* Release deletes the key if it still has the value of the handle's lock.
Released(h) == IF lock.holder = h THEN Free ELSE lock

\* The request goes on after Unlock, whose error is only logged.
Leave(r) ==
    /\ pc[r] = "unlock"
    /\ admitted' = IF canContinue(local[r].reply)
                   THEN [admitted EXCEPT ![local[r].key] =
                           [w \in Window |-> IF Within(w, local[r].at) THEN @[w] + 1 ELSE @[w]]]
                   ELSE admitted
    /\ local' = [local EXCEPT ![r] = NoLocal]
    /\ Goto(r, "idle")
    /\ UNCHANGED <<now, bucket, handle, outstayed>>

\* Unlock releases the lock in the process's handle, which may be another
\* request's by now.
Unlock(r) == lock' = Released(handle[NodeOf[r]]) /\ Leave(r)

\* Release failed: the lock stays until its time is over.
ReleaseFails(r) == lock' = lock /\ Leave(r)

\* The process ends with its requests and its handle; the lock in Redis stays
\* until its time is over.
Crash(n) ==
    LET mine == {r \in Request : NodeOf[r] = n} IN
    /\ \E r \in mine : pc[r] # "idle"
    /\ pc' = [r \in Request |-> IF r \in mine THEN "idle" ELSE pc[r]]
    /\ local' = [r \in Request |-> IF r \in mine THEN NoLocal ELSE local[r]]
    /\ handle' = [handle EXCEPT ![n] = Nobody]
    /\ outstayed' = outstayed \ {n}
    /\ UNCHANGED <<now, bucket, lock, admitted>>

Next ==
    \/ Tick
    \/ \E n \in Node : Crash(n)
    \/ \E r \in Request :
        \/ \E k \in Key : ForKey(r, k)
        \/ Lock(r) \/ LockFails(r) \/ ReadState(r) \/ SetState(r) \/ StateFails(r)
        \/ Unlock(r) \/ ReleaseFails(r)

Spec == Init /\ [][Next]_vars

----------------------------------------------------------------------------
\* A request that works on the buckets holds the lock in Redis, and its process's
\* handle is that lock's, unless a request of its own process has outstayed a lock:
\* then that one's Unlock may release it through the shared handle.  Whatever the
\* other processes do, be they late, crashed or unable to release, takes it from
\* nobody.
HolderHasLock ==
    \A r \in Request : pc[r] \in Holding /\ NodeOf[r] \notin outstayed =>
        /\ lock.holder = r
        /\ handle[NodeOf[r]] = r

\* In a time of `every` a key is let through at most twice `amount` times: a
\* full bucket, and what is refilled meanwhile.
AtMostTwiceAmount ==
    \A k \in Key, w \in Window : admitted[k][w] <= 2 * Capacity

\* Locked read and write of a bucket in two calls are one step of a token
\* bucket, for all processes and keys that share the limiter.
ImplementsTokenBucket == Abstract!Spec
=============================================================================
