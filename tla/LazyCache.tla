----------------------------- MODULE LazyCache -----------------------------
(***************************************************************************)
(* LazyCache.Load of service/redis, and dbidCache on top of it.  A load    *)
(* that misses computes the value from the database and stores it for TTL. *)
(* Computing reads the database at one moment and takes up to MaxCalc, so  *)
(* another load may store a newer value first.  A value is named by the    *)
(* time the data became what it is; replacedAt says until when it was.     *)
(***************************************************************************)
EXTENDS Naturals

CONSTANTS Loader, TTL, MaxCalc, MaxTime
LazyAssumption == TTL \in Nat \ {0} /\ MaxCalc \in Nat /\ MaxTime \in Nat

VARIABLES now, data, replacedAt, cache, pc, value, since, staleness
vars == <<now, data, replacedAt, cache, pc, value, since, staleness>>

Empty == [value |-> 0, expires |-> 0]

Init ==
    /\ now = 0 /\ data = 0
    /\ replacedAt = [v \in 0..MaxTime |-> 0]
    /\ cache = Empty
    /\ pc = [l \in Loader |-> "idle"]
    /\ value = [l \in Loader |-> 0] /\ since = [l \in Loader |-> 0]
    /\ staleness = 0

\* How long value v has not been the data any more.
Age(v) == IF v = data THEN 0 ELSE now - replacedAt[v]
Deliver(v) == staleness' = IF Age(v) > staleness THEN Age(v) ELSE staleness

Tick ==
    /\ now < MaxTime
    /\ \A l \in Loader : pc[l] = "set" => now < since[l] + MaxCalc
    /\ now' = now + 1
    /\ cache' = IF cache.expires <= now' THEN Empty ELSE cache
    /\ UNCHANGED <<data, replacedAt, pc, value, since, staleness>>

\* Somebody changes the rows the cached query reads.
Change ==
    /\ data # now
    /\ data' = now
    /\ replacedAt' = [replacedAt EXCEPT ![data] = now]
    /\ UNCHANGED <<now, cache, pc, value, since, staleness>>

\* Get finds the value: it is returned.
Hit(l) ==
    /\ pc[l] = "idle" /\ cache # Empty
    /\ Deliver(cache.value)
    /\ UNCHANGED <<now, data, replacedAt, cache, pc, value, since>>

Miss(l) ==
    /\ pc[l] = "idle" /\ cache = Empty
    /\ pc' = [pc EXCEPT ![l] = "calc"]
    /\ UNCHANGED <<now, data, replacedAt, cache, value, since, staleness>>

\* CalcFunc: dbidCache packs the IDs the query returns into a cursor.
Calc(l) ==
    /\ pc[l] = "calc"
    /\ value' = [value EXCEPT ![l] = data] /\ since' = [since EXCEPT ![l] = now]
    /\ pc' = [pc EXCEPT ![l] = "set"]
    /\ UNCHANGED <<now, data, replacedAt, cache, staleness>>

CalcFails(l) ==
    /\ pc[l] = "calc"
    /\ pc' = [pc EXCEPT ![l] = "idle"]
    /\ UNCHANGED <<now, data, replacedAt, cache, value, since, staleness>>

\* Mutant: the time to live is added twice.
expiry_Twice == now + 2 * TTL

expiry == now + TTL

\* Set overwrites whatever another load stored.  When it fails, dbidCache.Load
\* returns the error instead of the value.
Set(l) ==
    /\ pc[l] = "set"
    /\ \/ cache' = [value |-> value[l], expires |-> expiry] /\ Deliver(value[l])
       \/ UNCHANGED <<cache, staleness>>
    /\ pc' = [pc EXCEPT ![l] = "idle"]
    /\ UNCHANGED <<now, data, replacedAt, value, since>>

Next ==
    \/ Tick \/ Change
    \/ \E l \in Loader : Hit(l) \/ Miss(l) \/ Calc(l) \/ CalcFails(l) \/ Set(l)

Spec == Init /\ [][Next]_vars

----------------------------------------------------------------------------
\* What Load returns was the data less than TTL plus the time of one
\* computation ago, although an older value may overwrite a newer one.
StalenessBound == staleness < TTL + MaxCalc
=============================================================================
