------------------------------ MODULE Throttle ------------------------------
(***************************************************************************)
(* The Locker of service/throttle: a task locks a key in Redis before it   *)
(* runs and unlocks it afterwards; the key expires after Expiry.  Lock     *)
(* looks for the key and sets it in two calls.  ttl is the time the key    *)
(* still has, 0 when it is absent.                                         *)
(***************************************************************************)
EXTENDS Naturals

CONSTANTS Task, Expiry
ExpiryAssumption == Expiry \in Nat \ {0}

VARIABLES ttl, pc
vars == <<ttl, pc>>

Init == ttl = 0 /\ pc = [t \in Task |-> "idle"]

Goto(t, stage) == pc' = [pc EXCEPT ![t] = stage]

\* Lock, first call: IsLocked finds no key.  If it finds one, Lock returns
\* ErrThrottleLocked and the task stays where it is.
IsLocked(t) == pc[t] = "idle" /\ ttl = 0 /\ Goto(t, "set") /\ UNCHANGED ttl

\* Mutant: the key is stored without an expiry.
Expires_Never == ttl

\* Redis counts the key's time down.
Expires == ttl - 1

\* Lock, second call: Set succeeds whatever is there by now.
Set(t) == pc[t] = "set" /\ ttl' = Expiry /\ Goto(t, "running")

\* Set failed: Lock returns the error.
SetFails(t) == pc[t] = "set" /\ Goto(t, "idle") /\ UNCHANGED ttl

\* Unlock deletes the key, whoever has set it.
Unlock(t) == pc[t] = "running" /\ ttl' = 0 /\ Goto(t, "idle")

\* The process ends before it unlocks.
Crash(t) == pc[t] \in {"set", "running"} /\ Goto(t, "crashed") /\ UNCHANGED ttl

Tick == ttl > 0 /\ ttl' = Expires /\ UNCHANGED pc

Next ==
    \/ Tick
    \/ \E t \in Task : IsLocked(t) \/ Set(t) \/ SetFails(t) \/ Unlock(t) \/ Crash(t)

Spec == Init /\ [][Next]_vars

----------------------------------------------------------------------------
\* The comment of Locker: the expiry ensures that no state is locked
\* indefinitely.  The key is absent again and again, although tasks crash
\* while they hold it and others set it again.
NeverLockedForever == []<>(ttl = 0)

\* The comment of Locker: it ensures a task is not being done twice at the
\* same time.
NotDoneTwice == \A t, u \in Task : pc[t] = "running" /\ pc[u] = "running" => t = u
=============================================================================
