---------------------------- MODULE TokenBucket ----------------------------
(***************************************************************************)
(* What a rate limiter promises: every key has a bucket of at most         *)
(* Capacity tokens that gains one every RefillRate, and an admission takes *)
(* a token in one step, reckoned at a time at that has already come.       *)
(***************************************************************************)
EXTENDS Naturals

CONSTANTS Key, Capacity, RefillRate

BucketAssumption == Capacity \in Nat \ {0} /\ RefillRate \in Nat \ {0}

VARIABLES now, bucket

Bucket == [last : Nat, available : 0..Capacity]
FullBucket(t) == [last |-> t, available |-> Capacity]

\* The tokens of the time since the last refill are added; the rest of that
\* time counts towards the next token.
Refilled(b, at) ==
    LET tokens == (at - b.last) \div RefillRate IN
    IF b.available + tokens < Capacity
    THEN [last |-> b.last + tokens * RefillRate, available |-> b.available + tokens]
    ELSE FullBucket(at)

Init ==
    /\ now = 0
    /\ bucket = [k \in Key |-> FullBucket(0)]

Tick ==
    /\ now' = now + 1
    /\ UNCHANGED bucket

Take(k, at) ==
    /\ bucket[k].last <= at
    /\ Refilled(bucket[k], at).available > 0
    /\ bucket' = [bucket EXCEPT ![k] = [Refilled(bucket[k], at) EXCEPT !.available = @ - 1]]
    /\ UNCHANGED now

Next == Tick \/ \E k \in Key : \E at \in 0..now : Take(k, at)

Spec == Init /\ [][Next]_<<now, bucket>>
=============================================================================
