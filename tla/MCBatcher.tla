----------------------------- MODULE MCBatcher -----------------------------
(***************************************************************************)
(* Small instances of the batcher for TLC: single loads with the cache and *)
(* a subscriber, and calls of DoAll, which takes lists, without them.      *)
(* part says which of the two a behaviour follows.                         *)
(***************************************************************************)
EXTENDS Batcher, TLC

CONSTANT MaxList   \* parameters of a call of DoAll

VARIABLE part

Lists ==
    INSTANCE Batcher WITH
        MaxParams <- MaxList, Subscriber <- {}, CacheResults <- FALSE, PublishResults <- FALSE

MCInit == part \in {"single", "lists"} /\ Init

\* Two goroutines call DoAll.
MCNext ==
    /\ UNCHANGED part
    /\ \/ /\ part = "lists" /\ Lists!Next
          /\ Cardinality({g \in Goroutine : pc'[g] # "start"}) <= 2
       \/ part = "single" /\ Next

MCSpec == MCInit /\ [][MCNext]_<<part, vars>>

\* Single loads alone, with the fairness of goroutines and timeouts.
SingleInit == part = "single" /\ Init

SingleNext == UNCHANGED part /\ Next

FairSingleSpec == SingleInit /\ [][SingleNext]_<<part, vars>> /\ Fairness

\* Goroutines and parameters are interchangeable.
Symmetry == Permutations(Goroutine) \cup Permutations(Param)
============================================================================
