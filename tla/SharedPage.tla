----------------------------- MODULE SharedPage -----------------------------
(***************************************************************************)
(* Resolvers of one GraphQL request that page through notifications with   *)
(* the same dataloader (GetViewerNotifications).  The loader gives every   *)
(* Load of the same parameters the same slice, from one batch or from its  *)
(* cache (module Batcher); paginate turns a slice that was read backward   *)
(* round in place, row by row, and copies it only afterwards.              *)
(***************************************************************************)
EXTENDS Pagination

CONSTANT Resolver

VARIABLES
    rows,       \* the table, as the loader's query sees it
    loaded,     \* the loader's slices by their parameters
    resolver    \* each resolver: its stage, parameters, swaps done and page

vars == <<rows, loaded, resolver>>

\* The resolvers ask without cursors.
Requests == {p \in Params : p.before = Nil /\ p.after = Nil}

Init ==
    /\ rows \in SUBSET Row
    /\ loaded = [p \in Requests |-> Nil]
    /\ resolver \in [Resolver -> {[stage |-> "load", params |-> p, swaps |-> 0, edges |-> <<>>] :
                                    p \in Requests}]

\* GetUserNotificationsBatchParams has all parameters.
key(p) == p

Slice(x) == loaded[key(resolver[x].params)]

\* QueryFunc: Load.
Load(x) ==
    /\ resolver[x].stage = "load"
    /\ loaded' = [loaded EXCEPT ![key(resolver[x].params)] =
                    IF @ = Nil THEN QueryFunc(rows, resolver[x].params) ELSE @]
    /\ resolver' = [resolver EXCEPT ![x].stage =
                    IF resolver[x].params.first # Nil THEN "page" ELSE "reverse"]
    /\ UNCHANGED rows

\* One turn of the loop: the rows i and j of the slice change places.
Swap(x) ==
    LET i == resolver[x].swaps + 1
        j == Len(Slice(x)) - resolver[x].swaps
    IN  /\ resolver[x].stage = "reverse" /\ i < j
        /\ loaded' = [loaded EXCEPT ![key(resolver[x].params)] =
                        [@ EXCEPT ![i] = Slice(x)[j], ![j] = Slice(x)[i]]]
        /\ resolver' = [resolver EXCEPT ![x].swaps = i]
        /\ UNCHANGED rows

Reversed(x) ==
    /\ resolver[x].stage = "reverse"
    /\ resolver[x].swaps + 1 >= Len(Slice(x)) - resolver[x].swaps
    /\ resolver' = [resolver EXCEPT ![x].stage = "page", ![x].swaps = 0]
    /\ UNCHANGED <<rows, loaded>>

\* pageFrom copies the slice first.
Answer(x) ==
    /\ resolver[x].stage = "page"
    /\ resolver' = [resolver EXCEPT ![x].stage = "done",
                                    ![x].edges = pageFrom(Slice(x), resolver[x].params).edges]
    /\ UNCHANGED <<rows, loaded>>

Next == \E x \in Resolver : Load(x) \/ Swap(x) \/ Reversed(x) \/ Answer(x)

Spec == Init /\ [][Next]_vars

----------------------------------------------------------------------------
PageOf(p) ==
    IF p.first # Nil THEN Take(Ascending(rows), p.first)
    ELSE Reverse(Take(Descending(rows), p.last))

\* A resolver that reads forward gets the first rows in order, whatever the
\* others do with the slices they share.
ForwardIsRight ==
    \A x \in Resolver : resolver[x].stage = "done" /\ resolver[x].params.first # Nil
        => resolver[x].edges = PageOf(resolver[x].params)

\* "the Relay pagination spec requires that returned elements should always be
\* in the same order, regardless of whether we're paging forward or backward."
BackwardIsRight ==
    \A x \in Resolver : resolver[x].stage = "done" /\ resolver[x].params.last # Nil
        => resolver[x].edges = PageOf(resolver[x].params)
=============================================================================
