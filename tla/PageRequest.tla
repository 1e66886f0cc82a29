----------------------------- MODULE PageRequest -----------------------------
(***************************************************************************)
(* One request of a paginator: which rows it returns, and what it says     *)
(* about the others.                                                       *)
(***************************************************************************)
EXTENDS Pagination

VARIABLES rows, answer
vars == <<rows, answer>>

Init == rows \in SUBSET Row /\ answer = [params |-> Nil]

Ask(p) ==
    /\ answer.params = Nil
    /\ answer' = [params |-> p, page |-> paginate(rows, p)]
    /\ UNCHANGED rows

Next == \E p \in Params : Ask(p)

Spec == Init /\ [][Next]_vars

----------------------------------------------------------------------------
Answered == answer.params # Nil

\* What the Relay specification asks for: the first (or last) rows between the
\* cursors, at most Size of them, in ascending order in either direction.
IsPage(edges, R, p) ==
    /\ edges = Ascending(Range(edges)) /\ Range(edges) \subseteq R
    /\ \/ Range(edges) = R
       \/ /\ Len(edges) = Size(p)
          /\ \A e \in Range(edges), r \in R \ Range(edges) :
                IF p.first # Nil THEN e < r ELSE r < e

\* Every request gets the page that the Relay specification asks for, although
\* the rows are cut three times: by the query, by the cursors and by the size.
PageIsRelay == Answered => IsPage(answer.page.edges, Between(rows, answer.params), answer.params)

\* A request is told that there are more pages in its direction exactly when
\* there are rows between the cursors that it did not get.
MoreIsTrue ==
    Answered =>
        (answer.page.info.hasNextPage \/ answer.page.info.hasPreviousPage)
            = (Range(answer.page.edges) # Between(rows, answer.params))

\* A request gets its page, and is told truly whether there is more.
PageIsRight == PageIsRelay /\ MoreIsTrue

\* "Limit is intentionally 1 more than requested, so we can see if there are
\* additional pages."
LimitIsOneMore == Answered => limit(answer.params) = Size(answer.params) + 1
=============================================================================
