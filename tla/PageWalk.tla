------------------------------ MODULE PageWalk ------------------------------
(***************************************************************************)
(* A client that reads a whole list page by page, forward (first, after    *)
(* the last page's end cursor) or backward (last, before its start         *)
(* cursor), while rows are inserted and deleted.  Each request is          *)
(* keysetPaginator.paginate on the rows of that moment.                    *)
(***************************************************************************)
EXTENDS Pagination

VARIABLES
    rows,       \* the table
    walk,       \* the client: direction, size, cursor, the rows it has, whether it goes on
    throughout  \* history: the rows that were there all the time

vars == <<rows, walk, throughout>>

Init ==
    /\ rows \in SUBSET Row
    /\ throughout = rows
    /\ walk \in {[forward |-> f, size |-> n, cursor |-> Nil, seen |-> <<>>, more |-> TRUE] :
                    f \in BOOLEAN, n \in Sizes}

\* The parameters of the next request.
Request ==
    [before |-> IF walk.forward THEN Nil ELSE walk.cursor,
     after |-> IF walk.forward THEN walk.cursor ELSE Nil,
     first |-> IF walk.forward THEN walk.size ELSE Nil,
     last |-> IF walk.forward THEN Nil ELSE walk.size]

\* A page; the client goes on if there are more.
Fetch ==
    /\ walk.more
    /\ \E page \in {paginate(rows, Request)} :
        walk' = [walk EXCEPT
            !.seen = IF walk.forward THEN @ \o page.edges ELSE page.edges \o @,
            !.cursor = IF walk.forward THEN page.info.endCursor ELSE page.info.startCursor,
            !.more = page.info.hasNextPage \/ page.info.hasPreviousPage]
    /\ UNCHANGED <<rows, throughout>>

Insert(r) ==
    /\ r \notin rows /\ rows' = rows \cup {r} /\ UNCHANGED <<walk, throughout>>

\* The row of the client's cursor may be the one that goes.
Delete(r) ==
    /\ r \in rows /\ rows' = rows \ {r}
    /\ throughout' = throughout \ {r} /\ UNCHANGED walk

Next == Fetch \/ \E r \in Row : Insert(r) \/ Delete(r)

Spec == Init /\ [][Next]_vars

----------------------------------------------------------------------------
\* The rows come in ascending order over all pages and in both directions;
\* in particular none comes twice.
SeenInOrder ==
    \A i, j \in 1..Len(walk.seen) : i < j => walk.seen[i] < walk.seen[j]

\* A client that was told there are no more pages has every row that was there
\* from its first request to its last.
SeenAll ==
    ~walk.more => throughout \subseteq {walk.seen[i] : i \in 1..Len(walk.seen)}

\* Both: in order and complete.
WalkIsExact == SeenInOrder /\ SeenAll
=============================================================================
