----------------------------- MODULE Pagination -----------------------------
(***************************************************************************)
(* The keyset paginators of publicapi/pagination.go.  A row is the rank of *)
(* its sort key (time and id, username and id, ...), so that comparing     *)
(* rows is comparing keys; a cursor is the row it was packed from (module  *)
(* Cursor is about the packing), Nil stands for nil.  The operators are    *)
(* what one request computes from the rows R of the table; PageRequest and *)
(* PageWalk use them.                                                      *)
(***************************************************************************)
EXTENDS Integers, FiniteSets, Sequences, SequencesExt

CONSTANTS Row, Nil, Sizes, HalfRange
PaginationAssumption ==
    /\ Row \subseteq Nat /\ Sizes \subseteq Nat /\ Nil \notin Nat
    /\ HalfRange \in Nat \ {0}

\* One more than a size is still an int32.  The code does not see to it (see
\* PageRequest!LimitIsOneMore); the proofs assume it.
SizesFit == \A n \in Sizes : n + 1 < HalfRange

Optional(S) == S \cup {Nil}

\* The parameters of a request.  ConnectionPaginationParamsValidator refuses
\* neither and both of first and last.
Params ==
    {p \in [before : Optional(Row), after : Optional(Row),
            first : Optional(Sizes), last : Optional(Sizes)] :
        (p.first = Nil) # (p.last = Nil)}

Size(p) == IF p.first # Nil THEN p.first ELSE p.last

----------------------------------------------------------------------------
(* The query                                                               *)

\* The rows strictly between the cursors, or their defaults.
Between(R, p) ==
    {r \in R : (p.after # Nil => r > p.after) /\ (p.before # Nil => r < p.before)}

Ascending(R) ==
    [i \in 1..Cardinality(R) |->
        CHOOSE r \in R : Cardinality({s \in R : s < r}) = i - 1]
Descending(R) == Reverse(Ascending(R))

Take(edges, n) == SubSeq(edges, 1, IF n < Len(edges) THEN n ELSE Len(edges))

\* int32(n), for a range of 2 * HalfRange values.
Int32(n) == ((n + HalfRange) % (2 * HalfRange)) - HalfRange

\* One more than requested.
limit(p) == Int32(1 + Size(p))

\* The statement of a time and id paginator, as GetUsersByIDs: ordered by
\* the direction.
QueryFunc(R, p) ==
    Take(IF p.first # Nil THEN Ascending(Between(R, p)) ELSE Descending(Between(R, p)), limit(p))

----------------------------------------------------------------------------
(* The page                                                                *)

IndexIn(edges, cursor) == SelectInSeq(edges, LAMBDA e : e = cursor)

\* applyCursors: cut at the first row that has the cursor; a cursor that no row
\* has cuts nothing.
applyCursors(edges, p) ==
    LET rest == IF p.after # Nil /\ IndexIn(edges, p.after) > 0
                THEN SubSeq(edges, IndexIn(edges, p.after) + 1, Len(edges)) ELSE edges
    IN  IF p.before # Nil /\ IndexIn(rest, p.before) > 0
        THEN SubSeq(rest, 1, IndexIn(rest, p.before) - 1) ELSE rest

pageEdgesFrom(edges, p) ==
    IF p.first # Nil /\ Len(edges) > p.first THEN SubSeq(edges, 1, p.first)
    ELSE IF p.last # Nil /\ Len(edges) > p.last
         THEN SubSeq(edges, Len(edges) - p.last + 1, Len(edges))
         ELSE edges

\* Mutant: a full page is taken for one with more behind it.
pageInfoFrom_Full(edges, page, p) ==
    [hasPreviousPage |-> p.last # Nil /\ Len(edges) >= p.last,
     hasNextPage |-> p.first # Nil /\ Len(edges) >= p.first,
     startCursor |-> IF page = <<>> THEN Nil ELSE Head(page),
     endCursor |-> IF page = <<>> THEN Nil ELSE Last(page),
     size |-> Len(page)]

\* Mutant: the cursors are those of the rows that were fetched.
pageInfoFrom_Fetched(edges, page, p) ==
    [hasPreviousPage |-> p.last # Nil /\ Len(edges) > p.last,
     hasNextPage |-> p.first # Nil /\ Len(edges) > p.first,
     startCursor |-> IF edges = <<>> THEN Nil ELSE Head(edges),
     endCursor |-> IF edges = <<>> THEN Nil ELSE Last(edges),
     size |-> Len(page)]

pageInfoFrom(edges, page, p) ==
    [hasPreviousPage |-> p.last # Nil /\ Len(edges) > p.last,
     hasNextPage |-> p.first # Nil /\ Len(edges) > p.first,
     startCursor |-> IF page = <<>> THEN Nil ELSE Head(page),
     endCursor |-> IF page = <<>> THEN Nil ELSE Last(page),
     size |-> Len(page)]

pageFrom(results, p) ==
    LET edges == applyCursors(results, p)
        page == pageEdgesFrom(edges, p)
    IN  [edges |-> page, info |-> pageInfoFrom(edges, page, p)]

\* Rows that were read backward are turned round.
Relay(results, p) == IF p.first # Nil THEN results ELSE Reverse(results)

\* keysetPaginator.paginate; the database refuses a negative limit.
paginate(R, p) ==
    IF limit(p) < 0 THEN [error |-> TRUE] ELSE pageFrom(Relay(QueryFunc(R, p), p), p)

=============================================================================
