---------------------------- MODULE KeysetWindow ----------------------------
(***************************************************************************)
(* Which rows each paginator of publicapi/pagination.go can see: its query *)
(* gets two keys, each the default one or the cursor of the request, and   *)
(* compares them with the key of a row field by field.  Pagination takes   *)
(* for granted that a request without a cursor is not cut at that end;     *)
(* this module checks it for every kind of key.                            *)
(*                                                                         *)
(* A value is its rank: 0 and 1 for a bool, 0 for the empty id or string,  *)
(* Early and Late for the years 1970 and 3000, MaxField for the largest    *)
(* number.                                                                 *)
(* The values of rows are within these (a time is after 1970, a count is   *)
(* less than MaxInt32, a list ends before position MaxInt32 - 1), and a    *)
(* username comes before 255 times Z: so it is where the database's        *)
(* collation puts upper case after lower case.                             *)
(***************************************************************************)
EXTENDS Integers, Sequences

CONSTANTS MaxField, MaxId, Nil
KeysetWindowAssumption == MaxField \in Nat /\ MaxField > 1 /\ MaxId \in Nat \ {0} /\ Nil \notin Int

VARIABLES
    kind,       \* the paginator
    row,        \* the key of a row
    before,     \* the cursors of the request
    after,
    seen        \* whether the query returns the row, or Nil before it ran

vars == <<kind, row, before, after, seen>>

Bool == 0..1
Time == 1..(MaxField - 1)
Early == 0
Late == MaxField
Id == 1..MaxId
NoId == 0
Count == 0..(MaxField - 1)
Float == (-MaxField)..MaxField
Key == 0..(MaxField - 1)
LastKey == MaxField

\* The keys that rows have.
Keys ==
    [timeID |-> Time \X Id, sharedFollowers |-> Time \X Id,
     boolIDFloatID |-> Bool \X Id \X Float \X Id,
     sharedCommunities |-> Bool \X Bool \X Count \X Id,
     boolTimeID |-> Bool \X Time \X Id, lexical |-> Key \X Id,
     intTimeID |-> Count \X Time \X Id, position |-> {<<p>> : p \in 0..(MaxField - 2)}]

\* The paginators whose queries put the largest key first.
Descending == {"sharedFollowers", "sharedCommunities"}

----------------------------------------------------------------------------
(* The defaults of each paginator: before, after.                          *)

timeID == <<<<Late, NoId>>, <<Early, NoId>>>>
boolIDFloatID == <<<<1, NoId, MaxField, NoId>>, <<0, NoId, -MaxField, NoId>>>>

\* Mutant: the defaults of a paginator that reads upward.
sharedFollowers_Upward == <<<<Late, NoId>>, <<Early, NoId>>>>

sharedFollowers == <<<<Early, NoId>>, <<Late, NoId>>>>
sharedCommunities == <<<<0, 0, -1, NoId>>, <<1, 1, MaxField, NoId>>>>
boolTimeID == <<<<1, Late, NoId>>, <<0, Early, NoId>>>>
lexical == <<<<LastKey, NoId>>, <<0, NoId>>>>
intTimeID == <<<<MaxField, Late, NoId>>, <<0, Early, NoId>>>>
positionPaginator == <<<<MaxField - 1>>, <<-1>>>>

Defaults ==
    [timeID |-> timeID, boolIDFloatID |-> boolIDFloatID,
     sharedFollowers |-> sharedFollowers, sharedCommunities |-> sharedCommunities,
     boolTimeID |-> boolTimeID, lexical |-> lexical, intTimeID |-> intTimeID,
     position |-> positionPaginator]

\* What paginatorFromCursor makes of a position: "Postgres uses 1-based
\* indexing".
paginatorFromCursor(key) == IF kind = "position" THEN <<key[1] + 1>> ELSE key

CurBefore(b) == paginatorFromCursor(IF b # Nil THEN b ELSE Defaults[kind][1])
CurAfter(a) == paginatorFromCursor(IF a # Nil THEN a ELSE Defaults[kind][2])

\* The key of the row in the database, where positions count from one.
Stored == IF kind = "position" THEN <<row[1] + 1>> ELSE row

\* Row comparison in SQL.
Less(k, l) == \E i \in DOMAIN k : k[i] < l[i] /\ \A j \in 1..(i - 1) : k[j] = l[j]

Init ==
    /\ kind \in DOMAIN Keys
    /\ row \in Keys[kind]
    /\ before = Nil /\ after = Nil /\ seen = Nil

\* A request, whose cursors were packed from rows.
Ask ==
    /\ seen = Nil
    /\ \E b, a \in Keys[kind] \cup {Nil} :
        /\ before' = b /\ after' = a
        /\ seen' = IF kind \in Descending
                   THEN Less(CurBefore(b), Stored) /\ Less(Stored, CurAfter(a))
                   ELSE Less(Stored, CurBefore(b)) /\ Less(CurAfter(a), Stored)
    /\ UNCHANGED <<kind, row>>

Next == Ask
Spec == Init /\ [][Next]_vars

----------------------------------------------------------------------------
\* Whether a row with key k comes before one with key l in the list.
Precedes(k, l) == IF kind \in Descending THEN Less(l, k) ELSE Less(k, l)

\* boolIDFloatIDPaginator, which nothing uses, starts at the key (true, ""), and
\* loses the rows that have true.
Lost == kind = "boolIDFloatID" /\ before = Nil /\ row[1] = 1

\* A request gets exactly the rows behind its after and in front of its before
\* cursor: for every kind of key, in both orders, and a missing cursor takes
\* nothing away, also of rows with the largest or the smallest values.
WindowIsExact ==
    seen # Nil =>
        seen = (/\ after # Nil => Precedes(after, row)
                /\ before # Nil => Precedes(row, before)
                /\ ~Lost)
=============================================================================
