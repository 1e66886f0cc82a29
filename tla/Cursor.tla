------------------------------- MODULE Cursor -------------------------------
(***************************************************************************)
(* How the cursors of publicapi/pagination.go are packed into bytes and    *)
(* unpacked: numbers as varints, strings, ids and times behind their       *)
(* length, a list of ids behind its count, nothing between the fields.     *)
(* Base is the number of values a varint byte carries (128); the bytes are *)
(* 0..2*Base-1, and a byte of Base or more says that the number goes on.   *)
(* Base64 maps bytes to text one to one and is left out.                   *)
(***************************************************************************)
EXTENDS Integers, Sequences, SequencesExt

CONSTANTS
    Base,               \* values of a varint byte
    Bytes, Ints, Ids,   \* strings and times, numbers, and ids that rows have
    MaxIds              \* bound: the ids of a list

\* What a cursor is packed into.
Buffer == Seq(0..(2 * Base - 1))

CursorAssumption ==
    /\ Base \in Nat \ {0, 1} /\ MaxIds \in Nat /\ Ints \subseteq Int
    /\ Bytes \subseteq Buffer /\ Ids \subseteq Buffer

VARIABLES
    cursor,     \* the cursor that is packed: its kind and its values
    buffer,     \* the bytes: the encoder's, then the decoder's reader
    stage,      \* fill, unpack, ok or error
    into        \* the values unpacked so far

vars == <<cursor, buffer, stage, into>>

\* The fields of each kind of cursor.  A time is a string of bytes, as
\* MarshalBinary gives it; a float is the number of its bits.
Fields ==
    [timeID |-> <<"bytes", "id">>, boolBoolIntID |-> <<"bool", "bool", "int", "id">>,
     boolTimeID |-> <<"bool", "bytes", "id">>, stringID |-> <<"bytes", "id">>,
     intTimeID |-> <<"int", "bytes", "id">>, position |-> <<"int", "ids">>,
     boolIDFloatID |-> <<"bool", "id", "uint", "id">>]

ValuesOf ==
    [bytes |-> Bytes, id |-> Ids, bool |-> BOOLEAN, int |-> Ints,
     uint |-> {i \in Ints : i >= 0}, ids |-> SeqOf(Ids, MaxIds)]

----------------------------------------------------------------------------
(* cursorEncoder                                                           *)

\* binary.PutUvarint: the low digits first.
appendUInt64[n \in Nat] ==
    IF n < Base THEN <<n>> ELSE <<Base + (n % Base)>> \o appendUInt64[n \div Base]

\* Mutant: a negative number loses its sign.
ZigZag_Unsigned(i) == IF i >= 0 THEN i ELSE -i

\* binary.PutVarint: the sign is the lowest bit.
ZigZag(i) == IF i >= 0 THEN 2 * i ELSE -2 * i - 1
appendInt64(i) == appendUInt64[ZigZag(i)]

appendString(s) == appendUInt64[Len(s)] \o s

\* The values of a slice of ids, one after the other.
appendStrings[ids \in Seq(Ids)] ==
    IF ids = <<>> THEN <<>> ELSE appendString(Head(ids)) \o appendStrings[Tail(ids)]

packVal(x) ==
    CASE x.type = "bool" -> appendUInt64[IF x.val THEN 1 ELSE 0]
      [] x.type = "uint" -> appendUInt64[x.val]
      [] x.type = "int" -> appendInt64(x.val)
      [] x.type \in {"bytes", "id"} -> appendString(x.val)
      [] x.type = "ids" -> appendInt64(Len(x.val)) \o appendStrings[x.val]

\* packVals, from the k-th value on.
packedFrom(vals) ==
    LET from[k \in 1..(Len(vals) + 1)] ==
            IF k > Len(vals) THEN <<>> ELSE packVal(vals[k]) \o from[k + 1]
    IN  from

packVals(vals) == packedFrom(vals)[1]

----------------------------------------------------------------------------
(* cursorDecoder: each operator gives the value and the bytes behind it.   *)

Read(v, rest) == [ok |-> TRUE, val |-> v, rest |-> rest]
Error == [ok |-> FALSE]
Behind(b, n) == SubSeq(b, n + 1, Len(b))

\* binary.ReadUvarint.
readUInt64[b \in Buffer] ==
    IF b = <<>> THEN Error
    ELSE IF Head(b) < Base THEN Read(Head(b), Tail(b))
    ELSE LET high == readUInt64[Tail(b)] IN
         IF high.ok THEN Read(Head(b) - Base + Base * high.val, high.rest) ELSE Error

readInt64(b) ==
    LET u == readUInt64[b] IN
    IF ~u.ok THEN Error
    ELSE Read(IF u.val % 2 = 0 THEN u.val \div 2 ELSE -((u.val + 1) \div 2), u.rest)

\* readString: bytes.Reader has an error for every read at its end, also for
\* one of no bytes.
readString(b) ==
    LET len == readUInt64[b] IN
    IF ~len.ok \/ len.rest = <<>> \/ Len(len.rest) < len.val THEN Error
    ELSE Read(SubSeq(len.rest, 1, len.val), Behind(len.rest, len.val))

\* n strings, one after the other.
readStrings[n \in Nat] ==
    [b \in Buffer |->
        IF n = 0 THEN Read(<<>>, b)
        ELSE LET first == readString(b) IN
             IF ~first.ok THEN Error
             ELSE LET others == readStrings[n - 1][first.rest] IN
                  IF others.ok THEN Read(<<first.val>> \o others.val, others.rest) ELSE Error]

\* A slice has its length first.  (make panics if that is negative, which no
\* packed slice's is.)
unpackVal(type, b) ==
    CASE type = "bool" ->
            LET u == readUInt64[b] IN IF u.ok THEN Read(u.val > 0, u.rest) ELSE Error
      [] type = "uint" -> readUInt64[b]
      [] type = "int" -> readInt64(b)
      [] type \in {"bytes", "id"} -> readString(b)
      [] type = "ids" ->
            LET n == readInt64(b) IN
            IF n.ok /\ n.val >= 0 THEN readStrings[n.val][n.rest] ELSE Error

----------------------------------------------------------------------------
Init ==
    /\ cursor \in {[kind |-> k, vals |-> <<>>] : k \in DOMAIN Fields}
    /\ buffer = <<>> /\ stage = "fill" /\ into = <<>>

\* newTimeIDCursor and the others take the values from a row, one by one.
Fill ==
    /\ stage = "fill" /\ Len(cursor.vals) < Len(Fields[cursor.kind])
    /\ LET type == Fields[cursor.kind][Len(cursor.vals) + 1] IN
        \E v \in ValuesOf[type] :      \* a value carries its type, on which packVal switches
            cursor' = [cursor EXCEPT !.vals = Append(@, [type |-> type, val |-> v])]
    /\ UNCHANGED <<buffer, stage, into>>

Pack ==
    /\ stage = "fill" /\ Len(cursor.vals) = Len(Fields[cursor.kind])
    /\ buffer' = packVals(cursor.vals)
    /\ stage' = "unpack" /\ UNCHANGED <<cursor, into>>

\* Unpack runs the readers of the fields one after the other.
Unpack ==
    /\ stage = "unpack" /\ Len(into) < Len(Fields[cursor.kind])
    /\ LET read == unpackVal(Fields[cursor.kind][Len(into) + 1], buffer) IN
        IF read.ok
        THEN into' = Append(into, read.val) /\ buffer' = read.rest /\ UNCHANGED stage
        ELSE stage' = "error" /\ UNCHANGED <<into, buffer>>
    /\ UNCHANGED cursor

Unpacked ==
    /\ stage = "unpack" /\ Len(into) = Len(Fields[cursor.kind])
    /\ stage' = "ok" /\ UNCHANGED <<cursor, buffer, into>>

Next == Fill \/ Pack \/ Unpack \/ Unpacked
Spec == Init /\ [][Next]_vars

----------------------------------------------------------------------------
EndsEmpty ==
    LET v == Last(cursor.vals).val IN
    IF cursor.kind = "position" THEN v # <<>> /\ Last(v) = <<>> ELSE v = <<>>

\* A cursor of every kind comes back with the values it was packed from, field
\* by field and up to the last byte, whatever bytes its strings and times have
\* and however long its numbers are.  Only one that ends with an empty id does
\* not come back at all: reading no bytes at the end of the buffer is an error.
RoundTrip ==
    /\ stage = "error" => EndsEmpty
    /\ stage \in {"unpack", "ok"} => \A i \in DOMAIN into : into[i] = cursor.vals[i].val
    /\ stage = "ok" => buffer = <<>>
=============================================================================
