---------------------------- MODULE CursorProofs ----------------------------
(***************************************************************************)
(* Cursors come back as they were packed, for every list of fields, every  *)
(* base and all strings, numbers and lists.  The recursive functions of    *)
(* Cursor are CHOOSEs to the provers: RecursiveFunction shows that each of *)
(* them satisfies its equation, and what they compute follows from least   *)
(* counterexamples.                                                        *)
(***************************************************************************)
EXTENDS Cursor, SequenceTheorems, WellFoundedInduction, TLAPS

\* A set of natural numbers that is not empty has a least element: what follows by
\* induction follows from a least counterexample.
LEMMA LeastNat ==
    ASSUME NEW T \in SUBSET Nat, T # {}
    PROVE  \E n \in T : \A m \in T : n <= m
<1> DEFINE R == {ss \in Nat \X Nat : ss[1] < ss[2]}
<1>1. IsWellFoundedOn(R, Nat)
  BY NatLessThanWellFounded, Zenon DEF OpToRel
<1>2. PICK n \in T : \A m \in T : ~(<<m, n>> \in R)
  <2> HIDE DEF R
  <2> QED
    BY <1>1, WFMin
<1>3. ASSUME NEW m \in T PROVE n <= m
  <2> SUFFICES ASSUME m < n PROVE FALSE
    OBVIOUS
  <2>1. <<m, n>> \in Nat \X Nat /\ <<m, n>>[1] < <<m, n>>[2]
    OBVIOUS
  <2>2. <<m, n>> \in R
    BY <2>1
  <2> HIDE DEF R
  <2> QED
    BY <1>2, <2>2
<1> QED
  BY <1>3

\* A recursion for functions from S to V: the value at an x in stop is first[x],
\* that at any other x is made from the value at next[x], which has a smaller rank.
Recursion(S, V, rank, next, stop, first, step) ==
    /\ rank \in [S -> Nat] /\ next \in [S -> S] /\ stop \in SUBSET S
    /\ first \in [S -> V] /\ step \in [S -> [V -> V]]
    /\ \A x \in S \ stop : rank[next[x]] < rank[x]

\* f is what the recursion defines.
Solves(f, S, next, stop, first, step) ==
    \A x \in S : f[x] = IF x \in stop THEN first[x] ELSE step[x][f[next[x]]]

\* A function can be defined by such a recursion.
LEMMA RecursiveFunction ==
    ASSUME NEW S, NEW V, NEW rank, NEW next, NEW stop, NEW first, NEW step,
           Recursion(S, V, rank, next, stop, first, step)
    PROVE  \E f \in [S -> V] : Solves(f, S, next, stop, first, step)
<1> SUFFICES ASSUME rank \in [S -> Nat], next \in [S -> S], stop \in SUBSET S,
                    first \in [S -> V], step \in [S -> [V -> V]],
                    \A x \in S \ stop : rank[next[x]] < rank[x]
             PROVE  \E f \in [S -> V] : Solves(f, S, next, stop, first, step)
  BY DEF Recursion
<1> DEFINE At(f, x) == f[x] = IF x \in stop THEN first[x] ELSE step[x][f[next[x]]]
           UpTo(f, n) == \A x \in S : rank[x] <= n => At(f, x)
           Good == {n \in Nat : \E f \in [S -> V] : UpTo(f, n)}
\* Two functions that solve the equation up to n agree up to n.
<1>1. ASSUME NEW n \in Nat, NEW f \in [S -> V], NEW g \in [S -> V], UpTo(f, n), UpTo(g, n)
      PROVE  \A x \in S : rank[x] <= n => f[x] = g[x]
  <2> DEFINE T == {k \in Nat : \E x \in S : rank[x] = k /\ k <= n /\ f[x] # g[x]}
  <2> SUFFICES T = {}
    OBVIOUS
  <2> SUFFICES ASSUME T # {} PROVE FALSE
    OBVIOUS
  <2>1. PICK k \in T : \A m \in T : k <= m
    <3> HIDE DEF T
    <3>1. T \in SUBSET Nat
      BY DEF T
    <3> QED
      BY <3>1, LeastNat
  <2>2. PICK x \in S : rank[x] = k /\ k <= n /\ f[x] # g[x]
    OBVIOUS
  <2>3. At(f, x) /\ At(g, x)
    BY <1>1, <2>2
  <2>4. x \notin stop
    BY <2>2, <2>3
  <2>5. rank[next[x]] < k /\ next[x] \in S /\ rank[next[x]] \in Nat
    BY <2>2, <2>4
  <2>6. f[next[x]] = g[next[x]]
    BY <2>1, <2>5
  <2> QED
    BY <2>2, <2>3, <2>4, <2>6
<1>2. Good = Nat
  <2> SUFFICES ASSUME Nat \ Good # {} PROVE FALSE
    OBVIOUS
  <2>1. PICK n \in Nat \ Good : \A m \in Nat \ Good : n <= m
    <3> HIDE DEF Good
    <3> QED
      BY LeastNat
  <2>2. PICK g \in [S -> V] : \A x \in S : rank[x] < n => At(g, x)
    <3>1. CASE n = 0
      <4>1. \A x \in S : ~(rank[x] < n)
        BY <3>1
      <4>2. \A x \in S : rank[x] < n => At(first, x)
        BY <4>1
      <4> HIDE DEF At
      <4> QED
        BY <4>2
    <3>2. CASE n # 0
      <4>1. n - 1 \in Good
        <5> HIDE DEF Good
        <5> QED
          BY <2>1, <3>2
      <4>2. PICK g \in [S -> V] : UpTo(g, n - 1)
        BY <4>1
      <4> QED
        BY <4>2
    <3> QED
      BY <3>1, <3>2
  <2> DEFINE f == [x \in S |-> IF x \in stop THEN first[x] ELSE step[x][g[next[x]]]]
  <2>3. f \in [S -> V]
    OBVIOUS
  <2>4. ASSUME NEW x \in S, rank[x] < n PROVE f[x] = g[x]
    BY <2>2, <2>4
  <2>5. ASSUME NEW x \in S, rank[x] <= n PROVE At(f, x)
    <3>1. CASE x \in stop
      BY <3>1
    <3>2. CASE x \notin stop
      <4>1. rank[next[x]] < n /\ next[x] \in S
        BY <3>2, <2>5
      <4>2. f[next[x]] = g[next[x]]
        BY <4>1, <2>4
      <4> QED
        BY <3>2, <4>2
    <3> QED
      BY <3>1, <3>2
  <2> HIDE DEF f
  <2>6. UpTo(f, n)
    BY <2>5
  <2> QED
    BY <2>1, <2>3, <2>6
<1> DEFINE F(n) == CHOOSE f \in [S -> V] : UpTo(f, n)
           h == [x \in S |-> F(rank[x])[x]]
<1>3. ASSUME NEW n \in Nat PROVE F(n) \in [S -> V] /\ UpTo(F(n), n)
  <2>1. \E f \in [S -> V] : UpTo(f, n)
    BY <1>2
  <2> HIDE DEF UpTo
  <2> QED
    BY <2>1
<1> HIDE DEF F
<1>4. h \in [S -> V]
  BY <1>3
<1>5. ASSUME NEW x \in S PROVE At(h, x)
  <2>1. At(F(rank[x]), x) /\ h[x] = F(rank[x])[x] /\ rank[x] \in Nat /\ next[x] \in S
    BY <1>3
  <2>2. CASE x \in stop
    BY <2>1, <2>2
  <2>3. CASE x \notin stop
    <3>1. rank[next[x]] \in Nat /\ rank[next[x]] <= rank[x]
      BY <2>3
    <3> DEFINE n == rank[next[x]]
    <3>2. UpTo(F(rank[x]), n) /\ UpTo(F(n), n)
      <4>1. UpTo(F(rank[x]), rank[x])
        BY <1>3, <2>1
      <4>2. UpTo(F(rank[x]), n)
        <5> HIDE DEF At
        <5> QED
          BY <2>1, <3>1, <4>1
      <4> HIDE DEF UpTo
      <4> QED
        BY <1>3, <3>1, <4>2
    <3>3. F(rank[x])[next[x]] = F(n)[next[x]]
      <4>1. n \in Nat /\ F(n) \in [S -> V] /\ F(rank[x]) \in [S -> V]
        BY <1>3, <3>1, <2>1
      <4> DEFINE f == F(rank[x])
                 g == F(n)
                 y == next[x]
      <4>2. f \in [S -> V] /\ g \in [S -> V] /\ UpTo(f, n) /\ UpTo(g, n)
        <5> HIDE DEF UpTo
        <5> QED
          BY <3>2, <4>1
      <4>3. y \in S /\ rank[y] <= n
        BY <2>1
      <4> HIDE DEF UpTo, f, g, y
      <4>4. f[y] = g[y]
        <5> HIDE DEF n
        <5>1. \A z \in S : rank[z] <= n => f[z] = g[z]
          BY <1>1, <4>1, <4>2, Zenon
        <5> QED
          BY <4>3, <5>1
      <4> QED
        BY <4>4 DEF f, g, y
    <3>4. h[next[x]] = F(n)[next[x]]
      BY <2>1
    <3> QED
      BY <2>1, <2>3, <3>3, <3>4
  <2> QED
    BY <2>2, <2>3
<1> HIDE DEF h
<1> QED
  BY <1>4, <1>5 DEF Solves
----------------------------------------------------------------------------
(* Numbers                                                                 *)

\* The bytes of a buffer, and what is behind the first bytes of it.
LEMMA BufferFacts ==
    ASSUME CursorAssumption
    PROVE  /\ \A b \in Buffer : b # <<>> =>
                  /\ Head(b) \in 0..(2 * Base - 1) /\ Tail(b) \in Buffer
                  /\ Len(Tail(b)) = Len(b) - 1 /\ Len(Tail(b)) \in Nat
           /\ \A x \in 0..(2 * Base - 1) : <<x>> \in Buffer
           /\ \A a, b \in Buffer : a \o b \in Buffer
           /\ \A b \in Buffer : Len(b) \in Nat
           /\ <<>> \in Buffer
<1>1. ASSUME NEW b \in Buffer, b # <<>>
      PROVE  /\ Head(b) \in 0..(2 * Base - 1) /\ Tail(b) \in Buffer
             /\ Len(Tail(b)) = Len(b) - 1 /\ Len(Tail(b)) \in Nat
  BY <1>1, HeadTailProperties, LenProperties DEF Buffer
<1>2. ASSUME NEW x \in 0..(2 * Base - 1) PROVE <<x>> \in Buffer
  BY DEF Buffer
<1>3. ASSUME NEW a \in Buffer, NEW b \in Buffer PROVE a \o b \in Buffer
  BY ConcatProperties DEF Buffer
<1>4. ASSUME NEW b \in Buffer PROVE Len(b) \in Nat
  BY DEF Buffer
<1>5. <<>> \in Buffer
  BY DEF Buffer
<1> QED
  BY <1>1, <1>2, <1>3, <1>4, <1>5

\* Joining buffers.
LEMMA ConcatFacts ==
    /\ \A a, b, c \in Buffer : (a \o b) \o c = a \o (b \o c)
    /\ \A b \in Buffer : <<>> \o b = b /\ b \o <<>> = b
    /\ \A a, b \in Buffer : a \o b = <<>> => a = <<>> /\ b = <<>>
    /\ \A a, b \in Buffer : Len(a \o b) = Len(a) + Len(b)
  BY ConcatAssociative, ConcatEmptySeq, ConcatEqualIffEmpty, ConcatProperties DEF Buffer

\* Cutting a buffer where its two parts were joined.
LEMMA CutFacts ==
    ASSUME NEW a \in Buffer, NEW b \in Buffer
    PROVE  SubSeq(a \o b, 1, Len(a)) = a /\ Behind(a \o b, Len(a)) = b
<1> DEFINE c == a \o b
<1>1. /\ c \in Buffer /\ Len(c) = Len(a) + Len(b) /\ Len(a) \in Nat /\ Len(b) \in Nat
      /\ \A i \in 1..Len(a) : c[i] = a[i]
      /\ \A i \in 1..Len(b) : c[i + Len(a)] = b[i]
      /\ \A i \in 1..Len(c) : c[i] \in 0..(2 * Base - 1)
  <2>1. /\ c \in Buffer /\ Len(c) = Len(a) + Len(b) /\ Len(a) \in Nat /\ Len(b) \in Nat
        /\ \A i \in 1..(Len(a) + Len(b)) : c[i] = IF i <= Len(a) THEN a[i] ELSE b[i - Len(a)]
    BY ConcatProperties DEF Buffer
  <2> HIDE DEF c
  <2>2. \A i \in 1..Len(c) : c[i] \in 0..(2 * Base - 1)
    BY <2>1, ElementOfSeq DEF Buffer
  <2>3. \A i \in 1..Len(a) : c[i] = a[i]
    BY <2>1
  <2>4. \A i \in 1..Len(b) : c[i + Len(a)] = b[i]
    <3> SUFFICES ASSUME NEW i \in 1..Len(b) PROVE c[i + Len(a)] = b[i]
      OBVIOUS
    <3>1. i + Len(a) \in 1..(Len(a) + Len(b)) /\ ~(i + Len(a) <= Len(a)) /\ (i + Len(a)) - Len(a) = i
      BY <2>1
    <3> QED
      BY <2>1, <3>1
  <2> QED
    BY <2>1, <2>2, <2>3, <2>4
<1> HIDE DEF c
<1>2. SubSeq(c, 1, Len(a)) = a
  <2> DEFINE d == SubSeq(c, 1, Len(a))
  <2>1. d \in Buffer /\ Len(d) = Len(a) /\ \A i \in 1..Len(a) : d[i] = c[i]
    <3>1. \A i \in 1..Len(a) : c[i] \in 0..(2 * Base - 1)
      BY <1>1
    <3>2. /\ d \in Seq(0..(2 * Base - 1))
          /\ Len(d) = IF 1 <= Len(a) THEN Len(a) - 1 + 1 ELSE 0
          /\ \A i \in 1..(Len(a) - 1 + 1) : d[i] = c[1 + i - 1]
      BY <1>1, <3>1, SubSeqProperties
    <3> HIDE DEF d
    <3>3. Len(d) = Len(a) /\ \A i \in 1..Len(a) : d[i] = c[i]
      BY <1>1, <3>2
    <3> QED
      BY <3>2, <3>3 DEF Buffer
  <2> HIDE DEF d
  <2>2. d = a
    BY <1>1, <2>1, SeqEqual DEF Buffer
  <2> QED
    BY <2>2 DEF d
<1>3. SubSeq(c, Len(a) + 1, Len(c)) = b
  <2> DEFINE d == SubSeq(c, Len(a) + 1, Len(c))
  <2>1. d \in Buffer /\ Len(d) = Len(b) /\ \A i \in 1..Len(b) : d[i] = c[i + Len(a)]
    BY <1>1, SubSeqProperties DEF Buffer
  <2> HIDE DEF d
  <2>2. d = b
    BY <1>1, <2>1, SeqEqual DEF Buffer
  <2> QED
    BY <2>2 DEF d
<1> QED
  BY <1>2, <1>3 DEF c, Behind

\* Division leaves a smaller number and a digit.
LEMMA Digits ==
    ASSUME CursorAssumption, NEW n \in Nat, n >= Base
    PROVE  /\ n \div Base \in Nat /\ n \div Base < n
           /\ n % Base \in 0..(Base - 1)
           /\ n = Base * (n \div Base) + (n % Base)
<1>1. Base \in Nat /\ Base >= 2
  BY DEF CursorAssumption
<1>2. n \div Base \in Int /\ n % Base \in 0..(Base - 1) /\ n = Base * (n \div Base) + (n % Base)
  BY <1>1
<1> DEFINE q == n \div Base
<1> HIDE DEF q
<1>3. q >= 0
  BY <1>1, <1>2 DEF q
<1>4. q < n
  BY <1>1, <1>2, <1>3 DEF q
<1> QED
  BY <1>2, <1>3, <1>4 DEF q

\* appendUInt64 satisfies its equation.
LEMMA AppendUInt64Is ==
    ASSUME CursorAssumption
    PROVE  /\ appendUInt64 \in [Nat -> Buffer]
           /\ \A n \in Nat : appendUInt64[n] =
                  IF n < Base THEN <<n>> ELSE <<Base + (n % Base)>> \o appendUInt64[n \div Base]
<1> DEFINE stop == {n \in Nat : n < Base}
           rank == [n \in Nat |-> n]
           next == [n \in Nat |-> IF n < Base THEN n ELSE n \div Base]
           first == [n \in Nat |-> IF n < Base THEN <<n>> ELSE <<>>]
           step == [n \in Nat |-> [b \in Buffer |-> IF n < Base THEN <<>> ELSE <<Base + (n % Base)>> \o b]]
<1>1. stop \in SUBSET Nat /\ rank \in [Nat -> Nat]
  OBVIOUS
<1>2. next \in [Nat -> Nat] /\ \A n \in Nat \ stop : rank[next[n]] < rank[n]
  BY Digits DEF CursorAssumption
<1>3. first \in [Nat -> Buffer]
  BY BufferFacts DEF CursorAssumption
<1>4. step \in [Nat -> [Buffer -> Buffer]]
  <2>1. ASSUME NEW n \in Nat, NEW b \in Buffer, n >= Base
        PROVE  <<Base + (n % Base)>> \o b \in Buffer
    <3>1. Base + (n % Base) \in 0..(2 * Base - 1)
      BY <2>1, Digits DEF CursorAssumption
    <3> QED
      BY <3>1, BufferFacts
  <2>2. ASSUME NEW n \in Nat, NEW b \in Buffer
        PROVE  (IF n < Base THEN <<>> ELSE <<Base + (n % Base)>> \o b) \in Buffer
    BY <2>1, BufferFacts DEF CursorAssumption
  <2> QED
    BY <2>2
<1>5. PICK f \in [Nat -> Buffer] : Solves(f, Nat, next, stop, first, step)
  <2> HIDE DEF stop, rank, next, first, step
  <2>1. Recursion(Nat, Buffer, rank, next, stop, first, step)
    BY <1>1, <1>2, <1>3, <1>4 DEF Recursion
  <2> QED
    BY <2>1, RecursiveFunction
<1> DEFINE Is(g) == g = [n \in Nat |-> IF n < Base THEN <<n>>
                                     ELSE <<Base + (n % Base)>> \o g[n \div Base]]
<1>6. Is(f)
  <2>1. ASSUME NEW n \in Nat
        PROVE  f[n] = IF n < Base THEN <<n>> ELSE <<Base + (n % Base)>> \o f[n \div Base]
    <3>1. f[n] = IF n \in stop THEN first[n] ELSE step[n][f[next[n]]]
      <4> HIDE DEF stop, first, step, next
      <4> QED
        BY <1>5 DEF Solves
    <3>2. CASE n < Base
      BY <3>1, <3>2
    <3>3. CASE ~(n < Base)
      <4>1. n \div Base \in Nat
        BY <3>3, Digits DEF CursorAssumption
      <4> QED
        BY <1>5, <3>1, <3>3, <4>1
    <3> QED
      BY <3>2, <3>3
  <2> QED
    BY <1>5, <2>1
<1>7. appendUInt64 = CHOOSE g : Is(g)
  BY DEF appendUInt64
<1>8. Is(appendUInt64)
  <2> HIDE DEF Is
  <2> QED
    BY <1>6, <1>7
<1> HIDE DEF stop, rank, next, first, step
<1>9. \A n \in Nat : appendUInt64[n] =
          IF n < Base THEN <<n>> ELSE <<Base + (n % Base)>> \o appendUInt64[n \div Base]
  BY <1>8
<1>10. appendUInt64 = [n \in Nat |-> appendUInt64[n]]
  BY <1>8
<1>11. \A n \in Nat : appendUInt64[n] \in Buffer
  <2> DEFINE T == {n \in Nat : appendUInt64[n] \notin Buffer}
  <2> SUFFICES ASSUME T # {} PROVE FALSE
    OBVIOUS
  <2>1. PICK n \in T : \A k \in T : n <= k
    <3>1. T \in SUBSET Nat
      OBVIOUS
    <3> HIDE DEF T
    <3> QED
      BY <3>1, LeastNat
  <2>2. CASE n < Base
    <3>1. n \in 0..(2 * Base - 1)
      BY <2>2 DEF CursorAssumption
    <3>2. appendUInt64[n] = <<n>>
      BY <1>9, <2>2
    <3> QED
      BY <3>1, <3>2, BufferFacts
  <2>3. CASE n >= Base
    <3>1. n \div Base \in Nat /\ n \div Base < n /\ Base + (n % Base) \in 0..(2 * Base - 1)
      BY <2>3, Digits DEF CursorAssumption
    <3>2. appendUInt64[n \div Base] \in Buffer
      BY <2>1, <3>1
    <3>3. appendUInt64[n] = <<Base + (n % Base)>> \o appendUInt64[n \div Base]
      <4>1. n \in Nat /\ ~(n < Base)
        BY <2>3 DEF CursorAssumption
      <4> HIDE DEF T
      <4> QED
        BY <1>9, <4>1, Zenon
    <3>4. <<Base + (n % Base)>> \in Buffer
      BY <3>1, BufferFacts
    <3> QED
      BY <3>2, <3>3, <3>4, BufferFacts
  <2> QED
    BY <2>2, <2>3 DEF CursorAssumption
<1> QED
  BY <1>9, <1>10, <1>11

\* What a reader gives: a value and the bytes behind it, or an error.
Reading(Val) == [ok : {TRUE}, val : Val, rest : Buffer] \cup {Error}

\* Results of reading are an error, or a value and the rest of the buffer.
LEMMA ReadingFacts ==
    ASSUME NEW Val
    PROVE  /\ Error \in Reading(Val) /\ ~Error.ok
           /\ \A v \in Val, b \in Buffer :
                  /\ Read(v, b) \in Reading(Val) /\ Read(v, b).ok
                  /\ Read(v, b).val = v /\ Read(v, b).rest = b
           /\ \A r \in Reading(Val) : r.ok => r.val \in Val /\ r.rest \in Buffer
<1>1. Error \in Reading(Val) /\ ~Error.ok
  BY DEF Reading, Error
<1>2. ASSUME NEW v \in Val, NEW b \in Buffer
      PROVE  /\ Read(v, b) \in Reading(Val) /\ Read(v, b).ok
             /\ Read(v, b).val = v /\ Read(v, b).rest = b
  BY DEF Reading, Read
<1>3. ASSUME NEW r \in Reading(Val), r.ok PROVE r.val \in Val /\ r.rest \in Buffer
  <2>1. r # Error
    BY <1>1, <1>3
  <2>2. r \in [ok : {TRUE}, val : Val, rest : Buffer]
    BY <2>1 DEF Reading
  <2> QED
    BY <2>2
<1> QED
  BY <1>1, <1>2, <1>3

\* A byte in front of a buffer.
LEMMA PrependFacts ==
    ASSUME CursorAssumption, NEW x \in 0..(2 * Base - 1), NEW b \in Buffer
    PROVE  /\ <<x>> \o b \in Buffer /\ <<x>> \o b # <<>>
           /\ Head(<<x>> \o b) = x /\ Tail(<<x>> \o b) = b
<1>1. <<x>> \in Buffer /\ <<x>> \o b \in Buffer
  BY BufferFacts
<1>2. /\ Len(<<x>> \o b) = Len(b) + 1 /\ Len(b) \in Nat /\ (<<x>> \o b)[1] = x
      /\ \A i \in 1..Len(b) : (<<x>> \o b)[i + 1] = b[i]
  BY ConcatProperties DEF Buffer
<1>3. <<x>> \o b # <<>>
  BY <1>2
<1>4. Head(<<x>> \o b) = x
  BY <1>1, <1>2, <1>3, HeadTailProperties DEF Buffer
<1>5. Tail(<<x>> \o b) = b
  <2> DEFINE t == Tail(<<x>> \o b)
  <2>1. t \in Buffer /\ Len(t) = Len(b) /\ \A i \in 1..Len(t) : t[i] = (<<x>> \o b)[i + 1]
    BY <1>1, <1>2, <1>3, HeadTailProperties DEF Buffer
  <2> HIDE DEF t
  <2>2. \A i \in 1..Len(t) : t[i] = b[i]
    BY <1>2, <2>1
  <2>3. t = b
    BY <2>1, <2>2, SeqEqual DEF Buffer
  <2> QED
    BY <2>3 DEF t
<1> QED
  BY <1>1, <1>3, <1>4, <1>5

\* readUInt64 satisfies its equation.
LEMMA ReadUInt64Is ==
    ASSUME CursorAssumption
    PROVE  \A b \in Buffer : readUInt64[b] =
               IF b = <<>> THEN Error
               ELSE IF Head(b) < Base THEN Read(Head(b), Tail(b))
               ELSE IF readUInt64[Tail(b)].ok
                    THEN Read(Head(b) - Base + Base * readUInt64[Tail(b)].val, readUInt64[Tail(b)].rest)
                    ELSE Error
<1> DEFINE End(b) == b = <<>> \/ Head(b) < Base
           stop == {b \in Buffer : End(b)}
           rank == [b \in Buffer |-> Len(b)]
           next == [b \in Buffer |-> IF b = <<>> THEN b ELSE Tail(b)]
           first == [b \in Buffer |-> IF b # <<>> /\ Head(b) < Base THEN Read(Head(b), Tail(b)) ELSE Error]
           Higher(b, r) == IF r.ok THEN Read(Head(b) - Base + Base * r.val, r.rest) ELSE Error
           step == [b \in Buffer |-> [r \in Reading(Nat) |-> IF End(b) THEN Error ELSE Higher(b, r)]]
<1>1. stop \in SUBSET Buffer /\ rank \in [Buffer -> Nat]
  BY BufferFacts
<1>2. next \in [Buffer -> Buffer] /\ \A b \in Buffer \ stop : rank[next[b]] < rank[b]
  BY BufferFacts
<1>3. first \in [Buffer -> Reading(Nat)]
  <2>1. ASSUME NEW b \in Buffer, b # <<>>, Head(b) < Base
        PROVE  Read(Head(b), Tail(b)) \in Reading(Nat)
    <3>1. Head(b) \in Nat /\ Tail(b) \in Buffer
      BY <2>1, BufferFacts
    <3> QED
      BY <3>1, ReadingFacts
  <2> QED
    BY <2>1, ReadingFacts
<1>4. step \in [Buffer -> [Reading(Nat) -> Reading(Nat)]]
  <2>1. ASSUME NEW b \in Buffer, NEW r \in Reading(Nat), ~End(b)
        PROVE  Higher(b, r) \in Reading(Nat)
    <3>1. CASE ~r.ok
      BY <3>1, ReadingFacts
    <3>2. CASE r.ok
      <4>1. r.val \in Nat /\ r.rest \in Buffer
        BY <3>2, ReadingFacts
      <4>2. Head(b) - Base \in Nat /\ Base \in Nat
        BY <2>1, BufferFacts DEF CursorAssumption
      <4>3. Head(b) - Base + Base * r.val \in Nat
        BY <4>1, <4>2
      <4> QED
        BY <3>2, <4>1, <4>3, ReadingFacts
    <3> QED
      BY <3>1, <3>2
  <2> HIDE DEF End, Higher
  <2> QED
    BY <2>1, ReadingFacts
<1>5. PICK f \in [Buffer -> Reading(Nat)] : Solves(f, Buffer, next, stop, first, step)
  <2> HIDE DEF stop, rank, next, first, step
  <2>1. Recursion(Buffer, Reading(Nat), rank, next, stop, first, step)
    BY <1>1, <1>2, <1>3, <1>4 DEF Recursion
  <2> QED
    BY <2>1, RecursiveFunction
<1> DEFINE Is(g) == g = [b \in Buffer |->
                IF b = <<>> THEN Error
                ELSE IF Head(b) < Base THEN Read(Head(b), Tail(b))
                ELSE IF g[Tail(b)].ok THEN Read(Head(b) - Base + Base * g[Tail(b)].val, g[Tail(b)].rest)
                     ELSE Error]
<1>6. Is(f)
  <2>1. ASSUME NEW b \in Buffer
        PROVE  f[b] = IF b = <<>> THEN Error
                ELSE IF Head(b) < Base THEN Read(Head(b), Tail(b))
                ELSE IF f[Tail(b)].ok THEN Read(Head(b) - Base + Base * f[Tail(b)].val, f[Tail(b)].rest)
                     ELSE Error
    <3>1. f[b] = IF b \in stop THEN first[b] ELSE step[b][f[next[b]]]
      <4> HIDE DEF stop, first, step, next
      <4> QED
        BY <1>5 DEF Solves
    <3>2. CASE End(b)
      BY <3>1, <3>2
    <3>3. CASE ~End(b)
      <4>1. next[b] = Tail(b) /\ Tail(b) \in Buffer /\ f[Tail(b)] \in Reading(Nat)
        BY <1>5, <3>3, BufferFacts
      <4>2. f[b] = Higher(b, f[Tail(b)])
        <5> HIDE DEF Higher, next, End
        <5> QED
          BY <3>1, <3>3, <4>1
      <4> QED
        BY <3>3, <4>2
    <3> QED
      BY <3>2, <3>3
  <2> QED
    BY <1>5, <2>1
<1>7. readUInt64 = CHOOSE g : Is(g)
  BY DEF readUInt64
<1>8. Is(readUInt64)
  <2> HIDE DEF Is
  <2> QED
    BY <1>6, <1>7
<1> QED
  BY <1>8

\* What readUInt64 gives is a number and a buffer.
LEMMA ReadUInt64Type ==
    ASSUME CursorAssumption
    PROVE  \A b \in Buffer : readUInt64[b] \in Reading(Nat)
<1> DEFINE T == {n \in Nat : \E b \in Buffer : Len(b) = n /\ readUInt64[b] \notin Reading(Nat)}
<1> SUFFICES ASSUME T # {} PROVE FALSE
  BY BufferFacts
<1>1. PICK n \in T : \A k \in T : n <= k
  <2>1. T \in SUBSET Nat
    OBVIOUS
  <2> HIDE DEF T
  <2> QED
    BY <2>1, LeastNat
<1>2. PICK b \in Buffer : Len(b) = n /\ readUInt64[b] \notin Reading(Nat)
  OBVIOUS
<1>3. b # <<>>
  BY <1>2, ReadUInt64Is, ReadingFacts
<1>4. Head(b) \in Nat /\ Tail(b) \in Buffer /\ Len(Tail(b)) \in Nat /\ Len(Tail(b)) < n /\ Base \in Nat
  BY <1>2, <1>3, BufferFacts DEF CursorAssumption
<1>5. ~(Head(b) < Base)
  <2> SUFFICES ASSUME Head(b) < Base PROVE FALSE
    OBVIOUS
  <2>1. readUInt64[b] = Read(Head(b), Tail(b))
    BY <1>2, <1>3, ReadUInt64Is, Zenon
  <2>2. Read(Head(b), Tail(b)) \in Reading(Nat)
    BY <1>4, ReadingFacts
  <2> QED
    BY <1>2, <2>1, <2>2
<1> DEFINE r == readUInt64[Tail(b)]
<1>6. r \in Reading(Nat)
  <2>1. n \in Nat
    OBVIOUS
  <2>2. Len(Tail(b)) \notin T
    <3> HIDE DEF T
    <3> QED
      BY <1>1, <1>4, <2>1
  <2> QED
    BY <1>4, <2>2
<1>7. readUInt64[b] = IF r.ok THEN Read(Head(b) - Base + Base * r.val, r.rest) ELSE Error
  BY <1>3, <1>5, ReadUInt64Is, Zenon
<1> HIDE DEF r
<1>8. CASE r.ok
  <2>1. r.val \in Nat /\ r.rest \in Buffer
    BY <1>6, <1>8, ReadingFacts
  <2>2. Head(b) - Base \in Nat
    BY <1>4, <1>5
  <2>3. Head(b) - Base + Base * r.val \in Nat
    BY <1>4, <2>1, <2>2
  <2>4. Read(Head(b) - Base + Base * r.val, r.rest) \in Reading(Nat)
    BY <2>1, <2>3, ReadingFacts
  <2>5. readUInt64[b] = Read(Head(b) - Base + Base * r.val, r.rest)
    BY <1>7, <1>8, Zenon
  <2> QED
    BY <1>2, <2>4, <2>5
<1>9. CASE ~r.ok
  BY <1>2, <1>7, <1>9, ReadingFacts
<1> QED
  BY <1>8, <1>9

\* A number is read as it was written, and nothing behind it is touched.
LEMMA NumberComesBack ==
    ASSUME CursorAssumption, NEW n \in Nat, NEW rest \in Buffer
    PROVE  readUInt64[appendUInt64[n] \o rest] = Read(n, rest)
<1> DEFINE T == {k \in Nat : readUInt64[appendUInt64[k] \o rest] # Read(k, rest)}
<1> SUFFICES ASSUME T # {} PROVE FALSE
  OBVIOUS
<1>1. PICK k \in T : \A m \in T : k <= m
  <2>1. T \in SUBSET Nat
    OBVIOUS
  <2> HIDE DEF T
  <2> QED
    BY <2>1, LeastNat
<1>2. k \in Nat /\ Base \in Nat
  BY DEF CursorAssumption
<1>3. CASE k < Base
  <2>1. appendUInt64[k] = <<k>> /\ k \in 0..(2 * Base - 1)
    <3>1. k \in Nat /\ k < Base /\ k \in 0..(2 * Base - 1)
      BY <1>2, <1>3
    <3> HIDE DEF T
    <3> QED
      BY <3>1, AppendUInt64Is
  <2> DEFINE b == <<k>> \o rest
  <2>2. b \in Buffer /\ b # <<>> /\ Head(b) = k /\ Tail(b) = rest
    BY <2>1, PrependFacts
  <2> HIDE DEF b
  <2>3. readUInt64[b] = Read(Head(b), Tail(b))
    <3>1. ~(b = <<>>) /\ Head(b) < Base
      BY <1>3, <2>2
    <3> QED
      BY <2>2, <3>1, ReadUInt64Is, Zenon
  <2> QED
    BY <2>1, <2>2, <2>3 DEF b
<1>4. CASE k >= Base
  <2> DEFINE q == k \div Base
             x == Base + (k % Base)
             b == <<x>> \o (appendUInt64[q] \o rest)
  <2>1. q \in Nat /\ q < k /\ x \in 0..(2 * Base - 1) /\ x >= Base /\ x - Base + Base * q = k
    BY <1>2, <1>4, Digits
  <2>2. appendUInt64[k] = <<x>> \o appendUInt64[q] /\ appendUInt64[q] \in Buffer
    <3>1. ~(k < Base)
      BY <1>2, <1>4
    <3> QED
      BY <1>2, <2>1, <3>1, AppendUInt64Is
  <2>3. readUInt64[appendUInt64[q] \o rest] = Read(q, rest)
    BY <1>1, <1>2, <2>1
  <2> HIDE DEF q, x
  <2>4. appendUInt64[q] \o rest \in Buffer /\ <<x>> \in Buffer
    BY <2>1, <2>2, BufferFacts
  <2>5. appendUInt64[k] \o rest = b
    <3>1. <<x>> \in Buffer /\ appendUInt64[q] \in Buffer
      BY <2>2, <2>4
    <3> QED
      <4> DEFINE a == appendUInt64[q]
      <4>1. (<<x>> \o a) \o rest = <<x>> \o (a \o rest)
        <5> HIDE DEF a
        <5> QED
          BY <3>1, ConcatFacts DEF a
      <4> QED
        BY <2>2, <4>1 DEF b
  <2>6. b \in Buffer /\ b # <<>> /\ Head(b) = x /\ Tail(b) = appendUInt64[q] \o rest
    BY <2>1, <2>4, PrependFacts
  <2> HIDE DEF b
  <2>7. Read(q, rest).ok /\ Read(q, rest).val = q /\ Read(q, rest).rest = rest
    BY DEF Read
  <2>8. ~(Head(b) < Base)
    BY <1>2, <2>1, <2>6
  <2>9. readUInt64[b] = Read(x - Base + Base * q, rest)
    <3> DEFINE r == readUInt64[Tail(b)]
    <3>1. r = Read(q, rest)
      BY <2>3, <2>6
    <3>2. readUInt64[b] = Read(Head(b) - Base + Base * r.val, r.rest)
      <4>1. ~(b = <<>>) /\ r.ok
        BY <2>6, <2>7, <3>1
      <4> QED
        BY <2>6, <2>8, <4>1, ReadUInt64Is, Zenon
    <3> HIDE DEF r
    <3> QED
      BY <2>6, <2>7, <3>1, <3>2
  <2> QED
    BY <2>1, <2>5, <2>9
<1> QED
  BY <1>2, <1>3, <1>4

\* A number takes at least one byte.
LEMMA NumberNotEmpty ==
    ASSUME CursorAssumption, NEW n \in Nat
    PROVE  appendUInt64[n] \in Buffer /\ appendUInt64[n] # <<>>
<1>1. appendUInt64[n] \in Buffer
  BY AppendUInt64Is
<1>2. CASE n < Base
  <2>1. appendUInt64[n] = <<n>>
    BY <1>2, AppendUInt64Is
  <2> QED
    BY <1>1, <2>1
<1>3. CASE ~(n < Base)
  <2>1. n >= Base
    BY <1>3 DEF CursorAssumption
  <2>2. n \div Base \in Nat /\ Base + (n % Base) \in 0..(2 * Base - 1)
    BY <2>1, Digits DEF CursorAssumption
  <2>3. appendUInt64[n] = <<Base + (n % Base)>> \o appendUInt64[n \div Base]
    BY <1>3, AppendUInt64Is
  <2>4. appendUInt64[n \div Base] \in Buffer
    BY <2>2, AppendUInt64Is
  <2> QED
    BY <1>1, <2>2, <2>3, <2>4, PrependFacts
<1> QED
  BY <1>2, <1>3

\* The sign of a number is its lowest bit.
LEMMA IntComesBack ==
    ASSUME CursorAssumption, NEW i \in Int, NEW rest \in Buffer
    PROVE  /\ readInt64(appendInt64(i) \o rest) = Read(i, rest)
           /\ appendInt64(i) \in Buffer /\ appendInt64(i) # <<>>
<1> DEFINE z == ZigZag(i)
           b == appendUInt64[z] \o rest
           u == readUInt64[b]
<1>1. /\ z \in Nat
      /\ i = IF z % 2 = 0 THEN z \div 2 ELSE -((z + 1) \div 2)
  BY DEF ZigZag
<1>2. appendInt64(i) = appendUInt64[z]
  BY DEF appendInt64
<1> HIDE DEF z
<1>3. u = Read(z, rest)
  BY <1>1, NumberComesBack
<1>4. readInt64(b) = IF ~u.ok THEN Error
                     ELSE Read(IF u.val % 2 = 0 THEN u.val \div 2 ELSE -((u.val + 1) \div 2), u.rest)
  BY DEF readInt64
<1> HIDE DEF u
<1>5. u.ok /\ u.val = z /\ u.rest = rest
  BY <1>3 DEF Read
<1>6. readInt64(b) = Read(i, rest)
  BY <1>1, <1>4, <1>5
<1> QED
  BY <1>1, <1>2, <1>6, NumberNotEmpty

----------------------------------------------------------------------------
(* Strings and lists                                                       *)

\* A string is read as it was written.  Only an empty one with nothing behind it
\* is an error.
LEMMA StringComesBack ==
    ASSUME CursorAssumption, NEW s \in Buffer, NEW rest \in Buffer
    PROVE  /\ readString(appendString(s) \o rest) =
                  IF s = <<>> /\ rest = <<>> THEN Error ELSE Read(s, rest)
           /\ appendString(s) \in Buffer /\ appendString(s) # <<>>
<1> DEFINE a == appendUInt64[Len(s)]
           b == a \o (s \o rest)
           len == readUInt64[b]
<1>1. Len(s) \in Nat /\ s \o rest \in Buffer
  BY BufferFacts
<1>2. a \in Buffer /\ a # <<>>
  BY <1>1, NumberNotEmpty
<1>3. len = Read(Len(s), s \o rest)
  BY <1>1, NumberComesBack
<1>4. appendString(s) = a \o s
  BY DEF appendString
<1> HIDE DEF a
<1>5. appendString(s) \o rest = b
  BY <1>2, <1>4, ConcatFacts
<1>6. appendString(s) \in Buffer /\ appendString(s) # <<>>
  BY <1>2, <1>4, BufferFacts, ConcatFacts
<1>7. readString(b) = IF ~len.ok \/ len.rest = <<>> \/ Len(len.rest) < len.val THEN Error
                      ELSE Read(SubSeq(len.rest, 1, len.val), Behind(len.rest, len.val))
  BY DEF readString
<1> HIDE DEF b, len
<1>8. len.ok /\ len.val = Len(s) /\ len.rest = s \o rest
  BY <1>3 DEF Read
<1>9. CASE s \o rest = <<>>
  <2>1. s = <<>> /\ rest = <<>>
    BY <1>9, ConcatFacts
  <2> QED
    BY <1>5, <1>6, <1>7, <1>8, <1>9, <2>1
<1>10. CASE s \o rest # <<>>
  <2>1. ~(s = <<>> /\ rest = <<>>)
    BY <1>10, ConcatFacts
  <2>2. ~(Len(s \o rest) < Len(s))
    BY <1>1, ConcatFacts, BufferFacts
  <2>3. readString(b) = Read(SubSeq(s \o rest, 1, Len(s)), Behind(s \o rest, Len(s)))
    BY <1>7, <1>8, <1>10, <2>2
  <2>4. readString(b) = Read(s, rest)
    BY <2>3, CutFacts
  <2> QED
    BY <1>5, <1>6, <2>1, <2>4
<1> QED
  BY <1>9, <1>10

\* appendStrings satisfies its equation.
LEMMA AppendStringsIs ==
    ASSUME CursorAssumption
    PROVE  \A ids \in Seq(Ids) :
              /\ appendStrings[ids] \in Buffer
              /\ appendStrings[ids] =
                    IF ids = <<>> THEN <<>> ELSE appendString(Head(ids)) \o appendStrings[Tail(ids)]
<1> DEFINE S == Seq(Ids)
           stop == {<<>>}
           rank == [ids \in S |-> Len(ids)]
           next == [ids \in S |-> IF ids = <<>> THEN ids ELSE Tail(ids)]
           first == [ids \in S |-> <<>>]
           step == [ids \in S |-> [b \in Buffer |->
                       IF ids = <<>> THEN <<>> ELSE appendString(Head(ids)) \o b]]
<1>1. \A ids \in S : ids # <<>> =>
          Head(ids) \in Buffer /\ Tail(ids) \in S /\ Len(Tail(ids)) < Len(ids) /\ Len(Tail(ids)) \in Nat
  <2> SUFFICES ASSUME NEW ids \in S, ids # <<>>
               PROVE  Head(ids) \in Buffer /\ Tail(ids) \in S /\ Len(Tail(ids)) < Len(ids) /\ Len(Tail(ids)) \in Nat
    OBVIOUS
  <2>1. Head(ids) \in Ids /\ Tail(ids) \in Seq(Ids) /\ Len(Tail(ids)) = Len(ids) - 1
    BY HeadTailProperties
  <2> QED
    BY <2>1 DEF CursorAssumption
<1>2. rank \in [S -> Nat] /\ next \in [S -> S] /\ stop \in SUBSET S /\ first \in [S -> Buffer]
  BY <1>1, BufferFacts
<1>3. \A ids \in S \ stop : rank[next[ids]] < rank[ids]
  BY <1>1
<1>4. step \in [S -> [Buffer -> Buffer]]
  <2>1. ASSUME NEW ids \in S, NEW b \in Buffer, ids # <<>>
        PROVE  appendString(Head(ids)) \o b \in Buffer
    BY <1>1, <2>1, StringComesBack, BufferFacts
  <2>2. ASSUME NEW ids \in S, NEW b \in Buffer
        PROVE  (IF ids = <<>> THEN <<>> ELSE appendString(Head(ids)) \o b) \in Buffer
    BY <2>1, BufferFacts
  <2> HIDE DEF S
  <2> QED
    BY <2>2
<1>5. PICK f \in [S -> Buffer] : Solves(f, S, next, stop, first, step)
  <2> HIDE DEF S, stop, rank, next, first, step
  <2>1. Recursion(S, Buffer, rank, next, stop, first, step)
    BY <1>2, <1>3, <1>4 DEF Recursion
  <2> QED
    BY <2>1, RecursiveFunction
<1> DEFINE Is(g) == g = [ids \in Seq(Ids) |->
                IF ids = <<>> THEN <<>> ELSE appendString(Head(ids)) \o g[Tail(ids)]]
<1>6. Is(f)
  <2>1. ASSUME NEW ids \in S
        PROVE  f[ids] = IF ids = <<>> THEN <<>> ELSE appendString(Head(ids)) \o f[Tail(ids)]
    <3>1. f[ids] = IF ids \in stop THEN first[ids] ELSE step[ids][f[next[ids]]]
      <4> HIDE DEF S, stop, first, step, next
      <4> QED
        BY <1>5 DEF Solves
    <3>2. CASE ids = <<>>
      BY <3>1, <3>2
    <3>3. CASE ids # <<>>
      <4>1. next[ids] = Tail(ids) /\ Tail(ids) \in S /\ f[Tail(ids)] \in Buffer
        BY <1>1, <1>5, <3>3
      <4>2. f[ids] = step[ids][f[Tail(ids)]]
        BY <3>1, <3>3, <4>1
      <4> HIDE DEF S
      <4>3. step[ids][f[Tail(ids)]] = appendString(Head(ids)) \o f[Tail(ids)]
        BY <3>3, <4>1
      <4> QED
        BY <3>3, <4>2, <4>3
    <3> QED
      BY <3>2, <3>3
  <2> QED
    BY <1>5, <2>1
<1>7. appendStrings = CHOOSE g : Is(g)
  BY DEF appendStrings
<1>8. Is(appendStrings)
  <2> HIDE DEF Is
  <2> QED
    BY <1>6, <1>7
<1>9. \A ids \in S : appendStrings[ids] =
          IF ids = <<>> THEN <<>> ELSE appendString(Head(ids)) \o appendStrings[Tail(ids)]
  BY <1>8
<1>10. \A ids \in S : appendStrings[ids] \in Buffer
  <2> DEFINE T == {n \in Nat : \E ids \in S : Len(ids) = n /\ appendStrings[ids] \notin Buffer}
  <2>1. \A ids \in S : Len(ids) \in Nat
    OBVIOUS
  <2> SUFFICES ASSUME T # {} PROVE FALSE
    BY <2>1
  <2>2. PICK n \in T : \A k \in T : n <= k
    <3>1. T \in SUBSET Nat
      OBVIOUS
    <3> HIDE DEF T
    <3> QED
      BY <3>1, LeastNat
  <2>3. PICK ids \in S : Len(ids) = n /\ appendStrings[ids] \notin Buffer
    OBVIOUS
  <2>4. ids # <<>>
    BY <1>9, <2>3, BufferFacts
  <2> HIDE DEF S
  <2>5. appendStrings[Tail(ids)] \in Buffer
    <3>1. Tail(ids) \in S /\ Len(Tail(ids)) \in Nat /\ Len(Tail(ids)) < n
      BY <1>1, <2>3, <2>4
    <3>2. Len(Tail(ids)) \notin T
      <4>1. n \in Nat
        OBVIOUS
      <4> HIDE DEF T
      <4> QED
        BY <2>2, <3>1, <4>1
    <3> QED
      BY <3>1, <3>2
  <2>6. appendString(Head(ids)) \in Buffer
    <3>1. Head(ids) \in Buffer /\ <<>> \in Buffer
      BY <1>1, <2>3, <2>4, BufferFacts
    <3> QED
      BY <3>1, StringComesBack
  <2>7. appendString(Head(ids)) \o appendStrings[Tail(ids)] \in Buffer
    BY <2>5, <2>6, BufferFacts
  <2> QED
    BY <1>9, <2>3, <2>4, <2>7
<1> QED
  BY <1>9, <1>10

\* What readString gives is a string and a buffer.
LEMMA ReadStringType ==
    ASSUME CursorAssumption, NEW b \in Buffer
    PROVE  readString(b) \in Reading(Buffer)
<1> DEFINE len == readUInt64[b]
<1>1. len \in Reading(Nat)
  BY ReadUInt64Type
<1>2. readString(b) = IF ~len.ok \/ len.rest = <<>> \/ Len(len.rest) < len.val THEN Error
                      ELSE Read(SubSeq(len.rest, 1, len.val), Behind(len.rest, len.val))
  BY DEF readString
<1> HIDE DEF len
<1>3. CASE len.ok /\ ~(Len(len.rest) < len.val) /\ len.rest # <<>>
  <2> DEFINE rest == len.rest
             n == len.val
  <2>1. n \in Nat /\ rest \in Buffer /\ Len(rest) \in Nat /\ n <= Len(rest)
    BY <1>1, <1>3, ReadingFacts, BufferFacts
  <2> HIDE DEF n, rest
  <2>2. \A i \in 1..Len(rest) : rest[i] \in 0..(2 * Base - 1)
    BY <2>1, ElementOfSeq DEF Buffer
  <2>3. SubSeq(rest, 1, n) \in Buffer
    <3>1. \A i \in 1..n : rest[i] \in 0..(2 * Base - 1)
      BY <2>1, <2>2
    <3> QED
      BY <2>1, <3>1, SubSeqProperties DEF Buffer
  <2>4. Behind(rest, n) \in Buffer
    <3>1. \A i \in (n + 1)..Len(rest) : rest[i] \in 0..(2 * Base - 1)
      BY <2>1, <2>2
    <3>2. n + 1 \in Int /\ Len(rest) \in Int
      BY <2>1
    <3> QED
      BY <3>1, <3>2, SubSeqProperties DEF Buffer, Behind
  <2> QED
    BY <1>2, <1>3, <2>3, <2>4, ReadingFacts DEF n, rest
<1>4. CASE ~(len.ok /\ ~(Len(len.rest) < len.val) /\ len.rest # <<>>)
  BY <1>2, <1>4, ReadingFacts
<1> QED
  BY <1>3, <1>4

\* readStrings satisfies its equation.
LEMMA ReadStringsIs ==
    ASSUME CursorAssumption
    PROVE  \A n \in Nat, b \in Buffer : readStrings[n][b] =
               IF n = 0 THEN Read(<<>>, b)
               ELSE IF ~readString(b).ok THEN Error
               ELSE IF readStrings[n - 1][readString(b).rest].ok
                    THEN Read(<<readString(b).val>> \o readStrings[n - 1][readString(b).rest].val,
                              readStrings[n - 1][readString(b).rest].rest)
                    ELSE Error
<1> DEFINE W == Reading(Seq(Buffer))
           V == [Buffer -> W]
           s(b) == readString(b)
           More(g, b) == IF g[s(b).rest].ok
                         THEN Read(<<s(b).val>> \o g[s(b).rest].val, g[s(b).rest].rest) ELSE Error
           Next1(g, b) == IF ~s(b).ok THEN Error ELSE More(g, b)
           stop == {0}
           rank == [n \in Nat |-> n]
           next == [n \in Nat |-> IF n = 0 THEN n ELSE n - 1]
           none == [b \in Buffer |-> Read(<<>>, b)]
           first == [n \in Nat |-> none]
           step == [n \in Nat |-> [g \in V |-> [b \in Buffer |-> Next1(g, b)]]]
<1>1. rank \in [Nat -> Nat] /\ next \in [Nat -> Nat] /\ stop \in SUBSET Nat
  OBVIOUS
<1>2. \A n \in Nat \ stop : rank[next[n]] < rank[n]
  OBVIOUS
<1>3. first \in [Nat -> V]
  <2>1. \A b \in Buffer : Read(<<>>, b) \in W
    <3>1. <<>> \in Seq(Buffer)
      OBVIOUS
    <3> QED
      BY <3>1, ReadingFacts
  <2>2. none \in V
    BY <2>1
  <2> HIDE DEF V, none
  <2> QED
    BY <2>2
<1>4. step \in [Nat -> [V -> V]]
  <2>1. ASSUME NEW g \in V, NEW b \in Buffer PROVE Next1(g, b) \in W
    <3>1. CASE s(b).ok
      <4>1. s(b) \in Reading(Buffer)
        BY ReadStringType
      <4>2. s(b).rest \in Buffer /\ s(b).val \in Buffer
        BY <3>1, <4>1, ReadingFacts
      <4>3. g[s(b).rest] \in W
        BY <4>2
      <4> HIDE DEF s
      <4>4. CASE g[s(b).rest].ok
        <5>1. g[s(b).rest].val \in Seq(Buffer) /\ g[s(b).rest].rest \in Buffer
          BY <4>3, <4>4, ReadingFacts
        <5>2. <<s(b).val>> \o g[s(b).rest].val \in Seq(Buffer)
          BY <4>2, <5>1, ConcatProperties
        <5> QED
          BY <3>1, <4>4, <5>1, <5>2, ReadingFacts
      <4>5. CASE ~g[s(b).rest].ok
        BY <3>1, <4>5, ReadingFacts
      <4> QED
        BY <4>4, <4>5
    <3>2. CASE ~s(b).ok
      BY <3>2, ReadingFacts
    <3> QED
      BY <3>1, <3>2
  <2> HIDE DEF Next1, W
  <2>2. \A g \in V : [b \in Buffer |-> Next1(g, b)] \in V
    BY <2>1
  <2> HIDE DEF V
  <2> QED
    BY <2>2
<1>5. PICK f \in [Nat -> V] : Solves(f, Nat, next, stop, first, step)
  <2> HIDE DEF V, stop, rank, next, first, step
  <2>1. Recursion(Nat, V, rank, next, stop, first, step)
    BY <1>1, <1>2, <1>3, <1>4 DEF Recursion
  <2> QED
    BY <2>1, RecursiveFunction
<1> DEFINE Is(g) == g = [n \in Nat |-> [b \in Buffer |->
                IF n = 0 THEN Read(<<>>, b)
                ELSE IF ~s(b).ok THEN Error ELSE More(g[n - 1], b)]]
<1>6. Is(f)
  <2>1. ASSUME NEW n \in Nat
        PROVE  f[n] = [b \in Buffer |-> IF n = 0 THEN Read(<<>>, b)
                                        ELSE IF ~s(b).ok THEN Error ELSE More(f[n - 1], b)]
    <3>1. f[n] = IF n \in stop THEN first[n] ELSE step[n][f[next[n]]]
      <4> HIDE DEF V, stop, first, step, next
      <4> QED
        BY <1>5 DEF Solves
    <3>2. CASE n = 0
      <4>1. f[n] = none
        BY <3>1, <3>2
      <4> QED
        BY <3>2, <4>1
    <3>3. CASE n # 0
      <4>1. next[n] = n - 1 /\ n - 1 \in Nat
        BY <3>3
      <4>2. f[n - 1] \in V
        <5> HIDE DEF V
        <5> QED
          BY <1>5, <4>1
      <4>3. f[n] = step[n][f[n - 1]]
        <5> HIDE DEF step, V
        <5> QED
          BY <3>1, <3>3, <4>1
      <4>4. step[n][f[n - 1]] = [b \in Buffer |-> Next1(f[n - 1], b)]
        <5> HIDE DEF Next1, V
        <5> QED
          BY <4>2
      <4> HIDE DEF step, More, s
      <4> QED
        BY <3>3, <4>3, <4>4
    <3> QED
      BY <3>2, <3>3
  <2> HIDE DEF V, More, s
  <2> QED
    BY <1>5, <2>1
<1>7. readStrings = CHOOSE g : Is(g)
  BY DEF readStrings
<1>8. Is(readStrings)
  <2> HIDE DEF Is
  <2> QED
    BY <1>6, <1>7
<1>9. ASSUME NEW n \in Nat, NEW b \in Buffer
      PROVE  readStrings[n][b] = IF n = 0 THEN Read(<<>>, b)
                                 ELSE IF ~s(b).ok THEN Error ELSE More(readStrings[n - 1], b)
  <2> HIDE DEF More, s
  <2>1. readStrings[n] = [c \in Buffer |-> IF n = 0 THEN Read(<<>>, c)
                                 ELSE IF ~s(c).ok THEN Error ELSE More(readStrings[n - 1], c)]
    BY <1>8
  <2> QED
    BY <2>1
<1> QED
  BY <1>9, Zenon

\* A list of ids is read as it was written.  Only one that ends with an empty id
\* and has nothing behind it is an error.
LEMMA ListComesBack ==
    ASSUME CursorAssumption, NEW rest \in Buffer
    PROVE  \A ids \in Seq(Ids) :
              LET r == readStrings[Len(ids)][appendStrings[ids] \o rest] IN
              /\ r.ok => r.val = ids /\ r.rest = rest
              /\ ~r.ok => rest = <<>> /\ ids # <<>> /\ ids[Len(ids)] = <<>>
<1> DEFINE r(ids) == readStrings[Len(ids)][appendStrings[ids] \o rest]
           Back(ids) == /\ r(ids).ok => r(ids).val = ids /\ r(ids).rest = rest
                        /\ ~r(ids).ok => rest = <<>> /\ ids # <<>> /\ ids[Len(ids)] = <<>>
           T == {n \in Nat : \E ids \in Seq(Ids) : Len(ids) = n /\ ~Back(ids)}
<1>1. ASSUME T # {} PROVE FALSE
  <2>1. PICK n \in T : \A k \in T : n <= k
    <3>1. T \in SUBSET Nat
      OBVIOUS
    <3> HIDE DEF T
    <3> QED
      BY <1>1, <3>1, LeastNat
  <2>2. PICK ids \in Seq(Ids) : Len(ids) = n /\ ~Back(ids)
    OBVIOUS
  <2>3. n \in Nat
    OBVIOUS
  <2>4. ids # <<>>
    <3> SUFFICES ASSUME ids = <<>> PROVE FALSE
      OBVIOUS
    <3>1. Len(ids) = 0 /\ appendStrings[ids] = <<>>
      BY AppendStringsIs
    <3>2. r(ids) = Read(<<>>, rest)
      <4>1. appendStrings[ids] \o rest = rest
        BY <3>1, ConcatFacts
      <4>2. readStrings[0][rest] = Read(<<>>, rest)
        BY ReadStringsIs
      <4> QED
        BY <3>1, <4>1, <4>2
    <3> QED
      BY <2>2, <3>2 DEF Read
  <2> DEFINE h == Head(ids)
             t == Tail(ids)
             behind == appendStrings[t] \o rest
             b == appendString(h) \o behind
             first == readString(b)
             others == readStrings[Len(t)][behind]
  <2>5. /\ h \in Buffer /\ t \in Seq(Ids) /\ Len(t) = n - 1 /\ Len(t) \in Nat /\ Len(ids) = n /\ n # 0
        /\ h = ids[1] /\ \A i \in 1..Len(t) : t[i] = ids[i + 1]
    <3>1. Len(ids) \in Nat /\ Len(ids) # 0 /\ h = ids[1]
      BY <2>4
    <3>2. h \in Ids /\ t \in Seq(Ids) /\ Len(t) = Len(ids) - 1 /\ \A i \in 1..Len(t) : t[i] = ids[i + 1]
      BY <2>4, HeadTailProperties
    <3> QED
      BY <2>2, <3>1, <3>2 DEF CursorAssumption
  <2> HIDE DEF h, t
  <2>6. appendStrings[t] \in Buffer /\ behind \in Buffer /\ appendString(h) \in Buffer
    BY <2>5, AppendStringsIs, BufferFacts, StringComesBack
  <2>7. appendStrings[ids] \o rest = b
    <3>1. appendStrings[ids] = appendString(h) \o appendStrings[t]
      BY <2>4, AppendStringsIs DEF h, t
    <3> DEFINE x == appendString(h)
               y == appendStrings[t]
    <3>2. (x \o y) \o rest = x \o (y \o rest)
      <4>1. x \in Buffer /\ y \in Buffer
        BY <2>6
      <4> HIDE DEF x, y
      <4> QED
        BY <4>1, ConcatFacts
    <3> QED
      BY <3>1, <3>2
  <2>8. Back(t)
    <3>1. Len(t) \notin T
      <4> HIDE DEF T
      <4> QED
        BY <2>1, <2>3, <2>5
    <3> HIDE DEF Back
    <3> QED
      BY <2>5, <3>1
  <2>9. r(ids) = IF ~first.ok THEN Error
                 ELSE IF readStrings[n - 1][first.rest].ok
                      THEN Read(<<first.val>> \o readStrings[n - 1][first.rest].val,
                                readStrings[n - 1][first.rest].rest)
                      ELSE Error
    <3>1. b \in Buffer
      BY <2>6, BufferFacts
    <3>2. r(ids) = readStrings[n][b]
      BY <2>2, <2>7
    <3>3. n \in Nat /\ ~(n = 0)
      BY <2>3, <2>5
    <3> HIDE DEF b, r, T
    <3>4. readStrings[n][b] = IF ~first.ok THEN Error
                 ELSE IF readStrings[n - 1][first.rest].ok
                      THEN Read(<<first.val>> \o readStrings[n - 1][first.rest].val,
                                readStrings[n - 1][first.rest].rest)
                      ELSE Error
      BY <3>1, <3>3, ReadStringsIs, Zenon
    <3> QED
      BY <3>2, <3>4, Zenon
  <2>10. first = IF h = <<>> /\ behind = <<>> THEN Error ELSE Read(h, behind)
    BY <2>5, <2>6, StringComesBack
  <2>11. CASE h = <<>> /\ behind = <<>>
    <3>1. rest = <<>> /\ appendStrings[t] = <<>>
      BY <2>6, <2>11, ConcatFacts
    <3>2. t = <<>>
      <4> SUFFICES ASSUME t # <<>> PROVE FALSE
        OBVIOUS
      <4>1. Head(t) \in Buffer /\ Tail(t) \in Seq(Ids)
        <5>1. Head(t) \in Ids /\ Tail(t) \in Seq(Ids)
          BY <2>5, HeadTailProperties
        <5> QED
          BY <5>1 DEF CursorAssumption
      <4>2. appendStrings[t] = appendString(Head(t)) \o appendStrings[Tail(t)] /\ appendStrings[Tail(t)] \in Buffer
        BY <2>5, <4>1, AppendStringsIs
      <4>3. appendString(Head(t)) \in Buffer /\ appendString(Head(t)) # <<>>
        BY <4>1, BufferFacts, StringComesBack
      <4> DEFINE x == appendString(Head(t))
                 y == appendStrings[Tail(t)]
      <4>4. x \o y = <<>>
        BY <3>1, <4>2
      <4> HIDE DEF x, y
      <4> QED
        BY <4>2, <4>3, <4>4, ConcatFacts DEF x, y
    <3>3. ids[Len(ids)] = <<>>
      <4>1. Len(t) = 0
        BY <3>2
      <4>2. Len(ids) = 1
        BY <2>3, <2>5, <4>1
      <4> QED
        BY <2>5, <2>11, <4>2
    <3>4. r(ids) = Error
      BY <2>9, <2>10, <2>11 DEF Error
    <3> HIDE DEF r
    <3> QED
      BY <2>2, <2>4, <3>1, <3>3, <3>4 DEF Error
  <2>12. CASE ~(h = <<>> /\ behind = <<>>)
    <3>1. first.ok /\ first.val = h /\ first.rest = behind
      BY <2>10, <2>12 DEF Read
    <3> HIDE DEF first, behind
    <3>2. r(ids) = IF others.ok THEN Read(<<h>> \o others.val, others.rest) ELSE Error
      BY <2>5, <2>9, <3>1
    <3>3. others = r(t)
      BY DEF behind
    <3> HIDE DEF r, others
    <3>4. CASE others.ok
      <4>1. others.val = t /\ others.rest = rest
        BY <2>8, <3>3, <3>4
      <4>2. <<h>> \o t = ids
        <5> DEFINE c == <<h>> \o t
        <5>1. <<h>> \in Seq(Ids)
          BY <2>4, HeadTailProperties DEF h
        <5>2. c \in Seq(Ids) /\ Len(c) = n /\ \A i \in 1..n : c[i] = IF i <= 1 THEN h ELSE t[i - 1]
          BY <2>5, <5>1, ConcatProperties
        <5> HIDE DEF c
        <5>3. \A i \in 1..n : c[i] = ids[i]
          <6> SUFFICES ASSUME NEW i \in 1..n PROVE c[i] = ids[i]
            OBVIOUS
          <6>1. CASE i = 1
            BY <2>5, <5>2, <6>1
          <6>2. CASE i # 1
            <7>1. i - 1 \in 1..Len(t) /\ c[i] = t[i - 1] /\ (i - 1) + 1 = i
              BY <2>3, <2>5, <5>2, <6>2
            <7> QED
              BY <2>5, <7>1
          <6> QED
            BY <6>1, <6>2
        <5>4. c = ids
          BY <2>5, <5>2, <5>3, SeqEqual
        <5> QED
          BY <5>4 DEF c
      <4>3. r(ids) = Read(ids, rest)
        BY <3>2, <3>4, <4>1, <4>2
      <4> QED
        BY <2>2, <4>3 DEF Read
    <3>5. CASE ~others.ok
      <4>1. rest = <<>> /\ t # <<>> /\ t[Len(t)] = <<>>
        BY <2>8, <3>3, <3>5
      <4>2. ids[Len(ids)] = <<>>
        <5>1. Len(t) \in 1..Len(t) /\ Len(t) + 1 = Len(ids)
          BY <2>3, <2>5, <4>1
        <5> QED
          BY <2>5, <4>1, <5>1
      <4>3. r(ids) = Error
        BY <3>2, <3>5
      <4> QED
        BY <2>2, <2>4, <4>1, <4>2, <4>3 DEF Error
    <3> QED
      BY <3>4, <3>5
  <2> QED
    BY <2>11, <2>12
<1>2. \A ids \in Seq(Ids) : Back(ids)
  <2>1. \A ids \in Seq(Ids) : Len(ids) \in Nat
    OBVIOUS
  <2> HIDE DEF Back
  <2> QED
    BY <1>1, <2>1
<1> QED
  BY <1>2

----------------------------------------------------------------------------
(* Values and cursors                                                      *)

\* A value of its type.
Typed(x) == x.type \in DOMAIN ValuesOf /\ x.val \in ValuesOf[x.type]

\* A value is read as it was written.  Only an empty string, or a list that ends
\* with one, is an error when nothing is behind it.
LEMMA ValueComesBack ==
    ASSUME CursorAssumption, NEW x, Typed(x), NEW rest \in Buffer
    PROVE  LET u == unpackVal(x.type, packVal(x) \o rest) IN
           /\ packVal(x) \in Buffer /\ packVal(x) # <<>>
           /\ u.ok => u.val = x.val /\ u.rest = rest
           /\ ~u.ok => /\ rest = <<>>
                       /\ \/ x.type \in {"bytes", "id"} /\ x.val = <<>>
                          \/ x.type = "ids" /\ x.val # <<>> /\ x.val[Len(x.val)] = <<>>
<1> DEFINE u == unpackVal(x.type, packVal(x) \o rest)
<1>1. x.type \in {"bool", "uint", "int", "bytes", "id", "ids"} /\ x.val \in ValuesOf[x.type]
  BY DEF Typed, ValuesOf
<1>2. CASE x.type = "bool"
  <2> DEFINE n == IF x.val THEN 1 ELSE 0
             b == appendUInt64[n] \o rest
  <2>1. x.val \in BOOLEAN /\ n \in Nat /\ (n > 0 <=> x.val)
    BY <1>1, <1>2 DEF ValuesOf
  <2>2. packVal(x) = appendUInt64[n]
    BY <1>2 DEF packVal
  <2>3. u = IF readUInt64[b].ok THEN Read(readUInt64[b].val > 0, readUInt64[b].rest) ELSE Error
    BY <1>2, <2>2 DEF unpackVal
  <2> HIDE DEF n, u
  <2>4. readUInt64[b] = Read(n, rest)
    BY <2>1, NumberComesBack
  <2> HIDE DEF b
  <2>5. u = Read(n > 0, rest)
    BY <2>3, <2>4 DEF Read
  <2>6. u.ok /\ u.val = x.val /\ u.rest = rest
    BY <2>1, <2>5 DEF Read
  <2> QED
    BY <2>1, <2>2, <2>6, NumberNotEmpty DEF u
<1>3. CASE x.type = "uint"
  <2>1. x.val \in Nat
    <3>1. x.val \in {i \in Ints : i >= 0}
      BY <1>1, <1>3 DEF ValuesOf
    <3>2. Ints \subseteq Int
      BY DEF CursorAssumption
    <3>3. x.val \in Int
      BY <3>1, <3>2
    <3>4. x.val >= 0
      BY <3>1
    <3> QED
      BY <3>3, <3>4
  <2>2. packVal(x) = appendUInt64[x.val]
    BY <1>3 DEF packVal
  <2>3. u = Read(x.val, rest)
    BY <1>3, <2>1, <2>2, NumberComesBack DEF unpackVal
  <2>4. u.ok /\ u.val = x.val /\ u.rest = rest
    BY <2>3 DEF Read
  <2> QED
    BY <2>1, <2>2, <2>4, NumberNotEmpty
<1>4. CASE x.type = "int"
  <2>1. x.val \in Int
    <3>1. x.val \in Ints
      BY <1>1, <1>4 DEF ValuesOf
    <3> QED
      BY <3>1 DEF CursorAssumption
  <2>2. packVal(x) = appendInt64(x.val)
    BY <1>4 DEF packVal
  <2>3. u = Read(x.val, rest)
    BY <1>4, <2>1, <2>2, IntComesBack DEF unpackVal
  <2>4. u.ok /\ u.val = x.val /\ u.rest = rest
    BY <2>3 DEF Read
  <2> QED
    BY <2>1, <2>2, <2>4, IntComesBack
<1>5. CASE x.type \in {"bytes", "id"}
  <2>1. x.val \in Buffer
    BY <1>1, <1>5 DEF ValuesOf, CursorAssumption
  <2>2. packVal(x) = appendString(x.val)
    BY <1>5 DEF packVal
  <2>3. u = IF x.val = <<>> /\ rest = <<>> THEN Error ELSE Read(x.val, rest)
    <3>1. u = readString(appendString(x.val) \o rest)
      BY <1>5, <2>2 DEF unpackVal
    <3> QED
      BY <2>1, <3>1, StringComesBack
  <2>4. packVal(x) \in Buffer /\ packVal(x) # <<>>
    BY <2>1, <2>2, StringComesBack
  <2> HIDE DEF u
  <2>5. CASE x.val = <<>> /\ rest = <<>>
    BY <1>5, <2>3, <2>4, <2>5 DEF Error, u
  <2>6. CASE ~(x.val = <<>> /\ rest = <<>>)
    <3>1. u.ok /\ u.val = x.val /\ u.rest = rest
      BY <2>3, <2>6 DEF Read
    <3> QED
      BY <2>4, <3>1 DEF u
  <2> QED
    BY <2>5, <2>6
<1>6. CASE x.type = "ids"
  <2> DEFINE list == x.val
             c == appendStrings[list]
             b == appendInt64(Len(list)) \o (c \o rest)
             n == readInt64(b)
  <2>1. list \in Seq(Ids) /\ Len(list) \in Nat
    <3>1. list \in UNION {[1..m -> Ids] : m \in 0..MaxIds}
      BY <1>1, <1>6 DEF ValuesOf, SeqOf
    <3>2. PICK m \in 0..MaxIds : list \in [1..m -> Ids]
      BY <3>1
    <3>3. m \in Nat
      BY <3>2 DEF CursorAssumption
    <3>4. list \in Seq(Ids)
      BY <3>2, <3>3, IsASeq
    <3> QED
      BY <3>4
  <2>2. packVal(x) = appendInt64(Len(list)) \o c
    BY <1>6 DEF packVal
  <2>3. u = IF readInt64(packVal(x) \o rest).ok /\ readInt64(packVal(x) \o rest).val >= 0
            THEN readStrings[readInt64(packVal(x) \o rest).val][readInt64(packVal(x) \o rest).rest] ELSE Error
    BY <1>6 DEF unpackVal
  <2> HIDE DEF list, u
  <2>4. c \in Buffer /\ c \o rest \in Buffer
    BY <2>1, AppendStringsIs, BufferFacts
  <2>5. n = Read(Len(list), c \o rest) /\ appendInt64(Len(list)) \in Buffer /\ appendInt64(Len(list)) # <<>>
    BY <2>1, <2>4, IntComesBack
  <2> HIDE DEF c
  <2>6. packVal(x) \o rest = b
    <3> DEFINE a == appendInt64(Len(list))
    <3>1. a \in Buffer
      BY <2>5
    <3> HIDE DEF a
    <3>2. (a \o c) \o rest = a \o (c \o rest)
      BY <2>4, <3>1, ConcatFacts
    <3> QED
      BY <2>2, <3>2 DEF a
  <2>7. packVal(x) \in Buffer /\ packVal(x) # <<>>
    <3> DEFINE a == appendInt64(Len(list))
    <3>1. a \in Buffer /\ a # <<>>
      BY <2>5
    <3> HIDE DEF a
    <3>2. a \o c \in Buffer /\ a \o c # <<>>
      BY <2>4, <3>1, ConcatFacts, BufferFacts
    <3> QED
      BY <2>2, <3>2 DEF a
  <2>8. u = IF n.ok /\ n.val >= 0 THEN readStrings[n.val][n.rest] ELSE Error
    BY <2>3, <2>6
  <2> HIDE DEF n, b
  <2>9. u = readStrings[Len(list)][c \o rest]
    <3>1. n.ok /\ n.val = Len(list) /\ n.rest = c \o rest
      BY <2>5 DEF Read
    <3> QED
      BY <2>1, <2>8, <3>1
  <2>10. /\ u.ok => u.val = list /\ u.rest = rest
         /\ ~u.ok => rest = <<>> /\ list # <<>> /\ list[Len(list)] = <<>>
    BY <2>1, <2>9, ListComesBack DEF c
  <2> QED
    BY <1>6, <2>7, <2>10 DEF u, list
<1> QED
  BY <1>1, <1>2, <1>3, <1>4, <1>5, <1>6

\* packedFrom satisfies its equation: the bytes of the k-th value and those of the
\* values behind it.
LEMMA PackedFromIs ==
    ASSUME CursorAssumption, NEW vals, Len(vals) \in Nat, \A k \in 1..Len(vals) : Typed(vals[k])
    PROVE  /\ \A k \in 1..(Len(vals) + 1) : packedFrom(vals)[k] \in Buffer
           /\ \A k \in 1..Len(vals) : /\ packedFrom(vals)[k] = packVal(vals[k]) \o packedFrom(vals)[k + 1]
                                      /\ packedFrom(vals)[k] # <<>>
           /\ packedFrom(vals)[Len(vals) + 1] = <<>>
<1> DEFINE N == Len(vals)
           S == 1..(N + 1)
           pack(k) == packVal(vals[k])
           stop == {N + 1}
           rank == [k \in S |-> (N + 1) - k]
           next == [k \in S |-> IF k > N THEN k ELSE k + 1]
           first == [k \in S |-> <<>>]
           step == [k \in S |-> [b \in Buffer |-> IF k > N THEN <<>> ELSE pack(k) \o b]]
<1>1. \A k \in 1..N : pack(k) \in Buffer /\ pack(k) # <<>>
  BY BufferFacts, ValueComesBack
<1> HIDE DEF pack
<1>2. N \in Nat
  OBVIOUS
<1> HIDE DEF N
<1>3. rank \in [S -> Nat] /\ next \in [S -> S] /\ stop \in SUBSET S /\ first \in [S -> Buffer]
  BY <1>2, BufferFacts
<1>4. \A k \in S \ stop : rank[next[k]] < rank[k]
  BY <1>2
<1>5. step \in [S -> [Buffer -> Buffer]]
  <2>1. ASSUME NEW k \in S, NEW b \in Buffer
        PROVE  (IF k > N THEN <<>> ELSE pack(k) \o b) \in Buffer
    <3>1. CASE k > N
      BY <3>1, BufferFacts
    <3>2. CASE ~(k > N)
      <4>1. pack(k) \in Buffer
        BY <1>1, <1>2, <3>2
      <4> QED
        BY <3>2, <4>1, BufferFacts
    <3> QED
      BY <3>1, <3>2
  <2> HIDE DEF S
  <2> QED
    BY <2>1
<1>6. PICK f \in [S -> Buffer] : Solves(f, S, next, stop, first, step)
  <2> HIDE DEF S, stop, rank, next, first, step
  <2>1. Recursion(S, Buffer, rank, next, stop, first, step)
    BY <1>3, <1>4, <1>5 DEF Recursion
  <2> QED
    BY <2>1, RecursiveFunction
<1> DEFINE Is(g) == g = [k \in S |-> IF k > N THEN <<>> ELSE pack(k) \o g[k + 1]]
<1>7. Is(f)
  <2>1. ASSUME NEW k \in S
        PROVE  f[k] = IF k > N THEN <<>> ELSE pack(k) \o f[k + 1]
    <3>1. f[k] = IF k \in stop THEN first[k] ELSE step[k][f[next[k]]]
      <4> HIDE DEF S, stop, first, step, next
      <4> QED
        BY <1>6 DEF Solves
    <3>2. CASE k > N
      BY <1>2, <3>1, <3>2
    <3>3. CASE ~(k > N)
      <4>1. k \notin stop /\ next[k] = k + 1 /\ k + 1 \in S
        BY <1>2, <3>3
      <4>2. f[k + 1] \in Buffer
        BY <1>6, <4>1
      <4>3. f[k] = step[k][f[k + 1]]
        BY <3>1, <4>1
      <4> HIDE DEF S
      <4> QED
        BY <3>3, <4>2, <4>3
    <3> QED
      BY <3>2, <3>3
  <2> QED
    BY <1>6, <2>1
<1>8. packedFrom(vals) = CHOOSE g : Is(g)
  BY DEF packedFrom, N, pack
<1> DEFINE from == packedFrom(vals)
<1>9. Is(from)
  <2> HIDE DEF Is
  <2> QED
    BY <1>7, <1>8
<1>10. \A k \in S : from[k] = IF k > N THEN <<>> ELSE pack(k) \o from[k + 1]
  <2> HIDE DEF from, S
  <2> QED
    BY <1>9
<1> HIDE DEF from
<1>11. from[N + 1] = <<>> /\ \A k \in 1..N : from[k] = pack(k) \o from[k + 1]
  <2>1. N + 1 \in S /\ N + 1 > N
    BY <1>2
  <2>2. \A k \in 1..N : k \in S /\ ~(k > N)
    BY <1>2
  <2> HIDE DEF S
  <2> QED
    BY <1>10, <2>1, <2>2
<1>12. \A k \in S : from[k] \in Buffer
  <2> DEFINE T == {n \in Nat : n <= N /\ from[N + 1 - n] \notin Buffer}
  <2>1. ASSUME T # {} PROVE FALSE
    <3>1. PICK n \in T : \A m \in T : n <= m
      <4>1. T \in SUBSET Nat
        OBVIOUS
      <4> HIDE DEF T
      <4> QED
        BY <2>1, <4>1, LeastNat
    <3>2. n \in Nat /\ n <= N /\ from[N + 1 - n] \notin Buffer
      OBVIOUS
    <3>3. n # 0
      <4> SUFFICES ASSUME n = 0 PROVE FALSE
        OBVIOUS
      <4>1. N + 1 - n = N + 1
        BY <1>2
      <4> QED
        BY <1>11, <3>2, <4>1, BufferFacts
    <3>4. n - 1 \in Nat /\ n - 1 <= N /\ n - 1 < n
      BY <1>2, <3>2, <3>3
    <3>5. n - 1 \notin T
      <4> HIDE DEF T
      <4> QED
        BY <3>1, <3>2, <3>4
    <3> DEFINE k == N + 1 - n
    <3>6. k \in 1..N /\ k + 1 = N + 1 - (n - 1)
      BY <1>2, <3>2, <3>3
    <3>7. from[k + 1] \in Buffer
      BY <3>4, <3>5, <3>6
    <3> HIDE DEF k
    <3>8. from[k] \in Buffer
      BY <1>1, <1>11, <3>6, <3>7, BufferFacts
    <3> QED
      BY <3>2, <3>8 DEF k
  <2>2. ASSUME NEW k \in S PROVE from[k] \in Buffer
    <3>1. N + 1 - k \in Nat /\ N + 1 - k <= N /\ N + 1 - (N + 1 - k) = k
      BY <1>2
    <3>2. N + 1 - k \notin T
      BY <2>1
    <3> QED
      BY <3>1, <3>2
  <2> QED
    BY <2>2
<1>13. \A k \in 1..N : from[k] # <<>>
  <2> SUFFICES ASSUME NEW k \in 1..N PROVE from[k] # <<>>
    OBVIOUS
  <2>1. pack(k) \in Buffer /\ pack(k) # <<>> /\ from[k + 1] \in Buffer
    <3>1. k + 1 \in S
      BY <1>2
    <3> QED
      BY <1>1, <1>12, <3>1
  <2> DEFINE x == pack(k)
             y == from[k + 1]
  <2>2. from[k] = x \o y
    BY <1>11
  <2> HIDE DEF x, y
  <2> QED
    BY <2>1, <2>2, ConcatFacts DEF x, y
<1> QED
  BY <1>11, <1>12, <1>13 DEF from, N, pack

----------------------------------------------------------------------------
(* The cursor's steps                                                      *)

\* The values of all types, each with its type.
TypedValue == UNION {[type : {t}, val : ValuesOf[t]] : t \in DOMAIN ValuesOf}

\* What a field of a cursor may hold.
Value == UNION {ValuesOf[t] : t \in DOMAIN ValuesOf}

\* A cursor has its kind and a value for each of the fields that have been filled.
Filled ==
    /\ cursor \in [kind : DOMAIN Fields, vals : Seq(TypedValue)]
    /\ Len(cursor.vals) <= Len(Fields[cursor.kind])
    /\ \A i \in 1..Len(cursor.vals) : cursor.vals[i].type = Fields[cursor.kind][i]
    /\ stage # "fill" => Len(cursor.vals) = Len(Fields[cursor.kind])

\* What has been unpacked are the first values of the cursor, and what is left in
\* the buffer are the bytes of the others.
Left ==
    /\ Len(into) <= Len(cursor.vals)
    /\ \A i \in 1..Len(into) : into[i] = cursor.vals[i].val
    /\ buffer = packedFrom(cursor.vals)[Len(into) + 1]

\* The inductive invariant; a read fails only at the end of a cursor that ends with
\* an empty id.
CursorInv ==
    /\ Filled /\ stage \in {"fill", "unpack", "ok", "error"} /\ into \in Seq(Value)
    /\ stage = "fill" => into = <<>>
    /\ stage \in {"unpack", "ok"} => Left
    /\ stage = "ok" => Len(into) = Len(cursor.vals)
    /\ stage = "error" => EndsEmpty

\* Only position ends with a list, and the others end with an id.
LEMMA FieldsFacts ==
    ASSUME NEW k \in DOMAIN Fields
    PROVE  /\ Len(Fields[k]) \in Nat \ {0}
           /\ \A i \in 1..Len(Fields[k]) : Fields[k][i] \in DOMAIN ValuesOf
           /\ Fields[k][Len(Fields[k])] = IF k = "position" THEN "ids" ELSE "id"
<1>1. k \in {"timeID", "boolBoolIntID", "boolTimeID", "stringID", "intTimeID", "position", "boolIDFloatID"}
  BY DEF Fields
<1>2. DOMAIN ValuesOf = {"bytes", "id", "bool", "int", "uint", "ids"}
  BY DEF ValuesOf
<1>3. CASE k = "timeID"
  BY <1>2, <1>3 DEF Fields
<1>4. CASE k = "boolBoolIntID"
  BY <1>2, <1>4 DEF Fields
<1>5. CASE k = "boolTimeID"
  BY <1>2, <1>5 DEF Fields
<1>6. CASE k = "stringID"
  BY <1>2, <1>6 DEF Fields
<1>7. CASE k = "intTimeID"
  BY <1>2, <1>7 DEF Fields
<1>8. CASE k = "position"
  BY <1>2, <1>8 DEF Fields
<1>9. CASE k = "boolIDFloatID"
  BY <1>2, <1>9 DEF Fields
<1> QED
  BY <1>1, <1>3, <1>4, <1>5, <1>6, <1>7, <1>8, <1>9

\* A filled cursor's values have their types.
LEMMA FilledFacts ==
    ASSUME Filled
    PROVE  /\ Len(cursor.vals) \in Nat /\ cursor.kind \in DOMAIN Fields
           /\ \A i \in 1..Len(cursor.vals) : Typed(cursor.vals[i]) /\ cursor.vals[i].val \in Value
<1>1. cursor.kind \in DOMAIN Fields /\ cursor.vals \in Seq(TypedValue)
  BY DEF Filled
<1>2. ASSUME NEW x \in TypedValue PROVE Typed(x) /\ x.val \in Value
  <2>1. PICK t \in DOMAIN ValuesOf : x \in [type : {t}, val : ValuesOf[t]]
    BY DEF TypedValue
  <2>2. x.type = t /\ x.val \in ValuesOf[t]
    BY <2>1
  <2> QED
    BY <2>1, <2>2 DEF Typed, Value
<1>3. \A i \in 1..Len(cursor.vals) : cursor.vals[i] \in TypedValue
  BY <1>1
<1> QED
  BY <1>1, <1>2, <1>3

\* An empty cursor.
LEMMA CursorStarts ==
    ASSUME Init PROVE CursorInv
<1>1. PICK k \in DOMAIN Fields : cursor = [kind |-> k, vals |-> <<>>]
  BY DEF Init
<1>2. cursor.kind = k /\ cursor.vals = <<>> /\ Len(cursor.vals) = 0
  BY <1>1
<1>3. cursor \in [kind : DOMAIN Fields, vals : Seq(TypedValue)]
  BY <1>1
<1>4. Filled
  BY <1>2, <1>3, FieldsFacts DEF Filled, Init
<1> QED
  BY <1>4 DEF CursorInv, Init

\* One more field is filled.
LEMMA FillKeepsCursor ==
    ASSUME CursorInv, Fill PROVE CursorInv'
<1> DEFINE n == Len(cursor.vals)
           type == Fields[cursor.kind][n + 1]
<1>1. n \in Nat /\ cursor.kind \in DOMAIN Fields /\ cursor.vals \in Seq(TypedValue)
  BY FilledFacts DEF CursorInv, Filled
<1>2. n < Len(Fields[cursor.kind]) /\ stage = "fill" /\ into = <<>>
  BY DEF Fill, CursorInv
<1>3. type \in DOMAIN ValuesOf
  BY <1>1, <1>2, FieldsFacts
<1>4. PICK v \in ValuesOf[type] : cursor' = [cursor EXCEPT !.vals = Append(@, [type |-> type, val |-> v])]
  BY DEF Fill
<1> DEFINE x == [type |-> type, val |-> v]
<1>5. x \in TypedValue /\ x.type = type
  BY <1>3 DEF TypedValue
<1>6. cursor \in [kind : DOMAIN Fields, vals : Seq(TypedValue)]
  BY DEF CursorInv, Filled
<1>7. cursor'.kind = cursor.kind /\ cursor'.vals = Append(cursor.vals, x)
  BY <1>4, <1>6
<1>8. cursor' \in [kind : DOMAIN Fields, vals : Seq(TypedValue)]
  <2> HIDE DEF x
  <2>1. cursor' = [cursor EXCEPT !.vals = Append(@, x)]
    BY <1>4 DEF x
  <2>2. Append(cursor.vals, x) \in Seq(TypedValue)
    BY <1>1, <1>5
  <2> QED
    BY <1>6, <2>1, <2>2
<1> HIDE DEF x
<1>9. Len(cursor'.vals) = n + 1 /\ \A i \in 1..(n + 1) : cursor'.vals[i] = IF i = n + 1 THEN x ELSE cursor.vals[i]
  BY <1>1, <1>5, <1>7
<1>10. \A i \in 1..n : cursor.vals[i].type = Fields[cursor.kind][i]
  BY DEF CursorInv, Filled
<1> HIDE DEF n
<1>11. \A i \in 1..(n + 1) : cursor'.vals[i].type = Fields[cursor.kind][i]
  <2> SUFFICES ASSUME NEW i \in 1..(n + 1) PROVE cursor'.vals[i].type = Fields[cursor.kind][i]
    OBVIOUS
  <2>1. CASE i = n + 1
    BY <1>5, <1>9, <2>1
  <2>2. CASE i # n + 1
    BY <1>1, <1>9, <1>10, <2>2
  <2> QED
    BY <2>1, <2>2
<1>12. n + 1 <= Len(Fields[cursor.kind])
  BY <1>1, <1>2, FieldsFacts
<1>13. stage' = stage /\ into' = into
  BY DEF Fill
<1>14. Filled'
  BY <1>2, <1>7, <1>8, <1>9, <1>11, <1>12, <1>13 DEF Filled
<1> QED
  BY <1>2, <1>13, <1>14 DEF CursorInv

\* The full cursor is packed: all of its bytes are left.
LEMMA PackKeepsCursor ==
    ASSUME CursorInv, Pack PROVE CursorInv'
<1>1. /\ into = <<>> /\ Len(cursor.vals) \in Nat /\ stage' = "unpack" /\ cursor' = cursor
      /\ into' = into /\ Len(cursor.vals) = Len(Fields[cursor.kind]) /\ Filled
  BY FilledFacts DEF Pack, CursorInv
<1>2. Filled'
  BY <1>1 DEF Filled
<1>3. buffer' = packedFrom(cursor.vals)[1]
  BY DEF Pack, packVals
<1>4. Left'
  BY <1>1, <1>3 DEF Left
<1> QED
  BY <1>1, <1>2, <1>4 DEF CursorInv

\* What a step of Unpack reads is the next value and the bytes behind it.
LEMMA UnpackReads ==
    ASSUME CursorAssumption, CursorInv, Unpack
    PROVE  LET n == Len(into)
               x == cursor.vals[n + 1]
               u == unpackVal(Fields[cursor.kind][n + 1], buffer)
           IN  /\ n \in Nat /\ n + 1 \in 1..Len(cursor.vals) /\ Len(cursor.vals) = Len(Fields[cursor.kind])
               /\ Len(cursor.vals) \in Nat
               /\ Typed(x) /\ x.val \in Value /\ x.type = Fields[cursor.kind][n + 1]
               /\ u.ok => u.val = x.val /\ u.rest = packedFrom(cursor.vals)[n + 2]
               /\ ~u.ok => /\ n + 1 = Len(cursor.vals)
                           /\ \/ x.type \in {"bytes", "id"} /\ x.val = <<>>
                              \/ x.type = "ids" /\ x.val # <<>> /\ x.val[Len(x.val)] = <<>>
<1> DEFINE n == Len(into)
           vals == cursor.vals
           N == Len(vals)
           x == vals[n + 1]
           rest == packedFrom(vals)[n + 2]
           u == unpackVal(Fields[cursor.kind][n + 1], buffer)
<1>1. stage = "unpack" /\ Filled /\ Left /\ into \in Seq(Value)
  BY DEF Unpack, CursorInv
<1>2. N = Len(Fields[cursor.kind]) /\ n < Len(Fields[cursor.kind])
  BY <1>1 DEF Unpack, Filled
<1>3. n \in Nat /\ N \in Nat
  BY <1>1, FilledFacts
<1>4. n + 1 \in 1..N
  BY <1>2, <1>3
<1>5. \A k \in 1..N : Typed(vals[k]) /\ vals[k].val \in Value
  BY <1>1, FilledFacts
<1>6. x.type = Fields[cursor.kind][n + 1]
  BY <1>1, <1>4 DEF Filled
<1>7. buffer = packedFrom(vals)[n + 1]
  BY <1>1 DEF Left
<1> HIDE DEF vals
<1>8. /\ \A k \in 1..(N + 1) : packedFrom(vals)[k] \in Buffer
      /\ \A k \in 1..N : /\ packedFrom(vals)[k] = packVal(vals[k]) \o packedFrom(vals)[k + 1]
                         /\ packedFrom(vals)[k] # <<>>
  BY <1>3, <1>5, PackedFromIs
<1> HIDE DEF n, N
<1>9. /\ packedFrom(vals)[n + 1] = packVal(x) \o packedFrom(vals)[(n + 1) + 1]
      /\ (n + 1) + 1 = n + 2 /\ n + 2 \in 1..(N + 1)
  <2>1. (n + 1) + 1 = n + 2 /\ n + 2 \in 1..(N + 1)
    BY <1>3, <1>4
  <2>2. packedFrom(vals)[n + 1] = packVal(x) \o packedFrom(vals)[(n + 1) + 1]
    <3> DEFINE k == n + 1
    <3>1. k \in 1..N
      BY <1>4
    <3> HIDE DEF k
    <3>2. packedFrom(vals)[k] = packVal(vals[k]) \o packedFrom(vals)[k + 1]
      BY <1>8, <3>1
    <3> QED
      BY <3>2 DEF k
  <2> QED
    BY <2>1, <2>2
<1>10. rest \in Buffer /\ buffer = packVal(x) \o rest
  BY <1>7, <1>8, <1>9
<1>11. Typed(x) /\ x.val \in Value
  BY <1>4, <1>5
<1>12. n + 1 < N => rest # <<>>
  <2> SUFFICES ASSUME n + 1 < N PROVE n + 2 \in 1..N
    BY <1>8
  <2> QED
    BY <1>3
<1>13. u = unpackVal(x.type, packVal(x) \o rest)
  BY <1>6, <1>10
<1> HIDE DEF u, x, rest
<1>14. /\ u.ok => u.val = x.val /\ u.rest = rest
       /\ ~u.ok => /\ rest = <<>>
                   /\ \/ x.type \in {"bytes", "id"} /\ x.val = <<>>
                      \/ x.type = "ids" /\ x.val # <<>> /\ x.val[Len(x.val)] = <<>>
  BY <1>10, <1>11, <1>13, ValueComesBack
<1>15. ~u.ok => n + 1 = N
  BY <1>3, <1>4, <1>12, <1>14
<1> QED
  BY <1>2, <1>3, <1>4, <1>6, <1>11, <1>14, <1>15 DEF u, x, rest, n, N, vals

\* One value is read.
LEMMA UnpackKeepsCursor ==
    ASSUME CursorAssumption, CursorInv, Unpack PROVE CursorInv'
<1> DEFINE n == Len(into)
           N == Len(cursor.vals)
           x == cursor.vals[n + 1]
           u == unpackVal(Fields[cursor.kind][n + 1], buffer)
<1>1. /\ n \in Nat /\ n + 1 \in 1..N /\ N = Len(Fields[cursor.kind]) /\ N \in Nat
      /\ Typed(x) /\ x.val \in Value /\ x.type = Fields[cursor.kind][n + 1]
      /\ u.ok => u.val = x.val /\ u.rest = packedFrom(cursor.vals)[n + 2]
      /\ ~u.ok => /\ n + 1 = N
                  /\ \/ x.type \in {"bytes", "id"} /\ x.val = <<>>
                     \/ x.type = "ids" /\ x.val # <<>> /\ x.val[Len(x.val)] = <<>>
  BY UnpackReads
<1>2. stage = "unpack" /\ Filled /\ Left /\ into \in Seq(Value) /\ cursor' = cursor
  BY DEF Unpack, CursorInv
<1>3. IF u.ok THEN into' = Append(into, u.val) /\ buffer' = u.rest /\ stage' = stage
      ELSE stage' = "error" /\ into' = into /\ buffer' = buffer
  BY DEF Unpack
<1>4. Filled'
  BY <1>1, <1>2 DEF Filled
<1>5. CASE u.ok
  <2> DEFINE v == u.val
             y == cursor.vals[n + 1].val
  <2>1. v = y /\ y \in Value
    BY <1>1, <1>5
  <2>2. into' = Append(into, v) /\ buffer' = packedFrom(cursor.vals)[n + 2] /\ stage' = "unpack"
    BY <1>1, <1>2, <1>3, <1>5
  <2> HIDE DEF v
  <2>3. into' \in Seq(Value) /\ Len(into') = n + 1 /\ into'[n + 1] = v /\ \A i \in 1..n : into'[i] = into[i]
    BY <1>2, <2>1, <2>2
  <2>4. \A i \in 1..n : into[i] = cursor.vals[i].val
    BY <1>2 DEF Left
  <2> HIDE DEF n
  <2>5. \A i \in 1..(n + 1) : into'[i] = cursor.vals[i].val
    <3> SUFFICES ASSUME NEW i \in 1..(n + 1) PROVE into'[i] = cursor.vals[i].val
      OBVIOUS
    <3>1. CASE i = n + 1
      BY <2>1, <2>3, <3>1
    <3>2. CASE i # n + 1
      BY <1>1, <2>3, <2>4, <3>2
    <3> QED
      BY <3>1, <3>2
  <2>6. n + 1 <= N /\ (n + 1) + 1 = n + 2
    BY <1>1
  <2>7. Left'
    BY <1>2, <2>2, <2>3, <2>5, <2>6 DEF Left
  <2> QED
    BY <1>4, <2>2, <2>3, <2>7 DEF CursorInv
<1>6. CASE ~u.ok
  <2>1. stage' = "error" /\ into' = into
    BY <1>3, <1>6
  <2>2. x.type = IF cursor.kind = "position" THEN "ids" ELSE "id"
    <3>1. cursor.kind \in DOMAIN Fields
      BY <1>2, FilledFacts
    <3> QED
      BY <1>1, <1>6, <3>1, FieldsFacts
  <2>3. Last(cursor.vals) = x
    BY <1>1, <1>6 DEF Last
  <2>4. EndsEmpty
    <3>1. CASE cursor.kind = "position"
      BY <1>1, <1>6, <2>2, <2>3, <3>1 DEF EndsEmpty, Last
    <3>2. CASE cursor.kind # "position"
      BY <1>1, <1>6, <2>2, <2>3, <3>2 DEF EndsEmpty
    <3> QED
      BY <3>1, <3>2
  <2>5. EndsEmpty'
    BY <1>2, <2>4 DEF EndsEmpty
  <2> QED
    BY <1>2, <1>4, <2>1, <2>5 DEF CursorInv
<1> QED
  BY <1>5, <1>6

\* All fields have been read.
LEMMA UnpackedKeepsCursor ==
    ASSUME CursorInv, Unpacked PROVE CursorInv'
<1>1. /\ stage = "unpack" /\ Filled /\ Left /\ into \in Seq(Value) /\ stage' = "ok"
      /\ cursor' = cursor /\ buffer' = buffer /\ into' = into /\ Len(into) = Len(Fields[cursor.kind])
  BY DEF Unpacked, CursorInv
<1>2. Filled' /\ Left' /\ Len(cursor.vals) = Len(Fields[cursor.kind])
  BY <1>1 DEF Filled, Left
<1> QED
  BY <1>1, <1>2 DEF CursorInv

\* Every step.
LEMMA CursorSteps ==
    ASSUME CursorAssumption, CursorInv, [Next]_vars PROVE CursorInv'
<1>1. CASE UNCHANGED vars
  <2>1. cursor' = cursor /\ buffer' = buffer /\ stage' = stage /\ into' = into
    BY <1>1 DEF vars
  <2>2. Filled' /\ (Left' <=> Left) /\ (EndsEmpty' <=> EndsEmpty)
    BY <2>1 DEF Filled, Left, EndsEmpty, CursorInv
  <2> QED
    BY <2>1, <2>2 DEF CursorInv
<1> QED
  BY <1>1, FillKeepsCursor, PackKeepsCursor, UnpackKeepsCursor, UnpackedKeepsCursor DEF Next

\* What the invariant says of a cursor that has been unpacked.
LEMMA CursorInvRoundTrip ==
    ASSUME CursorAssumption, CursorInv PROVE RoundTrip
<1>1. stage \in {"unpack", "ok"} => \A i \in DOMAIN into : into[i] = cursor.vals[i].val
  <2>1. DOMAIN into = 1..Len(into)
    BY DEF CursorInv
  <2> QED
    BY <2>1 DEF CursorInv, Left
<1>2. ASSUME stage = "ok" PROVE buffer = <<>>
  <2>1. Filled /\ buffer = packedFrom(cursor.vals)[Len(cursor.vals) + 1]
    BY <1>2 DEF CursorInv, Left
  <2>2. Len(cursor.vals) \in Nat /\ \A k \in 1..Len(cursor.vals) : Typed(cursor.vals[k])
    BY <2>1, FilledFacts
  <2> QED
    BY <2>1, <2>2, PackedFromIs
<1> QED
  BY <1>1, <1>2 DEF RoundTrip, CursorInv

\* A cursor of every kind comes back as it was packed, whatever its strings, numbers
\* and lists, and whatever the base of the varints.
THEOREM CursorRoundTrips == CursorAssumption /\ Spec => []RoundTrip
<1>1. CursorAssumption /\ Spec => []CursorInv
  <2> SUFFICES ASSUME CursorAssumption PROVE Spec => []CursorInv
    OBVIOUS
  <2>1. Init => CursorInv
    BY CursorStarts
  <2>2. CursorInv /\ [Next]_vars => CursorInv'
    BY CursorSteps
  <2> QED
    BY <2>1, <2>2, PTL DEF Spec
<1>2. CursorAssumption /\ CursorInv => RoundTrip
  BY CursorInvRoundTrip
<1> SUFFICES ASSUME CursorAssumption PROVE Spec => []RoundTrip
  OBVIOUS
<1>3. CursorInv => RoundTrip
  BY <1>2
<1> QED
  BY <1>1, <1>3, PTL
=============================================================================
