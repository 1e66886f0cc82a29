----------------------------- MODULE ApiProofs -----------------------------
(***************************************************************************)
(* Proofs about what a GraphQL request reads: pages of a list (PageWalk,   *)
(* PageRequest, SharedPage), the cursors between them (Cursor, whose       *)
(* proofs are in CursorProofs), the rows that the keys of a page let       *)
(* through (KeysetWindow), the loaders that prime each other's caches      *)
(* (Dataloaders), the PublicAPIs of a request's mutations                  *)
(* (MutationCaching), and the data of a URI (UriReader).                   *)
(*                                                                         *)
(* MCApi, which the run checks, makes each model an instance of its own;   *)
(* none refers to the variables of another.                                *)
(***************************************************************************)
EXTENDS MCApi, FiniteSetTheorems, TLAPS

----------------------------------------------------------------------------
(* Pages                                                                   *)

\* The place of a row among the rows of R.
Rank(R, r) == Cardinality({s \in R : s < r})

\* Ranks are in the order of the rows.
LEMMA RankOrder ==
    ASSUME NEW R \in SUBSET Nat, IsFiniteSet(R)
    PROVE  /\ Cardinality(R) \in Nat
           /\ \A r \in R : Rank(R, r) \in 0..(Cardinality(R) - 1)
           /\ \A r, s \in R : r < s => Rank(R, r) < Rank(R, s)
<1>1. Cardinality(R) \in Nat
  BY FS_CardinalityType
<1>2. ASSUME NEW r \in R PROVE Rank(R, r) \in 0..(Cardinality(R) - 1)
  <2> DEFINE B == {s \in R : s < r}
  <2>1. B \in SUBSET R /\ B # R
    <3>1. r \notin B
      OBVIOUS
    <3> QED
      BY <3>1
  <2>2. IsFiniteSet(B) /\ Cardinality(B) <= Cardinality(R) /\ Cardinality(R) # Cardinality(B)
    <3> HIDE DEF B
    <3> QED
      BY <2>1, FS_Subset
  <2>3. Cardinality(B) \in Nat
    <3> HIDE DEF B
    <3> QED
      BY <2>2, FS_CardinalityType
  <2>4. Rank(R, r) = Cardinality(B)
    BY DEF Rank
  <2> HIDE DEF B
  <2> QED
    BY <1>1, <2>2, <2>3, <2>4
<1>3. ASSUME NEW r \in R, NEW s \in R, r < s PROVE Rank(R, r) < Rank(R, s)
  <2> DEFINE B == {x \in R : x < r}
             C == {x \in R : x < s}
  <2>1. B \in SUBSET C /\ C \in SUBSET R /\ B # C
    <3>1. r \notin B /\ r \in C
      BY <1>3
    <3>2. \A x \in R : x < r => x < s
      <4>1. \A x \in R : x \in Nat
        OBVIOUS
      <4> QED
        BY <1>3, <4>1
    <3>3. B \in SUBSET C /\ C \in SUBSET R
      BY <3>2, Zenon
    <3> QED
      BY <3>1, <3>3
  <2>2. Rank(R, r) = Cardinality(B) /\ Rank(R, s) = Cardinality(C)
    BY DEF Rank
  <2> HIDE DEF B, C
  <2>3. IsFiniteSet(C)
    BY <2>1, FS_Subset
  <2>4. IsFiniteSet(B) /\ Cardinality(B) <= Cardinality(C) /\ Cardinality(C) # Cardinality(B)
    BY <2>1, <2>3, FS_Subset
  <2>5. Cardinality(B) \in Nat /\ Cardinality(C) \in Nat
    BY <2>3, <2>4, FS_CardinalityType
  <2> QED
    BY <2>2, <2>4, <2>5
<1> QED
  BY <1>1, <1>2, <1>3

\* Every rank is the rank of a row: there are as many ranks as rows, and no two
\* rows share one.
LEMMA EveryRank ==
    ASSUME NEW R \in SUBSET Nat, IsFiniteSet(R), NEW i \in 0..(Cardinality(R) - 1)
    PROVE  \E r \in R : Rank(R, r) = i
<1> DEFINE n == Cardinality(R)
           T == 0..(n - 1)
           f == [r \in R |-> Rank(R, r)]
<1>1. n \in Nat
  BY RankOrder
<1>2. f \in [R -> T]
  BY RankOrder
<1>3. \A r, s \in R : f[r] = f[s] => r = s
  <2> SUFFICES ASSUME NEW r \in R, NEW s \in R, f[r] = f[s] PROVE r = s
    OBVIOUS
  <2>1. Rank(R, r) = Rank(R, s) /\ Rank(R, r) \in Int
    BY RankOrder
  <2>2. ~(r < s) /\ ~(s < r)
    BY <2>1, RankOrder
  <2> QED
    BY <2>2
<1>4. IsFiniteSet(T) /\ Cardinality(T) = n
  <2> HIDE DEF n
  <2> QED
    BY <1>1, FS_Interval
<1> HIDE DEF f, T, n
<1>5. f \in Injection(R, T)
  BY <1>2, <1>3 DEF Injection, IsInjective
<1>6. f \in Surjection(R, T)
  BY <1>4, <1>5, FS_Injection DEF n
<1>7. \E r \in R : f[r] = i
  BY <1>6 DEF Surjection, T, n
<1> QED
  BY <1>7 DEF f

\* Ascending(R) is a function of the places.
LEMMA AscendingShape ==
    ASSUME NEW R
    PROVE  Ascending(R) = [i \in 1..Cardinality(R) |-> Ascending(R)[i]]
<1> DEFINE Placed(i) == CHOOSE r \in R : Cardinality({s \in R : s < r}) = i - 1
<1>1. Ascending(R) = [i \in 1..Cardinality(R) |-> Placed(i)]
  BY DEF Ascending
<1> HIDE DEF Placed
<1> QED
  BY <1>1

\* a lists the n rows of B in ascending order.
Lists(a, n, B) ==
    /\ B \in SUBSET Nat /\ n \in Nat /\ a \in [1..n -> B]
    /\ \A i, j \in 1..n : i < j => a[i] < a[j]
    /\ \A b \in B : \E i \in 1..n : a[i] = b

\* Ascending(R) is the rows of R in ascending order.
LEMMA AscendingFacts ==
    ASSUME NEW R \in SUBSET Nat, IsFiniteSet(R)
    PROVE  /\ Lists(Ascending(R), Cardinality(R), R)
           /\ Ascending(R) \in Seq(R) /\ Len(Ascending(R)) = Cardinality(R)
<1> PICK a, n : a = Ascending(R) /\ n = Cardinality(R)
  OBVIOUS
<1>1. n \in Nat
  BY RankOrder
<1>2. ASSUME NEW i \in 1..n PROVE a[i] \in R /\ Rank(R, a[i]) = i - 1
  <2>1. i - 1 \in 0..(Cardinality(R) - 1)
    BY <1>1
  <2>2. \E r \in R : Rank(R, r) = i - 1
    BY <2>1, EveryRank
  <2>3. a[i] = CHOOSE r \in R : Rank(R, r) = i - 1
    BY DEF Ascending, Rank
  <2> QED
    BY <2>2, <2>3
<1>3. a \in [1..n -> R]
  <2>1. a = [i \in 1..n |-> a[i]]
    BY AscendingShape
  <2> QED
    BY <1>2, <2>1
<1>4. a \in Seq(R) /\ Len(a) = n
  BY <1>1, <1>3
<1>5. ASSUME NEW i \in 1..n, NEW j \in 1..n, i < j PROVE a[i] < a[j]
  <2>1. a[i] \in R /\ a[j] \in R /\ Rank(R, a[i]) < Rank(R, a[j])
    BY <1>1, <1>2, <1>5
  <2>2. ~(a[j] < a[i]) /\ a[i] # a[j]
    <3>1. Rank(R, a[i]) = i - 1 /\ Rank(R, a[j]) = j - 1
      BY <1>2
    <3>2. a[j] < a[i] => Rank(R, a[j]) < Rank(R, a[i])
      <4> PICK x \in R, y \in R : x = a[j] /\ y = a[i]
        BY <2>1
      <4> QED
        BY RankOrder
    <3> QED
      BY <1>1, <1>5, <3>1, <3>2
  <2>3. a[i] \in Nat /\ a[j] \in Nat
    BY <2>1
  <2> QED
    BY <2>2, <2>3
<1>6. ASSUME NEW r \in R PROVE \E i \in 1..n : a[i] = r
  <2>1. Rank(R, r) \in 0..(n - 1)
    BY RankOrder
  <2>2. PICK i \in 1..n : i - 1 = Rank(R, r)
    <3>1. Rank(R, r) + 1 \in 1..n /\ (Rank(R, r) + 1) - 1 = Rank(R, r)
      BY <1>1, <2>1
    <3> QED
      BY <3>1
  <2>3. a[i] \in R /\ Rank(R, a[i]) = Rank(R, r)
    BY <1>2, <2>2
  <2>4. ~(a[i] < r) /\ ~(r < a[i])
    <3>1. Rank(R, r) \in Int
      BY <1>1, <2>1
    <3>2. /\ a[i] < r => Rank(R, a[i]) < Rank(R, r)
          /\ r < a[i] => Rank(R, r) < Rank(R, a[i])
      BY <2>3, RankOrder
    <3> QED
      BY <2>3, <3>1, <3>2
  <2>5. a[i] \in Nat /\ r \in Nat
    BY <2>3
  <2>6. a[i] = r
    BY <2>4, <2>5
  <2> QED
    BY <2>6
<1> QED
  BY <1>1, <1>3, <1>4, <1>5, <1>6 DEF Lists

\* A sequence in ascending order is Ascending of its elements.
LEMMA AscendingUnique ==
    ASSUME NEW n \in Nat, NEW e \in [1..n -> Nat], \A i, j \in 1..n : i < j => e[i] < e[j]
    PROVE  e = Ascending(Range(e))
<1> PICK R : R = Range(e)
  OBVIOUS
<1>1. R \in SUBSET Nat /\ \A i \in 1..n : e[i] \in R
  BY DEF Range
<1>2. \A r \in R : \E i \in 1..n : r = e[i]
  BY DEF Range
<1>3. \A i, j \in 1..n : e[i] = e[j] => i = j
  <2> SUFFICES ASSUME NEW i \in 1..n, NEW j \in 1..n, e[i] = e[j] PROVE i = j
    OBVIOUS
  <2>1. e[i] \in Nat /\ e[j] \in Nat /\ (i < j => e[i] < e[j]) /\ (j < i => e[j] < e[i])
    OBVIOUS
  <2> QED
    BY <2>1
<1>4. \A i, j \in 1..n : e[i] < e[j] => i < j
  <2> SUFFICES ASSUME NEW i \in 1..n, NEW j \in 1..n, e[i] < e[j] PROVE i < j
    OBVIOUS
  <2>1. e[i] \in Nat /\ e[j] \in Nat /\ (j < i => e[j] < e[i])
    OBVIOUS
  <2> QED
    BY <2>1
<1>5. ASSUME NEW k \in 0..n, NEW S, S = {e[i] : i \in 1..k}
      PROVE  IsFiniteSet(S) /\ Cardinality(S) = k
  <2>1. [i \in 1..k |-> e[i]] \in Bijection(1..k, S)
    <3> PICK g : g = [i \in 1..k |-> e[i]]
      OBVIOUS
    <3>1. g \in [1..k -> S] /\ \A s \in S : \E i \in 1..k : g[i] = s
      BY <1>5
    <3>2. \A i, j \in 1..k : g[i] = g[j] => i = j
      BY <1>3
    <3>3. g \in Injection(1..k, S) /\ g \in Surjection(1..k, S)
      BY <3>1, <3>2 DEF Injection, IsInjective, Surjection
    <3> QED
      BY <3>3 DEF Bijection
  <2>2. ExistsBijection(1..k, S)
    BY <2>1 DEF ExistsBijection
  <2>3. IsFiniteSet(1..k) /\ Cardinality(1..k) = k
    BY FS_Interval
  <2> QED
    BY <2>2, <2>3, FS_Bijection
<1>6. IsFiniteSet(R) /\ Cardinality(R) = n
  <2>1. R = {e[i] : i \in 1..n}
    BY DEF Range
  <2> QED
    BY <1>5, <2>1
<1>7. ASSUME NEW i \in 1..n PROVE Rank(R, e[i]) = i - 1
  <2>1. {s \in R : s < e[i]} = {e[j] : j \in 1..(i - 1)}
    <3>1. ASSUME NEW s \in R, s < e[i] PROVE s \in {e[j] : j \in 1..(i - 1)}
      <4>1. PICK j \in 1..n : s = e[j]
        BY <1>2
      <4>2. j < i
        BY <1>4, <3>1, <4>1
      <4> QED
        BY <4>1, <4>2
    <3>2. ASSUME NEW j \in 1..(i - 1) PROVE e[j] \in R /\ e[j] < e[i]
      BY <1>1
    <3> QED
      BY <3>1, <3>2
  <2>2. i - 1 \in 0..n
    OBVIOUS
  <2>3. Cardinality({e[j] : j \in 1..(i - 1)}) = i - 1
    BY <1>5, <2>2
  <2> QED
    BY <2>1, <2>3 DEF Rank
<1>8. ASSUME NEW i \in 1..n PROVE Ascending(R)[i] = e[i]
  <2>1. \A r \in R : Rank(R, r) = i - 1 => r = e[i]
    <3> SUFFICES ASSUME NEW r \in R, Rank(R, r) = i - 1 PROVE r = e[i]
      OBVIOUS
    <3>1. PICK j \in 1..n : r = e[j]
      BY <1>2
    <3>2. j - 1 = i - 1
      BY <1>7, <3>1
    <3> QED
      BY <3>1, <3>2
  <2>2. Ascending(R)[i] = CHOOSE r \in R : Rank(R, r) = i - 1
    BY <1>6 DEF Ascending, Rank
  <2>3. e[i] \in R /\ Rank(R, e[i]) = i - 1
    BY <1>1, <1>7
  <2> QED
    BY <2>1, <2>2, <2>3
<1>9. Ascending(R) = [i \in 1..n |-> Ascending(R)[i]]
  BY <1>6, AscendingShape
<1> QED
  BY <1>8, <1>9

----------------------------------------------------------------------------
\* A remainder that changes nothing.
LEMMA NoWrap ==
    ASSUME NEW x \in Nat, NEW y \in Nat, x < y
    PROVE  x % y = x
  OBVIOUS

\* The query asks for one more row than the client.
LEMMA OneMore ==
    ASSUME PaginationAssumption, SizesFit, NEW p \in Params
    PROVE  Size(p) \in Nat /\ limit(p) = Size(p) + 1
<1>1. Size(p) \in Sizes
  BY DEF Params, Size, Optional
<1>2. Size(p) \in Nat /\ HalfRange \in Nat /\ Size(p) + 1 < HalfRange
  BY <1>1 DEF PaginationAssumption, SizesFit
<1> PICK x : x = Size(p)
  OBVIOUS
<1>3. (1 + x) + HalfRange \in Nat /\ 2 * HalfRange \in Nat /\ (1 + x) + HalfRange < 2 * HalfRange
  BY <1>2
<1>4. ((1 + x) + HalfRange) % (2 * HalfRange) = (1 + x) + HalfRange
  BY <1>3, NoWrap
<1> QED
  BY <1>2, <1>4 DEF limit, Int32

\* The first count rows,
LEMMA TakeFacts ==
    ASSUME NEW S, NEW q \in Seq(S), NEW count \in Nat, NEW k, k = IF count < Len(q) THEN count ELSE Len(q)
    PROVE  /\ k \in Nat /\ k <= Len(q)
           /\ Take(q, count) \in Seq(S) /\ Len(Take(q, count)) = k
           /\ \A i \in 1..k : Take(q, count)[i] = q[i]
<1>1. k \in Nat /\ k <= Len(q) /\ Take(q, count) = SubSeq(q, 1, k)
  BY DEF Take
<1>2. SubSeq(q, 1, k) \in Seq(S) /\ Len(SubSeq(q, 1, k)) = k
  BY <1>1
<1>3. \A i \in 1..k : SubSeq(q, 1, k)[i] = q[i]
  BY <1>1
<1> QED
  BY <1>1, <1>2, <1>3

\* and rows that are turned round.
LEMMA ReverseFacts ==
    ASSUME NEW S, NEW q \in Seq(S)
    PROVE  /\ Reverse(q) \in Seq(S) /\ Len(Reverse(q)) = Len(q)
           /\ \A i \in 1..Len(q) : Reverse(q)[i] = q[Len(q) - i + 1]
<1> PICK n : n = Len(q)
  OBVIOUS
<1>1. n \in Nat /\ \A i \in 1..n : q[(n - i) + 1] \in S
  OBVIOUS
<1>2. Reverse(q) \in [1..n -> S]
  BY <1>1 DEF Reverse
<1>3. Reverse(q) \in Seq(S) /\ Len(Reverse(q)) = n
  BY <1>1, <1>2
<1> QED
  BY <1>3 DEF Reverse

\* A cursor that no row has is not found,
LEMMA NotFound ==
    ASSUME NEW S, NEW q \in Seq(S), NEW c, c \notin S
    PROVE  IndexIn(q, c) = 0
<1>1. {i \in 1..Len(q) : q[i] = c} = {}
  OBVIOUS
<1> QED
  BY <1>1 DEF IndexIn, SelectInSeq

\* and cuts nothing.
LEMMA NoCut ==
    ASSUME NEW S, NEW q \in Seq(S), NEW p, p.after # Nil => p.after \notin S,
           p.before # Nil => p.before \notin S
    PROVE  applyCursors(q, p) = q
<1>1. /\ p.after # Nil => IndexIn(q, p.after) = 0
      /\ p.before # Nil => IndexIn(q, p.before) = 0
  BY NotFound
<1> QED
  BY <1>1 DEF applyCursors

\* The place in Ascending(B) at which a page of k of the n rows begins.
Skipped(p, n, k) == IF p.first # Nil THEN 0 ELSE n - k

\* What pageFrom makes of the rows of a query, in Relay's order, when there are n
\* rows between the cursors, a in ascending order.
LEMMA PageFromQuery ==
    ASSUME PaginationAssumption, SizesFit, NEW p \in Params, NEW R \in SUBSET Nat, IsFiniteSet(R),
           NEW B, B = Between(R, p), NEW a, a = Ascending(B), NEW n, n = Cardinality(B),
           NEW k, k = (IF Size(p) < n THEN Size(p) ELSE n),
           NEW page, page = pageFrom(Relay(QueryFunc(R, p), p), p)
    PROVE  /\ n \in Nat /\ k \in 0..n
           /\ page.edges \in [1..k -> B] /\ page.edges \in Seq(B) /\ Len(page.edges) = k
           /\ \A i \in 1..k : page.edges[i] = a[Skipped(p, n, k) + i]
           /\ (page.info.hasNextPage \/ page.info.hasPreviousPage) <=> k # n
           /\ page.info.endCursor = IF k = 0 THEN Nil ELSE page.edges[k]
           /\ page.info.startCursor = IF k = 0 THEN Nil ELSE page.edges[1]
<1>1. B \in SUBSET Nat /\ B \in SUBSET R /\ IsFiniteSet(B)
  <2>1. B \in SUBSET R
    BY DEF Between
  <2> QED
    BY <2>1, FS_Subset
<1>2. /\ n \in Nat /\ a \in [1..n -> B] /\ a \in Seq(B) /\ Len(a) = n
  BY <1>1, AscendingFacts DEF Lists
<1>3. Size(p) \in Nat /\ limit(p) = Size(p) + 1
  BY OneMore
<1>4. k \in 0..n
  BY <1>2, <1>3
<1> PICK l : l = IF Size(p) + 1 < n THEN Size(p) + 1 ELSE n
  OBVIOUS
<1>5. l \in 0..n /\ (l > Size(p) <=> k # n) /\ (l > Size(p) => l = k + 1 /\ k = Size(p)) /\ (~(l > Size(p)) => l = k)
  BY <1>2, <1>3
\* The rows of the query, in Relay's order.
<1> PICK q : q = Relay(QueryFunc(R, p), p)
  OBVIOUS
<1>6. q \in Seq(B) /\ Len(q) = l /\ \A i \in 1..l : q[i] = a[Skipped(p, n, l) + i]
  <2>1. CASE p.first # Nil
    <3>1. q = Take(a, Size(p) + 1)
      BY <1>3, <2>1 DEF Relay, QueryFunc
    <3> QED
      BY <1>2, <1>3, <2>1, <3>1, TakeFacts DEF Skipped
  <2>2. CASE p.first = Nil
    <3> PICK d : d = Reverse(a)
      OBVIOUS
    <3>1. d \in Seq(B) /\ Len(d) = n /\ \A i \in 1..n : d[i] = a[n - i + 1]
      BY <1>2, ReverseFacts
    <3> PICK t : t = Take(d, Size(p) + 1)
      OBVIOUS
    <3>2. t \in Seq(B) /\ Len(t) = l /\ \A i \in 1..l : t[i] = d[i]
      BY <1>3, <3>1, TakeFacts
    <3>3. q = Reverse(t)
      BY <1>3, <2>2 DEF Relay, QueryFunc, Descending
    <3>4. q \in Seq(B) /\ Len(q) = l /\ \A i \in 1..l : q[i] = t[l - i + 1]
      BY <3>2, <3>3, ReverseFacts
    <3>5. ASSUME NEW i \in 1..l PROVE q[i] = a[(n - l) + i]
      <4>1. l - i + 1 \in 1..l /\ l - i + 1 \in 1..n /\ n - (l - i + 1) + 1 = (n - l) + i
        BY <1>2, <1>5
      <4>2. q[i] = t[l - i + 1]
        BY <3>4
      <4>3. t[l - i + 1] = d[l - i + 1]
        BY <3>2, <4>1
      <4>4. d[l - i + 1] = a[n - (l - i + 1) + 1]
        BY <3>1, <4>1
      <4> QED
        BY <4>1, <4>2, <4>3, <4>4
    <3> QED
      BY <2>2, <3>4, <3>5 DEF Skipped
  <2> QED
    BY <2>1, <2>2
<1>7. applyCursors(q, p) = q
  <2>1. /\ p.after # Nil => p.after \notin B
        /\ p.before # Nil => p.before \notin B
    BY <1>1 DEF Between
  <2> QED
    BY <1>6, <2>1, NoCut
<1> PICK e : e = pageEdgesFrom(q, p)
  OBVIOUS
<1>8. (p.first # Nil => p.first = Size(p) /\ p.last = Nil) /\ (p.first = Nil => p.last = Size(p) /\ p.last # Nil)
  BY DEF Params, Size
<1>9. /\ page.edges = e
      /\ (page.info.hasNextPage \/ page.info.hasPreviousPage) <=> Len(q) > Size(p)
      /\ page.info.endCursor = IF e = <<>> THEN Nil ELSE Last(e)
      /\ page.info.startCursor = IF e = <<>> THEN Nil ELSE Head(e)
  BY <1>7, <1>8 DEF pageFrom, pageInfoFrom
<1>10. e \in Seq(B) /\ Len(e) = k /\ \A i \in 1..k : e[i] = a[Skipped(p, n, k) + i]
  <2>1. CASE Len(q) > Size(p) /\ p.first # Nil
    <3>1. e = SubSeq(q, 1, k)
      BY <1>5, <1>6, <1>8, <2>1 DEF pageEdgesFrom
    <3> QED
      BY <1>2, <1>3, <1>4, <1>5, <1>6, <2>1, <3>1 DEF Skipped
  <2>2. CASE Len(q) > Size(p) /\ p.first = Nil
    <3>1. e = SubSeq(q, 2, l) /\ l = k + 1 /\ k \in Nat
      <4>1. l = k + 1 /\ k = Size(p) /\ k \in Nat
        BY <1>3, <1>5, <1>6, <2>2
      <4>2. e = SubSeq(q, Len(q) - Size(p) + 1, Len(q))
        BY <1>8, <2>2 DEF pageEdgesFrom
      <4>3. l - k + 1 = 2
        BY <4>1
      <4> QED
        BY <1>6, <4>1, <4>2, <4>3
    <3>2. e \in Seq(B) /\ Len(e) = k /\ \A i \in 1..k : e[i] = q[i + 1]
      BY <1>6, <3>1
    <3>3. ASSUME NEW i \in 1..k PROVE e[i] = a[(n - k) + i]
      <4>1. i + 1 \in 1..l /\ (n - l) + (i + 1) = (n - k) + i
        BY <1>2, <3>1
      <4> QED
        BY <1>6, <2>2, <3>2, <4>1 DEF Skipped
    <3> QED
      BY <2>2, <3>2, <3>3 DEF Skipped
  <2>3. CASE ~(Len(q) > Size(p))
    <3>1. e = q
      BY <1>8, <2>3 DEF pageEdgesFrom
    <3> QED
      BY <1>5, <1>6, <2>3, <3>1
  <2> QED
    BY <2>1, <2>2, <2>3
<1>11. e \in [1..k -> B] /\ (e = <<>> <=> k = 0) /\ (k # 0 => Last(e) = e[k] /\ Head(e) = e[1])
  BY <1>4, <1>10 DEF Last
<1> QED
  BY <1>2, <1>4, <1>5, <1>6, <1>9, <1>10, <1>11

\* e is a part of the list a of n rows, the k rows after the first h.
IsPart(e, k, h, a, n, B) ==
    /\ h \in Nat /\ k \in Nat /\ h + k <= n
    /\ e \in [1..k -> B] /\ \A i \in 1..k : e[i] = a[h + i]

\* What there is to know of a part: it is in order and, if it is the first, the other
\* rows come after it; if it is the last, before it.
LEMMA PartOfRows ==
    ASSUME NEW B, NEW n, NEW a, NEW h, NEW k, NEW e, Lists(a, n, B), IsPart(e, k, h, a, n, B)
    PROVE  /\ \A i, j \in 1..k : i < j => e[i] < e[j]
           /\ \A b \in B \ Range(e), i \in 1..k : (h = 0 => e[i] < b) /\ (h + k = n => b < e[i])
           /\ Range(e) # B <=> k # n
<1> USE DEF Lists, IsPart
<1>1. \A i \in 1..k : h + i \in 1..n
  OBVIOUS
<1>2. ASSUME NEW i \in 1..k, NEW j \in 1..k, i < j PROVE e[i] < e[j]
  <2>1. h + i \in 1..n /\ h + j \in 1..n /\ h + i < h + j
    BY <1>1, <1>2
  <2> QED
    BY <2>1
<1>3. Range(e) \subseteq B /\ \A i \in 1..k : e[i] \in Range(e)
  BY DEF Range
\* The place of a row that is not in the part.
<1>4. ASSUME NEW j \in 1..n, a[j] \notin Range(e) PROVE j <= h \/ h + k < j
  <2> SUFFICES ASSUME ~(j <= h \/ h + k < j) PROVE FALSE
    OBVIOUS
  <2>1. j - h \in 1..k /\ h + (j - h) = j
    OBVIOUS
  <2>2. e[j - h] = a[j]
    BY <2>1
  <2> QED
    BY <1>3, <1>4, <2>1, <2>2
<1>5. ASSUME NEW b \in B \ Range(e), NEW i \in 1..k
      PROVE  (h = 0 => e[i] < b) /\ (h + k = n => b < e[i])
  <2>1. PICK j \in 1..n : a[j] = b
    OBVIOUS
  <2>2. j <= h \/ h + k < j
    BY <1>4, <2>1
  <2>3. h + i \in 1..n /\ e[i] = a[h + i]
    BY <1>1
  <2>4. h = 0 => h + i < j
    BY <2>2
  <2>5. h + k = n => j < h + i
    BY <2>2
  <2> QED
    BY <2>1, <2>3, <2>4, <2>5
<1>6. ASSUME k = n PROVE Range(e) = B
  <2>1. h = 0
    BY <1>6
  <2>2. ASSUME NEW b \in B PROVE b \in Range(e)
    <3>1. PICK j \in 1..n : a[j] = b
      OBVIOUS
    <3>2. e[j] = b
      BY <1>6, <2>1, <3>1
    <3> QED
      BY <1>3, <1>6, <3>2
  <2> QED
    BY <1>3, <2>2
<1>7. ASSUME k # n PROVE Range(e) # B
  <2> DEFINE x == IF h = 0 THEN n ELSE 1
  <2>1. x \in 1..n /\ a[x] \in B
    BY <1>7
  <2>2. ASSUME NEW i \in 1..k PROVE e[i] # a[x]
    <3>1. h + i \in 1..n /\ h + i # x
      BY <1>7
    <3>2. a[h + i] # a[x]
      <4> HIDE DEF x
      <4>1. a[h + i] \in Nat /\ a[x] \in Nat /\ (h + i < x => a[h + i] < a[x]) /\ (x < h + i => a[x] < a[h + i])
        BY <2>1, <3>1
      <4>2. h + i < x \/ x < h + i
        BY <2>1, <3>1
      <4> QED
        BY <4>1, <4>2
    <3> QED
      BY <3>2
  <2>3. a[x] \notin Range(e)
    BY <2>2 DEF Range
  <2> QED
    BY <2>1, <2>3
<1> QED
  BY <1>2, <1>5, <1>6, <1>7

\* The page of a request, k rows in ascending order: the first (or last) rows B
\* between the cursors, and word of whether there are others.
IsPageOf(page, k, B, p) ==
    /\ page.edges \in [1..k -> B] /\ page.edges \in Seq(B) /\ Len(page.edges) = k
    /\ \A i, j \in 1..k : i < j => page.edges[i] < page.edges[j]
    /\ (page.info.hasNextPage \/ page.info.hasPreviousPage) <=> Range(page.edges) # B
    /\ k <= Size(p) /\ (Range(page.edges) # B => k = Size(p))
    /\ \A b \in B \ Range(page.edges), i \in 1..k :
          IF p.first # Nil THEN page.edges[i] < b ELSE b < page.edges[i]
    /\ page.info.endCursor = IF k = 0 THEN Nil ELSE page.edges[k]
    /\ page.info.startCursor = IF k = 0 THEN Nil ELSE page.edges[1]

\* paginate gives such a page.
LEMMA PaginateFacts ==
    ASSUME PaginationAssumption, SizesFit, NEW p \in Params, NEW R \in SUBSET Nat, IsFiniteSet(R)
    PROVE  \E k \in Nat : IsPageOf(paginate(R, p), k, Between(R, p), p)
<1>0. PICK page : page = paginate(R, p)
  OBVIOUS
<1>1. PICK B, a, n, e : B = Between(R, p) /\ a = Ascending(B) /\ n = Cardinality(B) /\ e = page.edges
  OBVIOUS
<1>2. PICK k : k = IF Size(p) < n THEN Size(p) ELSE n
  OBVIOUS
<1>3. Size(p) \in Nat /\ page = pageFrom(Relay(QueryFunc(R, p), p), p)
  BY <1>0, OneMore DEF paginate
<1>4. /\ n \in Nat /\ k \in 0..n
      /\ e \in [1..k -> B] /\ e \in Seq(B) /\ Len(e) = k
      /\ \A i \in 1..k : e[i] = a[Skipped(p, n, k) + i]
      /\ (page.info.hasNextPage \/ page.info.hasPreviousPage) <=> k # n
      /\ page.info.endCursor = IF k = 0 THEN Nil ELSE e[k]
      /\ page.info.startCursor = IF k = 0 THEN Nil ELSE e[1]
  BY <1>1, <1>2, <1>3, PageFromQuery
<1>5. B \in SUBSET Nat /\ IsFiniteSet(B)
  <2>1. B \in SUBSET R
    BY <1>1 DEF Between
  <2> QED
    BY <2>1, FS_Subset
<1>6. Lists(a, n, B)
  BY <1>1, <1>5, AscendingFacts
<1>7. PICK h : h = Skipped(p, n, k)
  OBVIOUS
<1>8. h \in Nat /\ k \in Nat /\ h + k <= n /\ (p.first # Nil => h = 0) /\ (p.first = Nil => h + k = n)
  BY <1>4, <1>7 DEF Skipped
<1>9. \A i \in 1..k : e[i] = a[h + i]
  BY <1>4, <1>7
<1>10. /\ \A i, j \in 1..k : i < j => e[i] < e[j]
       /\ \A b \in B \ Range(e), i \in 1..k : (h = 0 => e[i] < b) /\ (h + k = n => b < e[i])
       /\ Range(e) # B <=> k # n
  <2>1. IsPart(e, k, h, a, n, B)
    BY <1>4, <1>8, <1>9 DEF IsPart
  <2> QED
    BY <1>6, <2>1, PartOfRows
<1>11. k <= Size(p) /\ (Range(e) # B => k = Size(p))
  BY <1>2, <1>3, <1>4, <1>10
<1>12. \A b \in B \ Range(e), i \in 1..k : IF p.first # Nil THEN e[i] < b ELSE b < e[i]
  BY <1>8, <1>10
<1>13. IsPageOf(page, k, B, p)
  <2>1. page.edges = e
    BY <1>1
  <2>2. (page.info.hasNextPage \/ page.info.hasPreviousPage) <=> Range(e) # B
    BY <1>4, <1>10
  <2> QED
    BY <1>4, <1>10, <1>11, <1>12, <2>1, <2>2 DEF IsPageOf
<1> QED
  BY <1>0, <1>1, <1>8, <1>13

----------------------------------------------------------------------------
(* Walks                                                                   *)

\* The client.
Walks == [forward : BOOLEAN, size : Sizes, cursor : Optional(Row), seen : Seq(Row), more : BOOLEAN]

\* The row is beyond all that the walk has seen.
Beyond(r) == walk.cursor = Nil \/ IF walk.forward THEN r > walk.cursor ELSE r < walk.cursor

\* A walk that goes on has the cursor of the outermost row it has seen, and what it
\* has missed of the rows that stayed is beyond.
WalkInv ==
    /\ rows \in SUBSET Row /\ throughout \in SUBSET rows /\ walk \in Walks
    /\ SeenInOrder
    /\ walk.size = 0 => walk.seen = <<>>
    /\ walk.more => walk.cursor =
         IF walk.seen = <<>> THEN Nil
         ELSE IF walk.forward THEN walk.seen[Len(walk.seen)] ELSE walk.seen[1]
    /\ \A r \in throughout \ Range(walk.seen) : walk.more /\ Beyond(r)

\* Sequences over a larger set.
LEMMA LargerSet ==
    ASSUME NEW S, NEW T, S \subseteq T, NEW q \in Seq(S)
    PROVE  q \in Seq(T)
<1>1. q \in [1..Len(q) -> T] /\ Len(q) \in Nat
  OBVIOUS
<1> QED
  BY <1>1

\* Joining two sequences in ascending order.
LEMMA JoinInOrder ==
    ASSUME NEW x \in Seq(Nat), NEW y \in Seq(Nat),
           \A i, j \in 1..Len(x) : i < j => x[i] < x[j],
           \A i, j \in 1..Len(y) : i < j => y[i] < y[j],
           \A i \in 1..Len(x), j \in 1..Len(y) : x[i] < y[j]
    PROVE  /\ \A i, j \in 1..Len(x \o y) : i < j => (x \o y)[i] < (x \o y)[j]
           /\ Range(x \o y) = Range(x) \cup Range(y)
           /\ x \o y = <<>> <=> x = <<>> /\ y = <<>>
           /\ y # <<>> => x \o y # <<>> /\ (x \o y)[Len(x \o y)] = y[Len(y)]
           /\ x # <<>> => x \o y # <<>> /\ (x \o y)[1] = x[1]
<1>1. PICK l, k, t : l = Len(x) /\ k = Len(y) /\ t = x \o y
  OBVIOUS
<1> l \in Nat /\ k \in Nat /\ t \in Seq(Nat)
  BY <1>1
<1>2. Len(t) = l + k /\ \A i \in 1..(l + k) : t[i] = IF i <= l THEN x[i] ELSE y[i - l]
  BY <1>1
<1>3. ASSUME NEW i \in 1..(l + k), NEW j \in 1..(l + k), i < j PROVE t[i] < t[j]
  <2>1. CASE j <= l
    <3>1. i \in 1..l /\ j \in 1..l /\ t[i] = x[i] /\ t[j] = x[j]
      BY <1>2, <1>3, <2>1
    <3> QED
      BY <1>1, <1>3, <3>1
  <2>2. CASE i <= l /\ ~(j <= l)
    <3>1. i \in 1..l /\ j - l \in 1..k /\ t[i] = x[i] /\ t[j] = y[j - l]
      BY <1>2, <2>2
    <3> QED
      BY <1>1, <3>1
  <2>3. CASE ~(i <= l)
    <3>1. i - l \in 1..k /\ j - l \in 1..k /\ i - l < j - l /\ t[i] = y[i - l] /\ t[j] = y[j - l]
      BY <1>2, <1>3, <2>3
    <3> QED
      BY <1>1, <3>1
  <2> QED
    BY <1>3, <2>1, <2>2, <2>3
<1>4. Range(t) = Range(x) \cup Range(y)
  <2>1. DOMAIN t = 1..(l + k) /\ DOMAIN x = 1..l /\ DOMAIN y = 1..k
    BY <1>1, <1>2
  <2>2. ASSUME NEW i \in 1..l PROVE x[i] \in Range(t)
    <3>1. i \in 1..(l + k) /\ t[i] = x[i]
      BY <1>2
    <3> QED
      BY <2>1, <3>1 DEF Range
  <2>3. ASSUME NEW i \in 1..k PROVE y[i] \in Range(t)
    <3>1. l + i \in 1..(l + k) /\ t[l + i] = y[i]
      BY <1>2
    <3> QED
      BY <2>1, <3>1 DEF Range
  <2>4. ASSUME NEW i \in 1..(l + k) PROVE t[i] \in Range(x) \cup Range(y)
    <3>1. CASE i <= l
      <4>1. i \in 1..l /\ t[i] = x[i]
        BY <1>2, <3>1
      <4> QED
        BY <2>1, <4>1 DEF Range
    <3>2. CASE ~(i <= l)
      <4>1. i - l \in 1..k /\ t[i] = y[i - l]
        BY <1>2, <3>2
      <4> QED
        BY <2>1, <4>1 DEF Range
    <3> QED
      BY <3>1, <3>2
  <2> QED
    BY <2>1, <2>2, <2>3, <2>4 DEF Range
<1>5. (t = <<>> <=> l + k = 0) /\ (x = <<>> <=> l = 0) /\ (y = <<>> <=> k = 0)
  BY <1>1, <1>2
<1>6. k # 0 => t[l + k] = y[k]
  <2>1. k # 0 => l + k \in 1..(l + k) /\ ~(l + k <= l) /\ (l + k) - l = k
    OBVIOUS
  <2> QED
    BY <1>2, <2>1
<1>7. l # 0 => t[1] = x[1]
  BY <1>2
<1> QED
  BY <1>1, <1>2, <1>3, <1>4, <1>5, <1>6, <1>7

\* A page continues the walk in order and leaves what is missed beyond it.
LEMMA FetchStep ==
    ASSUME PaginationAssumption, SizesFit, IsFiniteSet(Row), WalkInv, Fetch
    PROVE  WalkInv'
<1>a. PICK p, page, e, B : p = Request /\ page = paginate(rows, p) /\ e = page.edges /\ B = Between(rows, p)
  OBVIOUS
<1>b. PICK s, f, c : s = walk.seen /\ f = walk.forward /\ c = walk.cursor
  OBVIOUS
<1>1. /\ rows \in SUBSET Row /\ rows \in SUBSET Nat /\ IsFiniteSet(rows) /\ Nil \notin Nat
      /\ throughout \in SUBSET rows /\ f \in BOOLEAN /\ walk.size \in Sizes /\ walk.size \in Nat
      /\ c \in Optional(Row) /\ s \in Seq(Row) /\ walk.size # Nil /\ Row \subseteq Nat
  BY <1>b, FS_Subset DEF WalkInv, Walks, PaginationAssumption
<1>2. /\ p \in Params /\ Size(p) = walk.size
      /\ p.first # Nil <=> f
      /\ B = {r \in rows : c # Nil => IF f THEN r > c ELSE r < c}
  <2>1. /\ p.before = (IF f THEN Nil ELSE c) /\ p.after = (IF f THEN c ELSE Nil)
        /\ p.first = (IF f THEN walk.size ELSE Nil) /\ p.last = (IF f THEN Nil ELSE walk.size)
    BY <1>a, <1>b DEF Request
  <2>2. p \in [before : Optional(Row), after : Optional(Row), first : Optional(Sizes), last : Optional(Sizes)]
    BY <1>1, <1>a, <1>b DEF Request, Optional
  <2>3. p \in Params
    BY <1>1, <2>1, <2>2 DEF Params
  <2>4. B = {r \in rows : c # Nil => IF f THEN r > c ELSE r < c}
    <3>1. CASE f
      BY <1>a, <2>1, <3>1 DEF Between
    <3>2. CASE ~f
      BY <1>a, <2>1, <3>2 DEF Between
    <3> QED
      BY <3>1, <3>2
  <2> QED
    BY <1>1, <2>1, <2>3, <2>4 DEF Size
<1>3. PICK k \in Nat :
        /\ e \in [1..k -> B] /\ e \in Seq(B) /\ Len(e) = k
        /\ \A i, j \in 1..k : i < j => e[i] < e[j]
        /\ (page.info.hasNextPage \/ page.info.hasPreviousPage) <=> Range(e) # B
        /\ k <= walk.size /\ (Range(e) # B => k = walk.size)
        /\ \A b \in B \ Range(e), i \in 1..k : IF f THEN e[i] < b ELSE b < e[i]
        /\ page.info.endCursor = IF k = 0 THEN Nil ELSE e[k]
        /\ page.info.startCursor = IF k = 0 THEN Nil ELSE e[1]
  <2>1. PICK k \in Nat : IsPageOf(paginate(rows, p), k, Between(rows, p), p)
    BY <1>1, <1>2, PaginateFacts
  <2>2. IsPageOf(page, k, B, p)
    BY <1>a, <2>1
  <2>3. \A b \in B \ Range(e), i \in 1..k : IF f THEN e[i] < b ELSE b < e[i]
    BY <1>2, <1>a, <2>2 DEF IsPageOf
  <2> QED
    BY <1>2, <1>a, <2>2, <2>3 DEF IsPageOf
<1>c. PICK t, d, more : /\ t = (IF f THEN s \o e ELSE e \o s)
                     /\ d = (IF f THEN page.info.endCursor ELSE page.info.startCursor)
                     /\ more = (page.info.hasNextPage \/ page.info.hasPreviousPage)
  OBVIOUS
<1>4. /\ walk' = [walk EXCEPT !.seen = t, !.cursor = d, !.more = more]
      /\ walk.more /\ rows' = rows /\ throughout' = throughout
  BY <1>a, <1>b, <1>c DEF Fetch
<1>5. /\ B \in SUBSET Row /\ e \in Seq(Row) /\ t \in Seq(Row) /\ d \in Optional(Row) /\ more \in BOOLEAN
      /\ d = (IF k = 0 THEN Nil ELSE IF f THEN e[k] ELSE e[1]) /\ (more <=> Range(e) # B)
  <2>1. B \in SUBSET Row
    BY <1>1, <1>2
  <2>2. e \in Seq(Row) /\ t \in Seq(Row)
    <3>1. e \in Seq(Row)
      BY <1>3, <2>1, LargerSet
    <3> QED
      BY <1>1, <1>c, <3>1
  <2>3. more \in BOOLEAN /\ (more <=> Range(e) # B) /\ d = IF k = 0 THEN Nil ELSE IF f THEN e[k] ELSE e[1]
    BY <1>3, <1>c
  <2>4. d \in Optional(Row)
    <3>1. k # 0 => e[k] \in B /\ e[1] \in B
      BY <1>3
    <3> QED
      BY <2>1, <2>3, <3>1 DEF Optional
  <2> QED
    BY <2>1, <2>2, <2>3, <2>4
<1>6. /\ walk' \in Walks /\ walk'.seen = t /\ walk'.cursor = d /\ walk'.more = more
      /\ walk'.forward = f /\ walk'.size = walk.size
  BY <1>4, <1>5, <1>b DEF WalkInv, Walks
\* What has been seen is not beyond the cursor; the page is.
<1>d. PICK l \in Nat : l = Len(s)
  BY <1>1
<1>7. /\ s = <<>> <=> l = 0
      /\ \A i \in 1..l : s[i] \in Nat
      /\ \A i, j \in 1..l : i < j => s[i] < s[j]
      /\ c = IF l = 0 THEN Nil ELSE IF f THEN s[l] ELSE s[1]
  <2>1. (s = <<>> <=> l = 0) /\ \A i \in 1..l : s[i] \in Row
    BY <1>1, <1>d
  <2>2. c = IF s = <<>> THEN Nil ELSE IF f THEN s[l] ELSE s[1]
    BY <1>4, <1>b, <1>d DEF WalkInv
  <2>3. \A i, j \in 1..l : i < j => s[i] < s[j]
    BY <1>b, <1>d DEF WalkInv, SeenInOrder
  <2> QED
    BY <1>1, <2>1, <2>2, <2>3
<1>8. \A i \in 1..l, j \in 1..k : IF f THEN s[i] < e[j] ELSE e[j] < s[i]
  <2> SUFFICES ASSUME NEW i \in 1..l, NEW j \in 1..k PROVE IF f THEN s[i] < e[j] ELSE e[j] < s[i]
    OBVIOUS
  <2>1. c \in Nat /\ c # Nil
    BY <1>1, <1>7
  <2>2. IF f THEN s[i] <= c ELSE c <= s[i]
    BY <1>7
  <2>3. e[j] \in B
    BY <1>3
  <2>4. e[j] \in Nat /\ IF f THEN e[j] > c ELSE e[j] < c
    BY <1>1, <1>2, <2>1, <2>3
  <2> QED
    BY <1>7, <2>1, <2>2, <2>4
<1>9. s \in Seq(Nat) /\ e \in Seq(Nat)
  BY <1>1, <1>5, LargerSet
<1>10. /\ \A i, j \in 1..Len(t) : i < j => t[i] < t[j]
       /\ Range(t) = Range(s) \cup Range(e)
       /\ t = <<>> <=> s = <<>> /\ e = <<>>
       /\ k # 0 => t # <<>> /\ (IF f THEN t[Len(t)] = e[k] ELSE t[1] = e[1])
  <2>1. e = <<>> <=> k = 0
    BY <1>3
  <2>4. /\ \A i, j \in 1..Len(s) : i < j => s[i] < s[j]
        /\ \A i, j \in 1..Len(e) : i < j => e[i] < e[j]
    BY <1>3, <1>7, <1>d
  <2>2. CASE f
    <3>1. \A i \in 1..Len(s), j \in 1..Len(e) : s[i] < e[j]
      BY <1>3, <1>8, <1>d, <2>2
    <3>2. /\ \A i, j \in 1..Len(s \o e) : i < j => (s \o e)[i] < (s \o e)[j]
          /\ Range(s \o e) = Range(s) \cup Range(e)
          /\ s \o e = <<>> <=> s = <<>> /\ e = <<>>
          /\ e # <<>> => s \o e # <<>> /\ (s \o e)[Len(s \o e)] = e[Len(e)]
      BY <1>9, <2>4, <3>1, JoinInOrder, Zenon
    <3> QED
      BY <1>3, <1>c, <2>1, <2>2, <3>2
  <2>3. CASE ~f
    <3>1. \A i \in 1..Len(e), j \in 1..Len(s) : e[i] < s[j]
      BY <1>3, <1>8, <1>d, <2>3
    <3>2. /\ \A i, j \in 1..Len(e \o s) : i < j => (e \o s)[i] < (e \o s)[j]
          /\ Range(e \o s) = Range(e) \cup Range(s)
          /\ e \o s = <<>> <=> e = <<>> /\ s = <<>>
          /\ e # <<>> => e \o s # <<>> /\ (e \o s)[1] = e[1]
      BY <1>9, <2>4, <3>1, JoinInOrder, Zenon
    <3> QED
      BY <1>3, <1>c, <2>1, <2>3, <3>2
  <2> QED
    BY <2>2, <2>3
<1>11. SeenInOrder'
  BY <1>6, <1>10 DEF SeenInOrder
<1>12. walk.size = 0 => t = <<>>
  <2>1. walk.size = 0 => s = <<>> /\ k = 0
    BY <1>3, <1>b DEF WalkInv
  <2>2. k = 0 => e = <<>>
    BY <1>3
  <2> QED
    BY <1>10, <2>1, <2>2
\* A page with more behind it is empty only if the client asks for none.
<1>13. more => d = IF t = <<>> THEN Nil ELSE IF f THEN t[Len(t)] ELSE t[1]
  <2>1. CASE k = 0
    <3>1. more => walk.size = 0
      BY <1>3, <1>5, <2>1
    <3> QED
      BY <1>5, <1>12, <2>1, <3>1
  <2>2. CASE k # 0
    BY <1>5, <1>10, <2>2
  <2> QED
    BY <2>1, <2>2
<1>14. \A r \in throughout \ Range(t) : more /\ (d = Nil \/ IF f THEN r > d ELSE r < d)
  <2> SUFFICES ASSUME NEW r \in throughout, r \notin Range(t)
               PROVE  more /\ (d = Nil \/ IF f THEN r > d ELSE r < d)
    OBVIOUS
  <2>1. r \notin Range(s) /\ r \notin Range(e) /\ r \in rows
    BY <1>1, <1>10
  <2>2. c = Nil \/ IF f THEN r > c ELSE r < c
    BY <1>b, <2>1 DEF WalkInv, Beyond
  <2>3. r \in B
    BY <1>2, <2>1, <2>2
  <2>4. more
    BY <1>5, <2>1, <2>3
  <2>5. k # 0 => IF f THEN e[k] < r ELSE r < e[1]
    BY <1>3, <2>1, <2>3
  <2>6. k # 0 => e[k] \in B /\ e[1] \in B
    BY <1>3
  <2> QED
    BY <1>1, <1>5, <2>3, <2>4, <2>5, <2>6
<1> QED
  BY <1>1, <1>4, <1>6, <1>11, <1>12, <1>13, <1>14 DEF WalkInv, Beyond

\* A client that walks a list of any length, in pages of any size and in either
\* direction, gets the rows in order, none twice, and every row that was there all
\* the time, whatever is inserted and deleted meanwhile.
THEOREM WalksAreExact ==
    ASSUME PaginationAssumption, SizesFit, IsFiniteSet(Row)
    PROVE  Spec => []WalkIsExact
<1>1. Init => WalkInv
  <2> SUFFICES ASSUME Init PROVE WalkInv
    OBVIOUS
  <2>1. PICK f \in BOOLEAN, n \in Sizes :
          walk = [forward |-> f, size |-> n, cursor |-> Nil, seen |-> <<>>, more |-> TRUE]
    BY DEF Init
  <2>2. walk \in Walks /\ walk.seen = <<>> /\ walk.cursor = Nil /\ walk.more /\ Len(walk.seen) = 0
    BY <2>1 DEF Walks, Optional
  <2> QED
    BY <2>2 DEF Init, WalkInv, SeenInOrder, Beyond
<1>2. WalkInv /\ [Next]_vars => WalkInv'
  <2> SUFFICES ASSUME WalkInv, [Next]_vars PROVE WalkInv'
    OBVIOUS
  <2>1. CASE Fetch
    BY <2>1, FetchStep
  <2>2. ASSUME NEW r \in Row, Insert(r) PROVE WalkInv'
    BY <2>2 DEF Insert, WalkInv, SeenInOrder, Beyond
  <2>3. ASSUME NEW r \in Row, Delete(r) PROVE WalkInv'
    BY <2>3 DEF Delete, WalkInv, SeenInOrder, Beyond
  <2>4. CASE UNCHANGED vars
    BY <2>4 DEF vars, WalkInv, SeenInOrder, Beyond
  <2> QED
    BY <2>1, <2>2, <2>3, <2>4 DEF Next
<1>3. WalkInv => WalkIsExact
  <2> SUFFICES ASSUME WalkInv PROVE WalkIsExact
    OBVIOUS
  <2>1. Range(walk.seen) = {walk.seen[i] : i \in 1..Len(walk.seen)}
    BY DEF WalkInv, Walks, Range
  <2> QED
    BY <2>1 DEF WalkInv, SeenAll, WalkIsExact
<1> QED
  BY <1>1, <1>2, <1>3, PTL DEF Spec

----------------------------------------------------------------------------
(* One request                                                             *)

\* The operators of the instances are those of the walk.
LEMMA SameAscending ==
    ASSUME NEW R
    PROVE  One!Ascending(R) = Ascending(R) /\ Shared!Ascending(R) = Ascending(R)
  BY Zenon DEF Ascending, One!Ascending, Shared!Ascending, Cardinality, One!Cardinality, Shared!Cardinality

\* So the query,
LEMMA SameQuery ==
    ASSUME NEW R, NEW p
    PROVE  /\ One!QueryFunc(R, p) = QueryFunc(R, p) /\ Shared!QueryFunc(R, p) = QueryFunc(R, p)
           /\ One!limit(p) = limit(p) /\ One!Size(p) = Size(p) /\ One!Between(R, p) = Between(R, p)
<1>1. /\ \A q : One!Reverse(q) = Reverse(q) /\ Shared!Reverse(q) = Reverse(q)
      /\ \A q, n : One!Take(q, n) = Take(q, n) /\ Shared!Take(q, n) = Take(q, n)
  BY Zenon DEF Reverse, One!Reverse, Shared!Reverse, Take, One!Take, Shared!Take
<1>2. /\ One!limit(p) = limit(p) /\ Shared!limit(p) = limit(p) /\ One!Size(p) = Size(p)
      /\ One!Between(R, p) = Between(R, p) /\ Shared!Between(R, p) = Between(R, p)
  BY Zenon DEF limit, One!limit, Shared!limit, Int32, One!Int32, Shared!Int32, Size, One!Size, Shared!Size,
     Between, One!Between, Shared!Between
<1> QED
  BY <1>1, <1>2, SameAscending, Zenon DEF QueryFunc, One!QueryFunc, Shared!QueryFunc, Descending, One!Descending, Shared!Descending

\* what pageFrom makes of its rows,
LEMMA SamePage ==
    ASSUME NEW q, NEW p
    PROVE  One!pageFrom(q, p) = pageFrom(q, p) /\ Shared!pageFrom(q, p) = pageFrom(q, p)
<1>1. \A e, c : One!IndexIn(e, c) = IndexIn(e, c) /\ Shared!IndexIn(e, c) = IndexIn(e, c)
  BY Zenon DEF IndexIn, One!IndexIn, Shared!IndexIn, SelectInSeq, One!SelectInSeq, Shared!SelectInSeq,
     Min, One!Min, Shared!Min
<1>2. One!applyCursors(q, p) = applyCursors(q, p) /\ Shared!applyCursors(q, p) = applyCursors(q, p)
  BY <1>1, Zenon DEF applyCursors, One!applyCursors, Shared!applyCursors
<1>3. /\ \A e : One!pageEdgesFrom(e, p) = pageEdgesFrom(e, p) /\ Shared!pageEdgesFrom(e, p) = pageEdgesFrom(e, p)
  BY Zenon DEF pageEdgesFrom, One!pageEdgesFrom, Shared!pageEdgesFrom
<1>4. \A e, f : One!pageInfoFrom(e, f, p) = pageInfoFrom(e, f, p) /\ Shared!pageInfoFrom(e, f, p) = pageInfoFrom(e, f, p)
  BY Zenon DEF pageInfoFrom, One!pageInfoFrom, Shared!pageInfoFrom, Last, One!Last, Shared!Last
<1> QED
  BY <1>2, <1>3, <1>4, Zenon DEF pageFrom, One!pageFrom, Shared!pageFrom

\* and the answer are the same.
LEMMA SamePaginate ==
    ASSUME NEW R, NEW p
    PROVE  One!paginate(R, p) = paginate(R, p)
<1>1. \A q : One!Relay(q, p) = Relay(q, p)
  BY Zenon DEF Relay, One!Relay, Reverse, One!Reverse
<1> QED
  BY <1>1, SameQuery, SamePage, Zenon DEF paginate, One!paginate

\* The reply is what paginate makes of the rows.
OneInv ==
    /\ table \in SUBSET Row
    /\ One!Answered => reply.params \in Params /\ reply.page = paginate(table, reply.params)

\* Every request, whatever its cursors, size and direction, gets the page the Relay
\* specification asks for, and is told that there is more exactly when there is.
THEOREM RepliesAreRight ==
    ASSUME PaginationAssumption, SizesFit, IsFiniteSet(Row)
    PROVE  One!Spec => []One!PageIsRight
<1>1. One!Init => OneInv
  BY DEF One!Init, OneInv, One!Answered
<1>2. OneInv /\ [One!Next]_One!vars => OneInv'
  <2> SUFFICES ASSUME OneInv, [One!Next]_One!vars PROVE OneInv'
    OBVIOUS
  <2>1. ASSUME NEW p \in One!Params, One!Ask(p) PROVE OneInv'
    <3>1. p \in Params
      BY Zenon DEF Params, One!Params, Optional, One!Optional
    <3> QED
      BY <2>1, <3>1, SamePaginate DEF One!Ask, OneInv
  <2>2. CASE UNCHANGED One!vars
    BY <2>2 DEF One!vars, OneInv, One!Answered
  <2> QED
    BY <2>1, <2>2 DEF One!Next
<1>3. OneInv => One!PageIsRight
  <2> SUFFICES ASSUME OneInv, One!Answered PROVE One!PageIsRelay /\ One!MoreIsTrue
    BY DEF One!PageIsRelay, One!MoreIsTrue, One!PageIsRight
  <2>1. PICK p, page : p = reply.params /\ page = reply.page
    OBVIOUS
  <2>2. p \in Params /\ page = paginate(table, p) /\ table \in SUBSET Nat /\ IsFiniteSet(table)
    BY <2>1, FS_Subset DEF OneInv, PaginationAssumption
  <2>3. PICK k \in Nat : IsPageOf(page, k, Between(table, p), p)
    BY <2>2, PaginateFacts
  <2>4. PICK e, B : e = page.edges /\ B = Between(table, p)
    OBVIOUS
  <2>5. /\ e \in [1..k -> B] /\ Len(e) = k
        /\ \A i, j \in 1..k : i < j => e[i] < e[j]
        /\ (page.info.hasNextPage \/ page.info.hasPreviousPage) <=> Range(e) # B
        /\ Range(e) # B => k = Size(p)
        /\ \A b \in B \ Range(e), i \in 1..k : IF p.first # Nil THEN e[i] < b ELSE b < e[i]
    BY <2>3, <2>4 DEF IsPageOf
  <2>6. B \in SUBSET Nat
    BY <2>2, <2>4 DEF Between
  <2>7. e = Ascending(Range(e))
    <3>1. e \in [1..k -> Nat]
      BY <2>5, <2>6
    <3> QED
      BY <2>5, <3>1, AscendingUnique
  <2>8. Range(e) \subseteq B
    BY <2>5 DEF Range
  <2>9. \A x \in Range(e), r \in B \ Range(e) : IF p.first # Nil THEN x < r ELSE r < x
    BY <2>5 DEF Range
  <2>10. One!Range(e) = Range(e) /\ One!Ascending(Range(e)) = Ascending(Range(e)) /\ One!Between(table, p) = B /\ One!Size(p) = Size(p)
    BY <2>4, SameAscending, SameQuery, Zenon DEF Range, One!Range
  <2>11. One!IsPage(e, B, p)
    BY <2>5, <2>7, <2>8, <2>9, <2>10, Zenon DEF One!IsPage
  <2> QED
    BY <2>1, <2>4, <2>5, <2>10, <2>11 DEF One!PageIsRelay, One!MoreIsTrue
<1> QED
  BY <1>1, <1>2, <1>3, PTL DEF One!Spec

----------------------------------------------------------------------------
(* Resolvers that share a loader's slices                                  *)

\* A resolver's record; of what is in the slices that are read backward nothing is
\* said.
IsResolver(r) ==
    \E v, w : r \in [stage : {"load", "reverse", "page", "done"}, params : Shared!Requests, swaps : {v}, edges : {w}]

\* A resolver that reads forward turns nothing round, makes its page of what the query
\* returned, slice, and returns that page.
ReadsForward(r, slice) ==
    r.params.first # Nil =>
        /\ r.stage # "reverse"
        /\ r.stage = "page" => slice = QueryFunc(table, r.params)
        /\ r.stage = "done" => r.edges = Shared!PageOf(r.params)

\* The slice of a request that reads forward is what the query returned, from the
\* first load to the end of the request: only those that read backward turn theirs
\* round.
SharedInv ==
    /\ table \in SUBSET Row
    /\ loaded = [p \in Shared!Requests |-> loaded[p]]
    /\ \A p \in Shared!Requests : p.first # Nil => loaded[p] \in {Nil, QueryFunc(table, p)}
    /\ resolver = [x \in Resolver |-> resolver[x]]
    /\ \A x \in Resolver : IsResolver(resolver[x]) /\ ReadsForward(resolver[x], loaded[resolver[x].params])

\* A page without cursors that is read forward.
LEMMA ForwardPage ==
    ASSUME PaginationAssumption, SizesFit, IsFiniteSet(Row), table \in SUBSET Row,
           NEW p \in Shared!Requests, p.first # Nil
    PROVE  Shared!pageFrom(QueryFunc(table, p), p).edges = Shared!PageOf(p)
<1>1. p \in Params /\ p.before = Nil /\ p.after = Nil
  BY DEF Shared!Requests, Shared!Params, Params, Shared!Optional, Optional
<1>2. table \in SUBSET Nat /\ IsFiniteSet(table)
  BY FS_Subset DEF PaginationAssumption
<1>3. Between(table, p) = table
  BY <1>1 DEF Between
<1>4. PICK page : page = pageFrom(Relay(QueryFunc(table, p), p), p)
  OBVIOUS
<1>5. PICK n, k, a, e : /\ n = Cardinality(table) /\ a = Ascending(table) /\ e = page.edges
                        /\ k = (IF Size(p) < n THEN Size(p) ELSE n)
  OBVIOUS
<1>6. /\ n \in Nat /\ k \in 0..n /\ e \in [1..k -> table]
      /\ \A i \in 1..k : e[i] = a[Skipped(p, n, k) + i]
  BY <1>1, <1>2, <1>3, <1>4, <1>5, PageFromQuery
<1>7. /\ a \in Seq(table) /\ Len(a) = n /\ Size(p) \in Nat
  BY <1>1, <1>2, <1>5, AscendingFacts, OneMore
<1>8. PICK t : t = Take(a, Size(p))
  OBVIOUS
<1>9. t \in Seq(table) /\ Len(t) = k /\ \A i \in 1..k : t[i] = a[i]
  BY <1>5, <1>7, <1>8, TakeFacts
<1>10. e = t
  <2>1. t \in [1..k -> table]
    BY <1>9
  <2>2. \A i \in 1..k : e[i] = t[i]
    BY <1>6, <1>9 DEF Skipped
  <2> QED
    BY <1>6, <2>1, <2>2
<1>11. Shared!PageOf(p) = t
  <2>1. Shared!Take(Shared!Ascending(table), p.first) = Take(Ascending(table), p.first)
    BY SameAscending, Zenon DEF Take, Shared!Take
  <2>2. p.first = Size(p)
    BY DEF Size
  <2> QED
    BY <1>5, <1>8, <2>1, <2>2 DEF Shared!PageOf
<1>12. Shared!pageFrom(QueryFunc(table, p), p) = page
  BY <1>4, SamePage DEF Relay
<1> QED
  BY <1>5, <1>10, <1>11, <1>12

\* A step keeps the slices that are read forward, or loads them.
KeepsSlices ==
    /\ loaded' = [q \in Shared!Requests |-> loaded'[q]]
    /\ \A q \in Shared!Requests : q.first # Nil => loaded'[q] \in {loaded[q], QueryFunc(table, q)}

\* A resolver that moves leaves the others be.
LEMMA ResolverMoves ==
    ASSUME SharedInv, NEW x \in Resolver, NEW new, IsResolver(new), ReadsForward(new, loaded'[new.params]),
           resolver' = [resolver EXCEPT ![x] = new], table' = table, KeepsSlices
    PROVE  SharedInv'
<1>1. \A y \in Resolver : resolver'[y] = IF y = x THEN new ELSE resolver[y]
  BY DEF SharedInv
<1>2. resolver' = [y \in Resolver |-> resolver'[y]]
  BY DEF SharedInv
<1>3. ASSUME NEW q \in Shared!Requests, q.first # Nil
      PROVE  /\ loaded'[q] \in {Nil, QueryFunc(table, q)}
             /\ loaded[q] = QueryFunc(table, q) => loaded'[q] = QueryFunc(table, q)
  BY <1>3 DEF SharedInv, KeepsSlices
<1>4. ASSUME NEW y \in Resolver
      PROVE  IsResolver(resolver'[y]) /\ ReadsForward(resolver'[y], loaded'[resolver'[y].params])
  <2>1. CASE y = x
    BY <1>1, <2>1
  <2>2. CASE y # x
    <3>1. PICK r : r = resolver[y]
      OBVIOUS
    <3>2. resolver'[y] = r /\ IsResolver(r) /\ ReadsForward(r, loaded[r.params])
      BY <1>1, <2>2, <3>1 DEF SharedInv
    <3>3. r.params \in Shared!Requests
      BY <3>2 DEF IsResolver
    <3>4. ReadsForward(r, loaded'[r.params])
      BY <1>3, <3>2, <3>3 DEF ReadsForward
    <3> QED
      BY <3>2, <3>4
  <2> QED
    BY <2>1, <2>2
<1>5. \A q : QueryFunc(table, q)' = QueryFunc(table, q) /\ Shared!PageOf(q)' = Shared!PageOf(q)
  BY DEF QueryFunc, Between, Shared!PageOf
<1>6. ASSUME NEW y \in Resolver PROVE ReadsForward(resolver[y], loaded[resolver[y].params])'
  BY <1>4, <1>5 DEF ReadsForward
<1> QED
  BY <1>2, <1>3, <1>4, <1>5, <1>6 DEF SharedInv, KeepsSlices, IsResolver

\* The steps of a resolver.
LEMMA SharedStep ==
    ASSUME PaginationAssumption, SizesFit, IsFiniteSet(Row), SharedInv, NEW x \in Resolver,
           Shared!Load(x) \/ Shared!Swap(x) \/ Shared!Reversed(x) \/ Shared!Answer(x)
    PROVE  SharedInv'
<1>1. PICK p, r : p = r.params /\ r = resolver[x]
  OBVIOUS
<1>2. /\ p \in Shared!Requests /\ Shared!key(p) = p /\ Shared!Slice(x) = loaded[p]
      /\ IsResolver(r) /\ ReadsForward(r, loaded[p])
  BY <1>1 DEF SharedInv, IsResolver, Shared!key, Shared!Slice
<1>3. loaded' = loaded => KeepsSlices
  BY DEF SharedInv, KeepsSlices
\* What a Load stores is what the query returns, or is there already.
<1>4. CASE Shared!Load(x)
  <2>1. PICK new, stage :
          /\ stage = (IF p.first # Nil THEN "page" ELSE "reverse")
          /\ new = [r EXCEPT !.stage = stage]
    OBVIOUS
  <2>2. IsResolver(new) /\ new.params = p /\ new.stage = stage
    BY <1>1, <1>2, <2>1 DEF IsResolver
  <2>3. /\ resolver' = [resolver EXCEPT ![x] = new] /\ table' = table
        /\ loaded' = [loaded EXCEPT ![p] = IF loaded[p] = Nil THEN QueryFunc(table, p) ELSE loaded[p]]
    <3>1. Shared!QueryFunc(table, p) = QueryFunc(table, p)
      BY SameQuery
    <3> QED
      BY <1>1, <1>2, <1>4, <2>1, <3>1 DEF Shared!Load
  <2>4. /\ loaded' = [q \in Shared!Requests |-> loaded'[q]]
        /\ \A q \in Shared!Requests : loaded'[q] = IF q = p /\ loaded[p] = Nil THEN QueryFunc(table, p) ELSE loaded[q]
    BY <1>2, <2>3 DEF SharedInv
  <2>5. KeepsSlices
    BY <2>4 DEF KeepsSlices
  <2>6. p.first # Nil => loaded'[p] = QueryFunc(table, p)
    BY <1>2, <2>4 DEF SharedInv
  <2>7. ReadsForward(new, loaded'[new.params])
    BY <2>1, <2>2, <2>6 DEF ReadsForward
  <2> QED
    BY <2>2, <2>3, <2>5, <2>7, ResolverMoves
\* Only a slice that is read backward is turned round.
<1>5. CASE Shared!Swap(x)
  <2>1. r.stage = "reverse" /\ p.first = Nil
    BY <1>1, <1>2, <1>5 DEF Shared!Swap, ReadsForward
  <2>2. PICK new, slice :
          /\ new = [r EXCEPT !.swaps = r.swaps + 1]
          /\ resolver' = [resolver EXCEPT ![x] = new] /\ table' = table
          /\ loaded' = [loaded EXCEPT ![p] = slice]
    BY <1>1, <1>2, <1>5 DEF Shared!Swap
  <2>3. IsResolver(new) /\ new.params = p
    BY <1>1, <1>2, <2>2 DEF IsResolver
  <2>4. KeepsSlices
    BY <1>2, <2>1, <2>2 DEF SharedInv, KeepsSlices
  <2>5. ReadsForward(new, loaded'[new.params])
    BY <2>1, <2>3 DEF ReadsForward
  <2> QED
    BY <2>2, <2>3, <2>4, <2>5, ResolverMoves
<1>6. CASE Shared!Reversed(x)
  <2>1. r.stage = "reverse" /\ p.first = Nil
    BY <1>1, <1>2, <1>6 DEF Shared!Reversed, ReadsForward
  <2>2. PICK new : new = [r EXCEPT !.stage = "page", !.swaps = 0]
    OBVIOUS
  <2>3. IsResolver(new) /\ new.params = p
    BY <1>1, <1>2, <2>2 DEF IsResolver
  <2>4. resolver' = [resolver EXCEPT ![x] = new] /\ table' = table /\ loaded' = loaded
    BY <1>1, <1>6, <2>2 DEF Shared!Reversed
  <2>5. ReadsForward(new, loaded'[new.params])
    BY <2>1, <2>3 DEF ReadsForward
  <2> QED
    BY <1>3, <2>3, <2>4, <2>5, ResolverMoves
<1>7. CASE Shared!Answer(x)
  <2>1. PICK new, e : /\ e = Shared!pageFrom(loaded[p], p).edges
                      /\ new = [r EXCEPT !.stage = "done", !.edges = e]
    OBVIOUS
  <2>2. IsResolver(new) /\ new.params = p /\ new.stage = "done" /\ new.edges = e
    BY <1>1, <1>2, <2>1 DEF IsResolver
  <2>3. resolver' = [resolver EXCEPT ![x] = new] /\ table' = table /\ loaded' = loaded
    BY <1>1, <1>2, <1>7, <2>1 DEF Shared!Answer
  <2>4. p.first # Nil => loaded[p] = QueryFunc(table, p)
    BY <1>1, <1>2, <1>7 DEF Shared!Answer, ReadsForward
  <2>5. p.first # Nil => e = Shared!PageOf(p)
    BY <1>2, <2>1, <2>4, ForwardPage DEF SharedInv
  <2>6. ReadsForward(new, loaded'[new.params])
    BY <2>2, <2>5 DEF ReadsForward
  <2> QED
    BY <1>3, <2>2, <2>3, <2>6, ResolverMoves
<1> QED
  BY <1>4, <1>5, <1>6, <1>7

\* A resolver that reads forward gets its page, however many others share the slices
\* of the loader and whatever they do to them.
THEOREM ForwardPagesAreRight ==
    ASSUME PaginationAssumption, SizesFit, IsFiniteSet(Row)
    PROVE  Shared!Spec => []Shared!ForwardIsRight
<1>1. Shared!Init => SharedInv
  <2> SUFFICES ASSUME Shared!Init PROVE SharedInv
    OBVIOUS
  <2>1. ASSUME NEW x \in Resolver PROVE IsResolver(resolver[x]) /\ resolver[x].stage = "load"
    <3>1. PICK p \in Shared!Requests : resolver[x] = [stage |-> "load", params |-> p, swaps |-> 0, edges |-> <<>>]
      BY DEF Shared!Init
    <3> QED
      BY <3>1 DEF IsResolver
  <2>2. resolver = [x \in Resolver |-> resolver[x]]
    BY DEF Shared!Init
  <2> QED
    BY <2>1, <2>2 DEF Shared!Init, SharedInv, ReadsForward
<1>2. SharedInv /\ [Shared!Next]_Shared!vars => SharedInv'
  <2>1. SharedInv /\ UNCHANGED Shared!vars => SharedInv'
    <3> SUFFICES ASSUME SharedInv, UNCHANGED Shared!vars PROVE SharedInv'
      OBVIOUS
    <3>1. table' = table /\ \A q : QueryFunc(table, q)' = QueryFunc(table, q) /\ Shared!PageOf(q)' = Shared!PageOf(q)
      BY DEF QueryFunc, Between, Shared!PageOf, Shared!vars
    <3> QED
      BY <3>1 DEF SharedInv, IsResolver, ReadsForward, Shared!vars
  <2> QED
    BY <2>1, SharedStep DEF Shared!Next
<1>3. SharedInv => Shared!ForwardIsRight
  BY DEF SharedInv, ReadsForward, Shared!ForwardIsRight
<1> QED
  BY <1>1, <1>2, <1>3, PTL DEF Shared!Spec

\* Both: the requests of their own and the resolvers that share a loader.
THEOREM PagesAreRight ==
    ASSUME PaginationAssumption, SizesFit, IsFiniteSet(Row)
    PROVE  One!Spec /\ Shared!Spec => []PageIsRight
<1>1. One!PageIsRight /\ Shared!ForwardIsRight => PageIsRight
  BY DEF PageIsRight
<1> QED
  BY <1>1, RepliesAreRight, ForwardPagesAreRight, PTL

----------------------------------------------------------------------------
(* Cursors                                                                 *)

Coding == INSTANCE CursorProofs WITH cursor <- packed, stage <- packing

\* The cursor that CursorProofs reasons about is the one that MCApi packs: all that
\* is defined in Cursor is the same in both instances.
LEMMA CodingIsPacking ==
    /\ Packing!CursorAssumption => Coding!CursorAssumption
    /\ Packing!Init => Coding!Init
    /\ [Packing!Next]_Packing!vars => [Coding!Next]_Coding!vars
    /\ Coding!RoundTrip => RoundTrip
<1> USE DEF Packing!Buffer, Coding!Buffer, Packing!Fields, Coding!Fields
<1>1. Packing!CursorAssumption => Coding!CursorAssumption
  BY DEF Packing!CursorAssumption, Coding!CursorAssumption
<1>2. Packing!Init => Coding!Init
  BY DEF Packing!Init, Coding!Init
<1>3. Packing!Fill => Coding!Fill
  BY Zenon DEF Packing!Fill, Coding!Fill, Packing!ValuesOf, Coding!ValuesOf, Packing!SeqOf, Coding!SeqOf
<1>4. Packing!Pack => Coding!Pack
  BY Zenon DEF Packing!appendUInt64, Coding!appendUInt64, Packing!appendInt64, Coding!appendInt64,
     Packing!ZigZag, Coding!ZigZag, Packing!appendString, Coding!appendString,
     Packing!appendStrings, Coding!appendStrings, Packing!packVal, Coding!packVal,
     Packing!packedFrom, Coding!packedFrom, Packing!packVals, Coding!packVals,
     Packing!Pack, Coding!Pack
<1>5. \A type, b : Packing!unpackVal(type, b) = Coding!unpackVal(type, b)
  <2>1. /\ Packing!Error = Coding!Error
        /\ \A v, rest : Packing!Read(v, rest) = Coding!Read(v, rest)
        /\ \A b, n : Packing!Behind(b, n) = Coding!Behind(b, n)
    BY Zenon DEF Packing!Read, Coding!Read, Packing!Error, Coding!Error, Packing!Behind, Coding!Behind
  <2>2. Packing!readUInt64 = Coding!readUInt64
    BY Zenon DEF Packing!readUInt64, Coding!readUInt64, Packing!Read, Coding!Read,
       Packing!Error, Coding!Error
  <2>3. \A b : Packing!readInt64(b) = Coding!readInt64(b)
    BY <2>1, <2>2, Zenon DEF Packing!readInt64, Coding!readInt64
  <2>4. \A b : Packing!readString(b) = Coding!readString(b)
    BY <2>1, <2>2, Zenon DEF Packing!readString, Coding!readString
  <2>5. Packing!readStrings = Coding!readStrings
    BY Zenon DEF Packing!readStrings, Coding!readStrings, Packing!readString, Coding!readString,
       Packing!readUInt64, Coding!readUInt64, Packing!Read, Coding!Read, Packing!Error, Coding!Error,
       Packing!Behind, Coding!Behind
  <2> QED
    BY <2>1, <2>2, <2>3, <2>4, <2>5, Zenon DEF Packing!unpackVal, Coding!unpackVal
<1>6. Packing!Unpack => Coding!Unpack
  BY <1>5 DEF Packing!Unpack, Coding!Unpack
<1>7. Packing!Unpacked => Coding!Unpacked
  BY DEF Packing!Unpacked, Coding!Unpacked
<1>8. [Packing!Next]_Packing!vars => [Coding!Next]_Coding!vars
  BY <1>3, <1>4, <1>6, <1>7, Zenon DEF Packing!Next, Coding!Next, Packing!vars, Coding!vars
<1>9. Coding!RoundTrip => RoundTrip
  BY Zenon DEF RoundTrip, Packing!RoundTrip, Coding!RoundTrip, Packing!EndsEmpty, Coding!EndsEmpty,
     Packing!Last, Coding!Last
<1> QED
  BY <1>1, <1>2, <1>8, <1>9

\* A cursor of every kind comes back as it was packed, field by field and to the last
\* byte, for all strings and times, numbers of any length, lists of any length and
\* every base of the varints; only a cursor that ends with an empty id is refused.
THEOREM CursorsComeBack ==
    ASSUME Packing!CursorAssumption
    PROVE  Packing!Spec => []RoundTrip
<1>1. Coding!CursorAssumption
  BY CodingIsPacking
<1>2. Packing!Init => Coding!CursorInv
  BY <1>1, CodingIsPacking, Coding!CursorStarts
<1>3. Coding!CursorInv /\ [Packing!Next]_Packing!vars => Coding!CursorInv'
  BY <1>1, CodingIsPacking, Coding!CursorSteps
<1>4. Coding!CursorInv => RoundTrip
  BY <1>1, CodingIsPacking, Coding!CursorInvRoundTrip
<1> QED
  BY <1>2, <1>3, <1>4, PTL DEF Packing!Spec

----------------------------------------------------------------------------
(* The window of a paginator                                               *)

\* The order of keys with one to four fields, field by field.
LEMMA LessOne ==
    ASSUME NEW a \in Int, NEW b \in Int
    PROVE  Window!Less(<<a>>, <<b>>) <=> a < b
<1> PICK k : k = <<a>>
  OBVIOUS
<1> PICK l : l = <<b>>
  OBVIOUS
<1>1. DOMAIN k = 1..1 /\ k[1] = a /\ l[1] = b
  OBVIOUS
<1>2. Window!Less(k, l) => a < b
  BY <1>1 DEF Window!Less
<1>3. ASSUME a < b PROVE Window!Less(k, l)
  <2>1. 1 \in DOMAIN k /\ k[1] < l[1] /\ \A j \in 1..(1 - 1) : k[j] = l[j]
    BY <1>1, <1>3
  <2> QED
    BY <2>1, Zenon DEF Window!Less
<1> QED
  BY <1>2, <1>3

\* of two columns,
LEMMA LessTwo ==
    ASSUME NEW a1 \in Int, NEW a2 \in Int, NEW b1 \in Int, NEW b2 \in Int
    PROVE  Window!Less(<<a1, a2>>, <<b1, b2>>) <=> a1 < b1 \/ (a1 = b1 /\ a2 < b2)
<1> PICK a : a = <<a1, a2>>
  OBVIOUS
<1> PICK b : b = <<b1, b2>>
  OBVIOUS
<1>1. DOMAIN a = 1..2 /\ a[1] = a1 /\ a[2] = a2 /\ b[1] = b1 /\ b[2] = b2
  OBVIOUS
<1>2. Window!Less(a, b) => a1 < b1 \/ (a1 = b1 /\ a2 < b2)
  BY <1>1 DEF Window!Less
<1>3. a1 < b1 => Window!Less(a, b)
  BY <1>1 DEF Window!Less
<1>4. a1 = b1 /\ a2 < b2 => Window!Less(a, b)
  BY <1>1 DEF Window!Less
<1> QED
  BY <1>2, <1>3, <1>4

\* of three,
LEMMA LessThree ==
    ASSUME NEW a1 \in Int, NEW a2 \in Int, NEW a3 \in Int,
           NEW b1 \in Int, NEW b2 \in Int, NEW b3 \in Int
    PROVE  Window!Less(<<a1, a2, a3>>, <<b1, b2, b3>>) <=>
               \/ a1 < b1 \/ (a1 = b1 /\ a2 < b2) \/ (a1 = b1 /\ a2 = b2 /\ a3 < b3)
<1> PICK a : a = <<a1, a2, a3>>
  OBVIOUS
<1> PICK b : b = <<b1, b2, b3>>
  OBVIOUS
<1>1. /\ DOMAIN a = 1..3 /\ a[1] = a1 /\ a[2] = a2 /\ a[3] = a3
      /\ b[1] = b1 /\ b[2] = b2 /\ b[3] = b3
  OBVIOUS
<1>2. Window!Less(a, b) => a1 < b1 \/ (a1 = b1 /\ a2 < b2) \/ (a1 = b1 /\ a2 = b2 /\ a3 < b3)
  BY <1>1 DEF Window!Less
<1>3. a1 < b1 => Window!Less(a, b)
  BY <1>1 DEF Window!Less
<1>4. a1 = b1 /\ a2 < b2 => Window!Less(a, b)
  BY <1>1 DEF Window!Less
<1>5. a1 = b1 /\ a2 = b2 /\ a3 < b3 => Window!Less(a, b)
  BY <1>1 DEF Window!Less
<1> QED
  BY <1>2, <1>3, <1>4, <1>5

\* and of four.
LEMMA LessFour ==
    ASSUME NEW a1 \in Int, NEW a2 \in Int, NEW a3 \in Int, NEW a4 \in Int,
           NEW b1 \in Int, NEW b2 \in Int, NEW b3 \in Int, NEW b4 \in Int
    PROVE  Window!Less(<<a1, a2, a3, a4>>, <<b1, b2, b3, b4>>) <=>
               \/ a1 < b1 \/ (a1 = b1 /\ a2 < b2) \/ (a1 = b1 /\ a2 = b2 /\ a3 < b3)
               \/ (a1 = b1 /\ a2 = b2 /\ a3 = b3 /\ a4 < b4)
<1> PICK a : a = <<a1, a2, a3, a4>>
  OBVIOUS
<1> PICK b : b = <<b1, b2, b3, b4>>
  OBVIOUS
<1>1. /\ DOMAIN a = 1..4 /\ a[1] = a1 /\ a[2] = a2 /\ a[3] = a3 /\ a[4] = a4
      /\ b[1] = b1 /\ b[2] = b2 /\ b[3] = b3 /\ b[4] = b4
  OBVIOUS
<1>2. Window!Less(a, b) => \/ a1 < b1 \/ (a1 = b1 /\ a2 < b2) \/ (a1 = b1 /\ a2 = b2 /\ a3 < b3)
                           \/ (a1 = b1 /\ a2 = b2 /\ a3 = b3 /\ a4 < b4)
  BY <1>1 DEF Window!Less
<1>3. a1 < b1 => Window!Less(a, b)
  BY <1>1 DEF Window!Less
<1>4. a1 = b1 /\ a2 < b2 => Window!Less(a, b)
  BY <1>1 DEF Window!Less
<1>5. a1 = b1 /\ a2 = b2 /\ a3 < b3 => Window!Less(a, b)
  BY <1>1 DEF Window!Less
<1>6. a1 = b1 /\ a2 = b2 /\ a3 = b3 /\ a4 < b4 => Window!Less(a, b)
  BY <1>1 DEF Window!Less
<1> QED
  BY <1>2, <1>3, <1>4, <1>5, <1>6

\* The keys of boolIDFloatID and its defaults: an ID is more than none.
LEMMA FloatKeys ==
    ASSUME NEW b \in 0..1, NEW i \in Nat \ {0}, NEW f \in Int, NEW j \in Nat, NEW top \in Nat
    PROVE  /\ Window!Less(<<b, i, f, j>>, <<1, 0, top, 0>>) <=> b # 1
           /\ Window!Less(<<0, 0, -top, 0>>, <<b, i, f, j>>)
<1>1. -top \in Int /\ (b = 0 \/ b = 1) /\ 0 < i
  OBVIOUS
<1>2. Window!Less(<<b, i, f, j>>, <<1, 0, top, 0>>) <=>
         \/ b < 1 \/ (b = 1 /\ i < 0) \/ (b = 1 /\ i = 0 /\ f < top)
         \/ (b = 1 /\ i = 0 /\ f = top /\ j < 0)
  BY LessFour
<1> PICK low \in Int : low = -top
  BY <1>1
<1>3. Window!Less(<<0, 0, low, 0>>, <<b, i, f, j>>) <=>
         \/ 0 < b \/ (0 = b /\ 0 < i) \/ (0 = b /\ 0 = i /\ low < f)
         \/ (0 = b /\ 0 = i /\ low = f /\ 0 < j)
  BY LessFour
<1>4. Window!Less(<<0, 0, low, 0>>, <<b, i, f, j>>)
  BY <1>1, <1>3
<1> QED
  BY <1>1, <1>2, <1>4

\* The keys of sharedCommunities and its defaults: a count is less than the last.
LEMMA CommunityKeys ==
    ASSUME NEW b \in 0..1, NEW c \in 0..1, NEW n \in Nat, NEW i \in Nat, NEW top \in Nat, n < top
    PROVE  /\ Window!Less(<<0, 0, -1, 0>>, <<b, c, n, i>>)
           /\ Window!Less(<<b, c, n, i>>, <<1, 1, top, 0>>)
<1>1. (b = 0 \/ b = 1) /\ (c = 0 \/ c = 1) /\ -1 \in Int /\ -1 < n
  OBVIOUS
<1>2. Window!Less(<<b, c, n, i>>, <<1, 1, top, 0>>) <=>
         \/ b < 1 \/ (b = 1 /\ c < 1) \/ (b = 1 /\ c = 1 /\ n < top)
         \/ (b = 1 /\ c = 1 /\ n = top /\ i < 0)
  BY LessFour
<1> PICK low \in Int : low = -1
  BY <1>1
<1>3. Window!Less(<<0, 0, low, 0>>, <<b, c, n, i>>) <=>
         \/ 0 < b \/ (0 = b /\ 0 < c) \/ (0 = b /\ 0 = c /\ low < n)
         \/ (0 = b /\ 0 = c /\ low = n /\ 0 < i)
  BY LessFour
<1>4. Window!Less(<<0, 0, low, 0>>, <<b, c, n, i>>)
  BY <1>1, <1>3
<1> QED
  BY <1>1, <1>2, <1>4

\* The default keys of every paginator but the unused one are beyond all rows.
LEMMA DefaultsAreBeyond ==
    ASSUME Window!KeysetWindowAssumption, keyKind \in DOMAIN Window!Keys, keyRow \in Window!Keys[keyKind]
    PROVE  /\ keyKind \in Window!Descending =>
                 /\ Window!Less(Window!CurBefore(Nil), Window!Stored)
                 /\ Window!Less(Window!Stored, Window!CurAfter(Nil))
           /\ keyKind \notin Window!Descending =>
                 /\ Window!Less(Window!Stored, Window!CurBefore(Nil)) <=>
                       ~(keyKind = "boolIDFloatID" /\ keyRow[1] = 1)
                 /\ Window!Less(Window!CurAfter(Nil), Window!Stored)
<1> USE DEF Window!KeysetWindowAssumption, Window!Keys, Window!Descending, Window!Stored,
        Window!CurBefore, Window!CurAfter, Window!paginatorFromCursor, Window!Defaults,
        Window!Time, Window!Id, Window!Early, Window!Late, Window!NoId, Window!Bool,
        Window!Float, Window!Count, Window!Key, Window!LastKey
<1>1. CASE keyKind = "timeID"
  <2>1. PICK t \in 1..(MaxField - 1), i \in 1..MaxId : keyRow = <<t, i>>
    BY <1>1
  <2>2. /\ Window!Stored = <<t, i>> /\ Window!CurBefore(Nil) = <<MaxField, 0>>
        /\ Window!CurAfter(Nil) = <<0, 0>>
    BY <1>1, <2>1 DEF Window!timeID
  <2>3. Window!Less(<<t, i>>, <<MaxField, 0>>) /\ Window!Less(<<0, 0>>, <<t, i>>)
    BY LessTwo
  <2> QED
    BY <1>1, <2>2, <2>3
<1>2. CASE keyKind = "sharedFollowers"
  <2>1. PICK t \in 1..(MaxField - 1), i \in 1..MaxId : keyRow = <<t, i>>
    BY <1>2
  <2>2. /\ Window!Stored = <<t, i>> /\ Window!CurAfter(Nil) = <<MaxField, 0>>
        /\ Window!CurBefore(Nil) = <<0, 0>>
    BY <1>2, <2>1 DEF Window!sharedFollowers
  <2>3. Window!Less(<<t, i>>, <<MaxField, 0>>) /\ Window!Less(<<0, 0>>, <<t, i>>)
    BY LessTwo
  <2> QED
    BY <1>2, <2>2, <2>3
<1>3. CASE keyKind = "boolIDFloatID"
  <2>1. PICK b \in 0..1, i \in 1..MaxId, f \in (-MaxField)..MaxField, j \in 1..MaxId : keyRow = <<b, i, f, j>>
    BY <1>3
  <2>2. /\ Window!Stored = <<b, i, f, j>> /\ Window!CurBefore(Nil) = <<1, 0, MaxField, 0>>
        /\ Window!CurAfter(Nil) = <<0, 0, -MaxField, 0>> /\ keyRow[1] = b
    BY <1>3, <2>1 DEF Window!boolIDFloatID
  <2>3. /\ Window!Less(<<b, i, f, j>>, <<1, 0, MaxField, 0>>) <=> b # 1
        /\ Window!Less(<<0, 0, -MaxField, 0>>, <<b, i, f, j>>)
    BY FloatKeys
  <2> QED
    BY <1>3, <2>2, <2>3
<1>4. CASE keyKind = "sharedCommunities"
  <2>1. PICK b \in 0..1, c \in 0..1, n \in 0..(MaxField - 1), i \in 1..MaxId : keyRow = <<b, c, n, i>>
    BY <1>4
  <2>2. /\ Window!Stored = <<b, c, n, i>> /\ Window!CurBefore(Nil) = <<0, 0, -1, 0>>
        /\ Window!CurAfter(Nil) = <<1, 1, MaxField, 0>>
    BY <1>4, <2>1 DEF Window!sharedCommunities
  <2>3. /\ Window!Less(<<0, 0, -1, 0>>, <<b, c, n, i>>)
        /\ Window!Less(<<b, c, n, i>>, <<1, 1, MaxField, 0>>)
    BY CommunityKeys
  <2> QED
    BY <1>4, <2>2, <2>3
<1>5. CASE keyKind = "boolTimeID"
  <2>1. PICK b \in 0..1, t \in 1..(MaxField - 1), i \in 1..MaxId : keyRow = <<b, t, i>>
    BY <1>5
  <2>2. /\ Window!Stored = <<b, t, i>> /\ Window!CurBefore(Nil) = <<1, MaxField, 0>>
        /\ Window!CurAfter(Nil) = <<0, 0, 0>>
    BY <1>5, <2>1 DEF Window!boolTimeID
  <2>3. Window!Less(<<b, t, i>>, <<1, MaxField, 0>>) /\ Window!Less(<<0, 0, 0>>, <<b, t, i>>)
    BY LessThree
  <2> QED
    BY <1>5, <2>2, <2>3
<1>6. CASE keyKind = "lexical"
  <2>1. PICK k \in 0..(MaxField - 1), i \in 1..MaxId : keyRow = <<k, i>>
    BY <1>6
  <2>2. /\ Window!Stored = <<k, i>> /\ Window!CurBefore(Nil) = <<MaxField, 0>>
        /\ Window!CurAfter(Nil) = <<0, 0>>
    BY <1>6, <2>1 DEF Window!lexical
  <2>3. Window!Less(<<k, i>>, <<MaxField, 0>>) /\ Window!Less(<<0, 0>>, <<k, i>>)
    BY LessTwo
  <2> QED
    BY <1>6, <2>2, <2>3
<1>7. CASE keyKind = "intTimeID"
  <2>1. PICK n \in 0..(MaxField - 1), t \in 1..(MaxField - 1), i \in 1..MaxId : keyRow = <<n, t, i>>
    BY <1>7
  <2>2. /\ Window!Stored = <<n, t, i>> /\ Window!CurBefore(Nil) = <<MaxField, MaxField, 0>>
        /\ Window!CurAfter(Nil) = <<0, 0, 0>>
    BY <1>7, <2>1 DEF Window!intTimeID
  <2>3. Window!Less(<<n, t, i>>, <<MaxField, MaxField, 0>>) /\ Window!Less(<<0, 0, 0>>, <<n, t, i>>)
    BY LessThree
  <2> QED
    BY <1>7, <2>2, <2>3
<1>8. CASE keyKind = "position"
  <2>1. PICK p \in 0..(MaxField - 2) : keyRow = <<p>>
    BY <1>8
  <2>2. /\ Window!Stored = <<p + 1>> /\ Window!CurBefore(Nil) = <<MaxField - 1 + 1>>
        /\ Window!CurAfter(Nil) = <<-1 + 1>>
    BY <1>8, <2>1 DEF Window!positionPaginator
  <2>3. Window!Less(<<p + 1>>, <<MaxField - 1 + 1>>) /\ Window!Less(<<-1 + 1>>, <<p + 1>>)
    BY LessOne
  <2> QED
    BY <1>8, <2>2, <2>3
<1> QED
  BY <1>1, <1>2, <1>3, <1>4, <1>5, <1>6, <1>7, <1>8

\* A cursor is compared with the keyRow as it stands; positions are both moved by one.
LEMMA CursorsAreExact ==
    ASSUME Window!KeysetWindowAssumption, keyKind \in DOMAIN Window!Keys, keyRow \in Window!Keys[keyKind],
           NEW k \in Window!Keys[keyKind], k # Nil
    PROVE  /\ Window!Less(Window!Stored, Window!CurBefore(k)) <=> Window!Less(keyRow, k)
           /\ Window!Less(Window!CurBefore(k), Window!Stored) <=> Window!Less(k, keyRow)
           /\ Window!Less(Window!Stored, Window!CurAfter(k)) <=> Window!Less(keyRow, k)
           /\ Window!Less(Window!CurAfter(k), Window!Stored) <=> Window!Less(k, keyRow)
<1>1. CASE keyKind # "position"
  BY <1>1 DEF Window!Stored, Window!CurBefore, Window!CurAfter, Window!paginatorFromCursor
<1>2. CASE keyKind = "position"
  <2>1. PICK p \in 0..(MaxField - 2), q \in 0..(MaxField - 2) : keyRow = <<p>> /\ k = <<q>>
    BY <1>2 DEF Window!Keys
  <2>2. /\ Window!Stored = <<p + 1>> /\ Window!CurBefore(k) = <<q + 1>>
        /\ Window!CurAfter(k) = <<q + 1>>
    BY <1>2, <2>1 DEF Window!Stored, Window!CurBefore, Window!CurAfter, Window!paginatorFromCursor
  <2>3. /\ Window!Less(<<p + 1>>, <<q + 1>>) <=> Window!Less(<<p>>, <<q>>)
        /\ Window!Less(<<q + 1>>, <<p + 1>>) <=> Window!Less(<<q>>, <<p>>)
    BY LessOne DEF Window!KeysetWindowAssumption
  <2> QED
    BY <2>1, <2>2, <2>3
<1> QED
  BY <1>1, <1>2

\* The inductive invariant of KeysetWindow.
WindowInv ==
    /\ keyKind \in DOMAIN Window!Keys /\ keyRow \in Window!Keys[keyKind]
    /\ Window!WindowIsExact

\* The query's window and the window the cursors ask for are the same.
LEMMA AskIsExact ==
    ASSUME Window!KeysetWindowAssumption, WindowInv, Window!Ask
    PROVE  WindowInv'
<1>1. keyKind' = keyKind /\ keyRow' = keyRow /\ keyKind \in DOMAIN Window!Keys /\ keyRow \in Window!Keys[keyKind]
  BY DEF Window!Ask, WindowInv
<1>2. PICK b \in Window!Keys[keyKind] \cup {Nil}, a \in Window!Keys[keyKind] \cup {Nil} :
        /\ before' = b /\ after' = a
        /\ seen' = IF keyKind \in Window!Descending
                   THEN Window!Less(Window!CurBefore(b), Window!Stored) /\ Window!Less(Window!Stored, Window!CurAfter(a))
                   ELSE Window!Less(Window!Stored, Window!CurBefore(b)) /\ Window!Less(Window!CurAfter(a), Window!Stored)
  BY DEF Window!Ask
<1> PICK lost : lost = (keyKind = "boolIDFloatID" /\ b = Nil /\ keyRow[1] = 1)
  OBVIOUS
<1>3. CASE keyKind \in Window!Descending
  <2>1. /\ Window!Less(Window!CurBefore(b), Window!Stored) <=> (b # Nil => Window!Less(b, keyRow))
        /\ Window!Less(Window!Stored, Window!CurAfter(a)) <=> (a # Nil => Window!Less(keyRow, a))
    BY <1>1, <1>2, <1>3, DefaultsAreBeyond, CursorsAreExact
  <2>2. ~lost
    BY <1>3 DEF Window!Descending
  <2>3. seen' = (/\ a # Nil => Window!Less(keyRow, a)
                 /\ b # Nil => Window!Less(b, keyRow)
                 /\ ~lost)
    BY <1>2, <1>3, <2>1, <2>2
  <2>4. Window!WindowIsExact'
    BY <1>1, <1>2, <1>3, <2>3 DEF Window!WindowIsExact, Window!Precedes, Window!Lost
  <2> QED
    BY <1>1, <2>4 DEF WindowInv
<1>4. CASE keyKind \notin Window!Descending
  <2>1. /\ Window!Less(Window!Stored, Window!CurBefore(b)) <=> (b # Nil => Window!Less(keyRow, b)) /\ ~lost
        /\ Window!Less(Window!CurAfter(a), Window!Stored) <=> (a # Nil => Window!Less(a, keyRow))
    BY <1>1, <1>2, <1>4, DefaultsAreBeyond, CursorsAreExact
  <2>3. seen' = (/\ a # Nil => Window!Less(a, keyRow)
                 /\ b # Nil => Window!Less(keyRow, b)
                 /\ ~lost)
    BY <1>2, <1>4, <2>1
  <2>4. Window!WindowIsExact'
    BY <1>1, <1>2, <1>4, <2>3 DEF Window!WindowIsExact, Window!Precedes, Window!Lost
  <2> QED
    BY <1>1, <2>4 DEF WindowInv
<1> QED
  BY <1>3, <1>4

\* A query returns exactly the rows between the cursors, whatever the columns' range
\* and the IDs, except where the default of curBefore hides a keyRow (Window!Lost).
THEOREM WindowsAreExact ==
    ASSUME Window!KeysetWindowAssumption
    PROVE  Window!Spec => []WindowIsExact
<1>1. Window!Init => WindowInv
  BY DEF Window!Init, WindowInv, Window!WindowIsExact
<1>2. WindowInv /\ [Window!Next]_Window!vars => WindowInv'
  <2>1. WindowInv /\ UNCHANGED Window!vars => WindowInv'
    BY DEF WindowInv, Window!WindowIsExact, Window!Precedes, Window!Lost, Window!vars
  <2> QED
    BY <2>1, AskIsExact DEF Window!Next
<1>3. WindowInv => WindowIsExact
  BY DEF WindowInv, WindowIsExact
<1> QED
  BY <1>1, <1>2, <1>3, PTL DEF Window!Spec

----------------------------------------------------------------------------
(* Dataloaders                                                             *)

\* The rows of all tables.
AnyRow == Loading!UserRow \cup Loading!WalletRow \cup Loading!SplitRow
\* A call of a loader.
CallRecord ==
    [pc : {"new", "query", "publish", "done"}, loader : Loading!Loader,
     key : Loading!AnyKey, answer : SUBSET AnyRow, err : BOOLEAN, hit : BOOLEAN,
     todo : SUBSET (Loading!Loader \X AnyRow), known : SUBSET (SUBSET AnyRow)]

\* The tables and the caches are what they are declared as.
LoadingType ==
    /\ db \in past /\ past \subseteq Loading!Tables
    /\ cache = [l \in Loading!Loader |-> cache[l]]
    /\ \A l \in Loading!Loader : cache[l] = [k \in DOMAIN cache[l] |-> cache[l][k]]
    /\ call \in [Calls -> CallRecord]

\* Everything in a cache under a key that can be asked for is what the loader's
\* statement could have answered for the key since the request began.
TrueEntry(l, k, v) ==
    /\ v \subseteq Loading!RowOf(l)
    /\ l \in Loading!Single => \E row : v = {row}
    /\ k \in Loading!Keys(l) \cup {NoName}
    /\ k \in Loading!Keys(l) => \E d \in past : v \in Loading!Answers(d, l, k)

\* All that is cached is true.
CachesAreTrue ==
    \A l \in Loading!Loader : \A k \in DOMAIN cache[l] : TrueEntry(l, k, cache[l][k])

\* What holds of a call r.  One that runs its statement has missed the cache; what
\* it publishes is a true answer, and what it has published is in the
\* subscribers' caches; an answer from the cache is still there.
CallIsTrue(r) ==
    /\ r.pc # "new" => r.key \in Loading!Keys(r.loader)
    /\ r.pc \in {"query", "publish"} => ~r.hit /\ ~r.err
    /\ r.pc = "publish" \/ (r.pc = "done" /\ ~r.err) =>
          \E d \in past : r.answer \in Loading!Answers(d, r.loader, r.key)
    /\ r.pc = "publish" =>
          /\ r.todo \subseteq Loading!Subscribers(r.loader) \X r.answer
          /\ \A l \in Loading!Subscribers(r.loader), row \in r.answer :
                \/ <<l, row>> \in r.todo
                \/ Loading!getKeyForResult(l, row) \in DOMAIN cache[l]
    /\ r.pc = "done" /\ r.hit =>
          r.key \in DOMAIN cache[r.loader] /\ cache[r.loader][r.key] = r.answer
    /\ r.pc = "done" /\ ~r.err /\ ~r.hit =>
          \A l \in Loading!Subscribers(r.loader), row \in r.answer :
              Loading!getKeyForResult(l, row) \in DOMAIN cache[l]

\* The inductive invariant of Dataloaders.
LoadingInv == LoadingType /\ CachesAreTrue /\ \A c \in Calls : CallIsTrue(call[c])

----------------------------------------------------------------------------
\* What each loader selects.
LEMMA SelectedFacts ==
    ASSUME NEW d, NEW k
    PROVE  /\ Loading!Selected(d, "GetUserById", k) = Loading!GetUserById(d, k)
           /\ Loading!Selected(d, "GetUserByUsername", k) = Loading!GetUserByUsername(d, k)
           /\ Loading!Selected(d, "GetUserByAddressAndL1", k) = Loading!GetUserByAddressAndL1(d, k)
           /\ Loading!Selected(d, "GetUsersByPosition", k) = Loading!GetUsersByPosition(d)
           /\ Loading!Selected(d, "GetWalletByID", k) = Loading!GetWalletByID(d, k)
           /\ Loading!Selected(d, "GetWalletsByUserID", k) = Loading!GetWalletsByUserID(d, k)
           /\ Loading!Selected(d, "GetSplitById", k) = Loading!GetSplitById(d, k)
           /\ Loading!Selected(d, "GetSplitByChainAddress", k) = Loading!GetSplitByChainAddress(d, k)
           /\ Loading!Selected(d, "GetSplitsByUserID", k) = Loading!GetSplitsByUserID(d, k)
BY Zenon DEF Loading!Selected

\* Who subscribes to whose rows.
LEMMA SubscriberFacts ==
    /\ Loading!Subscribers("GetUserByAddressAndL1") = {"GetUserById", "GetUserByUsername"}
    /\ Loading!Subscribers("GetUsersByPosition") = {"GetUserById", "GetUserByUsername"}
    /\ Loading!Subscribers("GetUserByUsername") = {"GetUserById"}
    /\ Loading!Subscribers("GetUserById") = {"GetUserByUsername"}
    /\ Loading!Subscribers("GetWalletsByUserID") = {"GetWalletByID"}
    /\ Loading!Subscribers("GetSplitByChainAddress") = {"GetSplitById"}
    /\ Loading!Subscribers("GetSplitsByUserID") = {"GetSplitById"}
    /\ Loading!Subscribers("GetWalletByID") = {}
    /\ Loading!Subscribers("GetSplitById") = {}
BY Zenon DEF Loading!Subscribers

\* The table of each loader, and the keys of those that are primed.
LEMMA RowFacts ==
    /\ Loading!RowOf("GetUserById") = Loading!UserRow
    /\ Loading!RowOf("GetUserByUsername") = Loading!UserRow
    /\ Loading!RowOf("GetUserByAddressAndL1") = Loading!UserRow
    /\ Loading!RowOf("GetUsersByPosition") = Loading!UserRow
    /\ Loading!RowOf("GetWalletByID") = Loading!WalletRow
    /\ Loading!RowOf("GetWalletsByUserID") = Loading!WalletRow
    /\ Loading!RowOf("GetSplitById") = Loading!SplitRow
    /\ Loading!RowOf("GetSplitByChainAddress") = Loading!SplitRow
    /\ Loading!RowOf("GetSplitsByUserID") = Loading!SplitRow
BY Zenon DEF Loading!RowOf

\* The keys of the loaders that are primed.
LEMMA KeyFacts ==
    /\ Loading!Keys("GetUserById") = Users
    /\ Loading!Keys("GetUserByUsername") = Names
    /\ Loading!Keys("GetWalletByID") = Wallets
    /\ Loading!Keys("GetSplitById") = Splits
BY Zenon DEF Loading!Keys

\* A statement selects rows of its loader's table.
LEMMA SelectedRows ==
    ASSUME NEW d \in Loading!Tables, NEW l \in Loading!Loader, NEW k
    PROVE  Loading!Selected(d, l, k) \subseteq Loading!RowOf(l)
<1>1. /\ d.users \subseteq Loading!UserRow /\ d.wallets \subseteq Loading!WalletRow
      /\ d.splits \subseteq Loading!SplitRow
  BY DEF Loading!Tables
<1>2. /\ Loading!LiveUsers(d) \subseteq Loading!UserRow
      /\ Loading!LiveWallets(d) \subseteq Loading!WalletRow
  BY <1>1 DEF Loading!LiveUsers, Loading!LiveWallets
<1>3. /\ Loading!GetUserById(d, k) \subseteq Loading!UserRow
      /\ Loading!GetUserByUsername(d, k) \subseteq Loading!UserRow
      /\ Loading!GetUserByAddressAndL1(d, k) \subseteq Loading!UserRow
      /\ Loading!GetUsersByPosition(d) \subseteq Loading!UserRow
  BY <1>2 DEF Loading!GetUserById, Loading!GetUserByUsername, Loading!GetUserByAddressAndL1,
       Loading!GetUsersByPosition
<1>4. /\ Loading!GetWalletByID(d, k) \subseteq Loading!WalletRow
      /\ Loading!GetWalletsByUserID(d, k) \subseteq Loading!WalletRow
  BY <1>2 DEF Loading!GetWalletByID, Loading!GetWalletsByUserID
<1>5. /\ Loading!GetSplitById(d, k) \subseteq Loading!SplitRow
      /\ Loading!GetSplitByChainAddress(d, k) \subseteq Loading!SplitRow
      /\ Loading!GetSplitsByUserID(d, k) \subseteq Loading!SplitRow
  BY <1>1 DEF Loading!GetSplitById, Loading!GetSplitByChainAddress, Loading!GetSplitsByUserID
<1> QED
  BY <1>3, <1>4, <1>5, SelectedFacts, RowFacts, Zenon DEF Loading!Loader, Loading!Single, Loading!Many

\* Answers are made of selected rows.
LEMMA AnswerRows ==
    ASSUME NEW d \in Loading!Tables, NEW l \in Loading!Loader, NEW k,
           NEW v \in Loading!Answers(d, l, k)
    PROVE  /\ v \subseteq Loading!Selected(d, l, k) /\ v \subseteq Loading!RowOf(l)
           /\ l \in Loading!Single => \E row : v = {row}
<1>1. v \subseteq Loading!Selected(d, l, k) /\ (l \in Loading!Single => \E row : v = {row})
  BY DEF Loading!Answers
<1> QED
  BY <1>1, SelectedRows

\* A row of a loader is a row.
LEMMA RowsOf == \A l \in Loading!Loader : Loading!RowOf(l) \subseteq AnyRow
BY RowFacts, Zenon DEF AnyRow, Loading!Loader, Loading!Single, Loading!Many

\* What a row that one loader found looks like to a subscriber: the subscriber's
\* own statement, asked at the same moment for the key of the row, selects it.
LEMMA PrimedRowIsSelected ==
    ASSUME NEW d \in Loading!Tables, NEW l \in Loading!Loader, NEW k,
           NEW s \in Loading!Subscribers(l), NEW row \in Loading!Selected(d, l, k)
    PROVE  /\ s \in Loading!Loader /\ s \in Loading!Single
           /\ row \in Loading!RowOf(s)
           /\ Loading!getKeyForResult(s, row) \in Loading!Keys(s) \cup {NoName}
           /\ Loading!getKeyForResult(s, row) \in Loading!Keys(s) /\ NoName \notin Names =>
                 row \in Loading!Selected(d, s, Loading!getKeyForResult(s, row))
<1>1. row \in Loading!RowOf(l)
  BY SelectedRows
<1>2. CASE l \in {"GetUserByAddressAndL1", "GetUsersByPosition", "GetUserByUsername", "GetUserById"}
  <2>1. row \in Loading!LiveUsers(d) /\ row \in Loading!UserRow
    BY <1>1, <1>2, SelectedFacts, RowFacts DEF Loading!GetUserByAddressAndL1, Loading!GetUsersByPosition,
       Loading!GetUserByUsername, Loading!GetUserById
  <2>2. row.id \in Users /\ row.username \in Names \cup {NoName}
    BY <2>1 DEF Loading!UserRow
  <2>3. s \in {"GetUserById", "GetUserByUsername"}
    BY <1>2, SubscriberFacts
  <2>4. row \in Loading!GetUserById(d, row.id)
    BY <2>1 DEF Loading!GetUserById
  <2>5. row.username \in Names /\ NoName \notin Names => row \in Loading!GetUserByUsername(d, row.username)
    BY <2>1 DEF Loading!GetUserByUsername
  <2>6. CASE s = "GetUserById"
    BY <2>1, <2>2, <2>4, <2>6, SelectedFacts, RowFacts, KeyFacts
       DEF Loading!getKeyForResult, Loading!Single, Loading!Loader
  <2>7. CASE s = "GetUserByUsername"
    BY <2>1, <2>2, <2>5, <2>7, SelectedFacts, RowFacts, KeyFacts
       DEF Loading!getKeyForResult, Loading!Single, Loading!Loader
  <2> QED
    BY <2>3, <2>6, <2>7
<1>3. CASE l = "GetWalletsByUserID"
  <2>1. row \in Loading!LiveWallets(d) /\ row \in Loading!WalletRow
    BY <1>1, <1>3, SelectedFacts, RowFacts DEF Loading!GetWalletsByUserID
  <2>2. row.id \in Wallets /\ row \in Loading!GetWalletByID(d, row.id)
    BY <2>1 DEF Loading!WalletRow, Loading!GetWalletByID
  <2>3. s = "GetWalletByID"
    BY <1>3, SubscriberFacts
  <2> QED
    BY <2>1, <2>2, <2>3, SelectedFacts, RowFacts, KeyFacts
       DEF Loading!getKeyForResult, Loading!Single, Loading!Loader
<1>4. CASE l \in {"GetSplitByChainAddress", "GetSplitsByUserID"}
  <2>1. row \in d.splits /\ row \in Loading!SplitRow
    BY <1>1, <1>4, SelectedFacts, RowFacts DEF Loading!GetSplitByChainAddress, Loading!GetSplitsByUserID
  <2>2. row.id \in Splits /\ row \in Loading!GetSplitById(d, row.id)
    BY <2>1 DEF Loading!SplitRow, Loading!GetSplitById
  <2>3. s = "GetSplitById"
    BY <1>4, SubscriberFacts
  <2> QED
    BY <2>1, <2>2, <2>3, SelectedFacts, RowFacts, KeyFacts
       DEF Loading!getKeyForResult, Loading!Single, Loading!Loader
<1>5. CASE l \in {"GetWalletByID", "GetSplitById"}
  BY <1>5, SubscriberFacts
<1> QED
  BY <1>2, <1>3, <1>4, <1>5 DEF Loading!Loader, Loading!Single, Loading!Many

----------------------------------------------------------------------------
\* What a call may ask for is a key.
LEMMA KeysAreKeys ==
    ASSUME NEW l \in Loading!Loader, NEW k \in Loading!Keys(l)
    PROVE  k \in Loading!AnyKey
BY DEF Loading!AnyKey

\* A true answer stays true while others write.
LEMMA TrueEntryStays ==
    ASSUME NEW l, NEW k, NEW v, TrueEntry(l, k, v), past \subseteq past'
    PROVE  TrueEntry(l, k, v)'
BY DEF TrueEntry

\* LoadOrStore of a true answer keeps what is cached, and the caches true.
LEMMA CacheGrows ==
    ASSUME LoadingType, CachesAreTrue, past' = past,
           NEW l0 \in Loading!Loader, NEW k0, NEW v0, TrueEntry(l0, k0, v0),
           cache' = [cache EXCEPT ![l0] = Loading!LoadOrStore(cache[l0], k0, v0)]
    PROVE  /\ cache' = [l \in Loading!Loader |-> cache'[l]]
           /\ \A l \in Loading!Loader : cache'[l] = [k \in DOMAIN cache'[l] |-> cache'[l][k]]
           /\ \A l \in Loading!Loader : \A k \in DOMAIN cache[l] :
                 k \in DOMAIN cache'[l] /\ cache'[l][k] = cache[l][k]
           /\ k0 \in DOMAIN cache'[l0]
           /\ CachesAreTrue'
<1> PICK new : new = Loading!LoadOrStore(cache[l0], k0, v0)
  OBVIOUS
<1>1. cache' = [cache EXCEPT ![l0] = new]
  OBVIOUS
<1>2. /\ DOMAIN new = DOMAIN cache[l0] \cup {k0}
      /\ \A k \in DOMAIN new : new[k] = IF k \in DOMAIN cache[l0] THEN cache[l0][k] ELSE v0
      /\ new = [k \in DOMAIN new |-> new[k]]
  BY DEF Loading!LoadOrStore
<1>3. /\ DOMAIN cache = Loading!Loader /\ DOMAIN cache' = Loading!Loader
      /\ cache'[l0] = new /\ \A l \in Loading!Loader \ {l0} : cache'[l] = cache[l]
  BY <1>1 DEF LoadingType
<1>4. cache' = [l \in Loading!Loader |-> cache'[l]]
  BY <1>1, <1>3
<1>5. \A l \in Loading!Loader : cache'[l] = [k \in DOMAIN cache'[l] |-> cache'[l][k]]
  BY <1>2, <1>3 DEF LoadingType
<1>6. \A l \in Loading!Loader : \A k \in DOMAIN cache[l] :
         k \in DOMAIN cache'[l] /\ cache'[l][k] = cache[l][k]
  BY <1>2, <1>3
<1>7. ASSUME NEW l \in Loading!Loader, NEW k \in DOMAIN cache'[l]
      PROVE  TrueEntry(l, k, cache'[l][k])
  <2>1. CASE k \in DOMAIN cache[l]
    BY <1>6, <2>1 DEF CachesAreTrue
  <2>2. CASE k \notin DOMAIN cache[l]
    BY <1>2, <1>3, <1>7, <2>2
  <2> QED
    BY <2>1, <2>2
<1>8. CachesAreTrue'
  <2> SUFFICES ASSUME NEW l \in Loading!Loader, NEW k \in DOMAIN cache'[l]
               PROVE  TrueEntry(l, k, cache[l][k])'
    BY DEF CachesAreTrue
  <2> PICK v : v = cache'[l][k]
    OBVIOUS
  <2>1. TrueEntry(l, k, v)
    BY <1>7
  <2> QED
    BY <2>1 DEF TrueEntry
<1> QED
  BY <1>2, <1>3, <1>4, <1>5, <1>6, <1>8

\* Subscribers are loaders.
LEMMA SubscribersAreLoaders ==
    \A l \in Loading!Loader : Loading!Subscribers(l) \subseteq Loading!Loader
BY SubscriberFacts DEF Loading!Loader, Loading!Single, Loading!Many

\* A call keeps its facts while tables and caches grow.
LEMMA CallStaysTrue ==
    ASSUME NEW r \in CallRecord, CallIsTrue(r), past \subseteq past',
           \A l \in Loading!Loader : \A k \in DOMAIN cache[l] :
               k \in DOMAIN cache'[l] /\ cache'[l][k] = cache[l][k]
    PROVE  CallIsTrue(r)'
<1>1. r.loader \in Loading!Loader /\ Loading!Subscribers(r.loader) \subseteq Loading!Loader
  BY SubscribersAreLoaders DEF CallRecord
<1> QED
  BY <1>1 DEF CallIsTrue

\* A step of one call, which may add to the caches.
LEMMA CallSteps ==
    ASSUME LoadingInv, NEW c \in Calls, NEW new \in CallRecord,
           call' = [call EXCEPT ![c] = new], UNCHANGED <<db, past>>,
           cache' = [l \in Loading!Loader |-> cache'[l]],
           \A l \in Loading!Loader : cache'[l] = [k \in DOMAIN cache'[l] |-> cache'[l][k]],
           \A l \in Loading!Loader : \A k \in DOMAIN cache[l] :
               k \in DOMAIN cache'[l] /\ cache'[l][k] = cache[l][k],
           CachesAreTrue', CallIsTrue(new)'
    PROVE  LoadingInv'
<1>1. /\ call' \in [Calls -> CallRecord] /\ call'[c] = new
      /\ \A x \in Calls \ {c} : call'[x] = call[x] /\ call[x] \in CallRecord
  BY DEF LoadingInv, LoadingType
<1>2. LoadingType'
  BY <1>1 DEF LoadingInv, LoadingType
<1>3. ASSUME NEW x \in Calls PROVE CallIsTrue(call[x])'
  <2>1. CASE x = c
    BY <1>1, <2>1 DEF CallIsTrue
  <2>2. CASE x # c
    <3> PICK r : r = call[x]
      OBVIOUS
    <3>1. CallIsTrue(r)'
      BY <1>1, <2>2, CallStaysTrue DEF LoadingInv
    <3> QED
      BY <1>1, <2>2, <3>1 DEF CallIsTrue
  <2> QED
    BY <2>1, <2>2
<1> QED
  BY <1>2, <1>3 DEF LoadingInv

\* A step of one call that leaves the caches alone.
LEMMA QuietCallSteps ==
    ASSUME LoadingInv, NEW c \in Calls, NEW new \in CallRecord,
           call' = [call EXCEPT ![c] = new], UNCHANGED <<db, past, cache>>, CallIsTrue(new)
    PROVE  LoadingInv'
<1>1. CallIsTrue(new)' /\ CachesAreTrue'
  BY DEF CallIsTrue, CachesAreTrue, TrueEntry, LoadingInv
<1> QED
  BY <1>1, CallSteps DEF LoadingInv, LoadingType

\* A call that has not begun.
LEMMA NewCallType ==
    /\ Loading!NewCall \in CallRecord
    /\ Loading!NewCall.pc = "new" /\ Loading!NewCall.err = FALSE /\ Loading!NewCall.hit = FALSE
<1>1. NoName \in Loading!AnyKey
  BY Zenon DEF Loading!AnyKey
<1>2. "GetUserById" \in Loading!Loader
  BY DEF Loading!Loader, Loading!Single
<1> QED
  BY <1>1, <1>2 DEF Loading!NewCall, CallRecord

\* The invariant holds initially.
LEMMA LoadingInvInit == Loading!TablesAssumption /\ Loading!Init => LoadingInv
<1> SUFFICES ASSUME Loading!TablesAssumption, Loading!Init PROVE LoadingInv
  OBVIOUS
<1>2. LoadingType
  BY NewCallType DEF Loading!Init, Loading!TablesAssumption, LoadingType
<1>3. CachesAreTrue
  BY DEF Loading!Init, CachesAreTrue
<1>4. \A c \in Calls : CallIsTrue(call[c])
  BY DEF Loading!Init, CallIsTrue, Loading!NewCall
<1> QED
  BY <1>2, <1>3, <1>4 DEF LoadingInv

\* Load: a hit has the cached answer, a miss nothing yet.
LEMMA LoadStep ==
    ASSUME LoadingInv, NEW c \in Calls, NEW l \in Loading!Loader, NEW k \in Loading!Keys(l),
           Loading!Load(c, l, k)
    PROVE  LoadingInv'
<1>1. LoadingType /\ CachesAreTrue
  BY DEF LoadingInv
<1> PICK given : given = Loading!Returned(l, k)
  OBVIOUS
<1>2. given \in SUBSET (SUBSET AnyRow)
  BY <1>1 DEF Loading!Returned, LoadingType, CallRecord
<1>3. CASE k \in DOMAIN cache[l]
  <2> PICK new : new = [Loading!NewCall EXCEPT !.loader = l, !.key = k, !.known = given, !.hit = TRUE,
                                               !.pc = "done", !.answer = cache[l][k]]
    OBVIOUS
  <2>0. (k \in DOMAIN cache[l]) = TRUE
    BY <1>3, Zenon
  <2>1. call' = [call EXCEPT ![c] = new] /\ UNCHANGED <<db, past, cache>>
    BY <2>0 DEF Loading!Load
  <2>2. /\ cache[l][k] \subseteq AnyRow
        /\ \E d \in past : cache[l][k] \in Loading!Answers(d, l, k)
    BY <1>1, <1>3, RowsOf DEF CachesAreTrue, TrueEntry
  <2>3. /\ new \in CallRecord /\ new.loader = l /\ new.key = k /\ new.hit = TRUE
        /\ new.pc = "done" /\ new.answer = cache[l][k]
    BY <1>2, <2>2, KeysAreKeys, NewCallType DEF CallRecord
  <2>4. CallIsTrue(new)
    BY <1>3, <2>2, <2>3 DEF CallIsTrue
  <2> QED
    BY <2>1, <2>3, <2>4, QuietCallSteps
<1>4. CASE k \notin DOMAIN cache[l]
  <2> PICK new : new = [Loading!NewCall EXCEPT !.loader = l, !.key = k, !.known = given, !.hit = FALSE,
                                               !.pc = "query", !.answer = {}]
    OBVIOUS
  <2>0. (k \in DOMAIN cache[l]) = FALSE
    BY <1>4, SMT
  <2>1. call' = [call EXCEPT ![c] = new] /\ UNCHANGED <<db, past, cache>>
    BY <2>0 DEF Loading!Load
  <2>2. /\ new \in CallRecord /\ new.loader = l /\ new.key = k /\ new.hit = FALSE
        /\ new.pc = "query" /\ new.err = FALSE
    BY <1>2, KeysAreKeys, NewCallType DEF CallRecord
  <2>3. CallIsTrue(new)
    BY <2>2 DEF CallIsTrue
  <2> QED
    BY <2>1, <2>2, <2>3, QuietCallSteps
<1> QED
  BY <1>3, <1>4

\* The statement answers, or fails.
LEMMA QueryStep ==
    ASSUME LoadingInv, NEW c \in Calls, Loading!Query(c) \/ Loading!QueryFails(c)
    PROVE  LoadingInv'
<1> PICK r : r = call[c]
  OBVIOUS
<1>1. /\ r \in CallRecord /\ CallIsTrue(r) /\ r.pc = "query"
      /\ call \in [Calls -> CallRecord] /\ db \in past /\ db \in Loading!Tables
      /\ UNCHANGED <<db, past, cache>>
  BY DEF Loading!Query, Loading!QueryFails, LoadingInv, LoadingType
<1>2. /\ r.loader \in Loading!Loader /\ r.key \in Loading!Keys(r.loader) /\ r.key \in Loading!AnyKey
      /\ r.hit = FALSE /\ r.err = FALSE /\ r.known \in SUBSET (SUBSET AnyRow)
      /\ r.answer \in SUBSET AnyRow /\ r.todo \in SUBSET (Loading!Loader \X AnyRow)
  BY <1>1 DEF CallRecord, CallIsTrue
<1>3. ASSUME NEW found \in Loading!Answers(db, r.loader, r.key),
             call' = [call EXCEPT ![c].answer = found, ![c].pc = "publish",
                                  ![c].todo = Loading!Subscribers(r.loader) \X found]
      PROVE  LoadingInv'
  <2> PICK todo : todo = Loading!Subscribers(r.loader) \X found
    OBVIOUS
  <2> PICK new : new = [r EXCEPT !.answer = found, !.pc = "publish", !.todo = todo]
    OBVIOUS
  <2>2. call' = [call EXCEPT ![c] = new]
    BY <1>1, <1>3
  <2>3. found \subseteq AnyRow
    BY <1>1, <1>2, AnswerRows, RowsOf
  <2>4. todo \subseteq Loading!Loader \X AnyRow
    BY <1>2, <2>3, SubscribersAreLoaders
  <2>5. /\ new \in CallRecord /\ new.loader = r.loader /\ new.key = r.key /\ new.hit = FALSE
        /\ new.err = FALSE /\ new.pc = "publish" /\ new.answer = found /\ new.todo = todo
    BY <1>1, <1>2, <2>3, <2>4 DEF CallRecord
  <2>6. CallIsTrue(new)
    BY <1>1, <1>2, <2>5 DEF CallIsTrue
  <2> QED
    BY <1>1, <2>2, <2>5, <2>6, QuietCallSteps
<1>4. ASSUME call' = [call EXCEPT ![c].err = TRUE, ![c].pc = "done"]
      PROVE  LoadingInv'
  <2> PICK new : new = [r EXCEPT !.err = TRUE, !.pc = "done"]
    OBVIOUS
  <2>2. call' = [call EXCEPT ![c] = new]
    BY <1>1, <1>4
  <2>3. /\ new \in CallRecord /\ new.loader = r.loader /\ new.key = r.key /\ new.hit = FALSE
        /\ new.err = TRUE /\ new.pc = "done"
    BY <1>1, <1>2 DEF CallRecord
  <2>4. CallIsTrue(new)
    BY <1>2, <2>3 DEF CallIsTrue
  <2> QED
    BY <1>1, <2>2, <2>3, <2>4, QuietCallSteps
<1> QED
  BY <1>3, <1>4 DEF Loading!Query, Loading!QueryFails

\* A subscriber primes a row that its own statement selects.
LEMMA PrimeStep ==
    ASSUME LoadingInv, Loading!LowerAssumption, NEW c \in Calls, Loading!Prime(c)
    PROVE  LoadingInv'
<1> PICK r : r = call[c]
  OBVIOUS
<1>1. /\ r \in CallRecord /\ CallIsTrue(r) /\ r.pc = "publish"
      /\ call \in [Calls -> CallRecord] /\ past \subseteq Loading!Tables
      /\ DOMAIN cache = Loading!Loader /\ UNCHANGED <<db, past>>
  BY DEF Loading!Prime, LoadingInv, LoadingType
<1>2. /\ r.loader \in Loading!Loader /\ r.key \in Loading!AnyKey
      /\ r.hit = FALSE /\ r.err = FALSE /\ r.known \in SUBSET (SUBSET AnyRow)
      /\ r.answer \in SUBSET AnyRow /\ r.todo \in SUBSET (Loading!Loader \X AnyRow)
  BY <1>1 DEF CallRecord, CallIsTrue
<1>3. PICK t \in r.todo :
        /\ cache' = [cache EXCEPT ![t[1]] =
               Loading!LoadOrStore(cache[t[1]], Loading!getKeyForResult(t[1], t[2]), {t[2]})]
        /\ call' = [call EXCEPT ![c].todo = r.todo \ {t}]
  BY <1>1 DEF Loading!Prime
<1>4. PICK s \in Loading!Subscribers(r.loader), row \in r.answer : t = <<s, row>>
  BY <1>1 DEF CallIsTrue
<1> PICK k : k = Loading!getKeyForResult(s, row)
  OBVIOUS
<1>5. PICK d \in past : r.answer \in Loading!Answers(d, r.loader, r.key)
  BY <1>1 DEF CallIsTrue
<1>6. row \in Loading!Selected(d, r.loader, r.key)
  BY <1>1, <1>2, <1>5, AnswerRows
<1>7. /\ s \in Loading!Loader /\ s \in Loading!Single /\ row \in Loading!RowOf(s)
      /\ k \in Loading!Keys(s) \cup {NoName}
      /\ k \in Loading!Keys(s) => row \in Loading!Selected(d, s, k)
  BY <1>1, <1>2, <1>6, PrimedRowIsSelected DEF Loading!LowerAssumption
<1>8. TrueEntry(s, k, {row})
  BY <1>7 DEF TrueEntry, Loading!Answers
<1>9. cache' = [cache EXCEPT ![s] = Loading!LoadOrStore(cache[s], k, {row})]
  BY <1>3, <1>4
<1>10. /\ cache' = [l \in Loading!Loader |-> cache'[l]]
       /\ \A l \in Loading!Loader : cache'[l] = [x \in DOMAIN cache'[l] |-> cache'[l][x]]
       /\ \A l \in Loading!Loader : \A x \in DOMAIN cache[l] :
             x \in DOMAIN cache'[l] /\ cache'[l][x] = cache[l][x]
       /\ k \in DOMAIN cache'[s]
       /\ CachesAreTrue'
  BY <1>1, <1>7, <1>8, <1>9, CacheGrows DEF LoadingInv
<1> PICK todo : todo = r.todo \ {t}
  OBVIOUS
<1> PICK new : new = [r EXCEPT !.todo = todo]
  OBVIOUS
<1>12. call' = [call EXCEPT ![c] = new]
  BY <1>1, <1>3
<1>13. /\ new \in CallRecord /\ new.loader = r.loader /\ new.key = r.key /\ new.hit = FALSE
       /\ new.err = FALSE /\ new.pc = "publish" /\ new.answer = r.answer /\ new.todo = todo
  BY <1>1, <1>2 DEF CallRecord
<1>14. CallIsTrue(r)'
  BY <1>1, <1>10, CallStaysTrue
<1>15. CallIsTrue(new)'
  <2>1. \A l \in Loading!Subscribers(r.loader), y \in r.answer :
           \/ <<l, y>> \in todo
           \/ Loading!getKeyForResult(l, y) \in DOMAIN cache'[l]
    <3> SUFFICES ASSUME NEW l \in Loading!Subscribers(r.loader), NEW y \in r.answer,
                        <<l, y>> \notin todo
                 PROVE  Loading!getKeyForResult(l, y) \in DOMAIN cache'[l]
      OBVIOUS
    <3>1. CASE <<l, y>> = t
      BY <1>4, <1>10, <3>1
    <3>2. CASE <<l, y>> \notin r.todo
      BY <1>1, <1>14, <3>2 DEF CallIsTrue
    <3> QED
      BY <3>1, <3>2
  <2> QED
    BY <1>1, <1>13, <1>14, <2>1 DEF CallIsTrue
<1> QED
  BY <1>1, <1>10, <1>12, <1>13, <1>15, CallSteps

\* The thunk offers its answer to the cache of its own loader and returns it.
LEMMA ReturnStep ==
    ASSUME LoadingInv, NEW c \in Calls, Loading!Return(c)
    PROVE  LoadingInv'
<1> PICK r : r = call[c]
  OBVIOUS
<1>1. /\ r \in CallRecord /\ CallIsTrue(r) /\ r.pc = "publish" /\ r.todo = {}
      /\ call \in [Calls -> CallRecord] /\ past \subseteq Loading!Tables
      /\ DOMAIN cache = Loading!Loader /\ UNCHANGED <<db, past>>
      /\ cache' = [cache EXCEPT ![r.loader] = Loading!LoadOrStore(cache[r.loader], r.key, r.answer)]
      /\ call' = [call EXCEPT ![c].pc = "done"]
  BY DEF Loading!Return, LoadingInv, LoadingType
<1>2. /\ r.loader \in Loading!Loader /\ r.key \in Loading!AnyKey /\ r.key \in Loading!Keys(r.loader)
      /\ r.hit = FALSE /\ r.err = FALSE /\ r.known \in SUBSET (SUBSET AnyRow)
      /\ r.answer \in SUBSET AnyRow /\ r.todo \in SUBSET (Loading!Loader \X AnyRow)
  BY <1>1 DEF CallRecord, CallIsTrue
<1>3. PICK d \in past : r.answer \in Loading!Answers(d, r.loader, r.key)
  BY <1>1 DEF CallIsTrue
<1>4. TrueEntry(r.loader, r.key, r.answer)
  <2>1. /\ r.answer \subseteq Loading!RowOf(r.loader)
        /\ r.loader \in Loading!Single => \E row : r.answer = {row}
    <3>1. d \in Loading!Tables
      BY <1>1
    <3> PICK l : l = r.loader
      OBVIOUS
    <3> PICK k : k = r.key
      OBVIOUS
    <3> PICK v : v = r.answer
      OBVIOUS
    <3>2. l \in Loading!Loader /\ v \in Loading!Answers(d, l, k)
      BY <1>2, <1>3
    <3>3. v \subseteq Loading!RowOf(l) /\ (l \in Loading!Single => \E row : v = {row})
      BY <3>1, <3>2, AnswerRows
    <3> QED
      BY <3>3
  <2> QED
    BY <1>2, <1>3, <2>1 DEF TrueEntry
<1>5. /\ cache' = [l \in Loading!Loader |-> cache'[l]]
      /\ \A l \in Loading!Loader : cache'[l] = [x \in DOMAIN cache'[l] |-> cache'[l][x]]
      /\ \A l \in Loading!Loader : \A x \in DOMAIN cache[l] :
            x \in DOMAIN cache'[l] /\ cache'[l][x] = cache[l][x]
      /\ CachesAreTrue'
  BY <1>1, <1>2, <1>4, CacheGrows DEF LoadingInv
<1> PICK new : new = [r EXCEPT !.pc = "done"]
  OBVIOUS
<1>7. call' = [call EXCEPT ![c] = new]
  BY <1>1
<1>8. /\ new \in CallRecord /\ new.loader = r.loader /\ new.key = r.key /\ new.hit = FALSE
      /\ new.err = FALSE /\ new.pc = "done" /\ new.answer = r.answer
  BY <1>1, <1>2 DEF CallRecord
<1>9. CallIsTrue(r)'
  BY <1>1, <1>5, CallStaysTrue
<1>10. CallIsTrue(new)'
  BY <1>1, <1>8, <1>9 DEF CallIsTrue
<1> QED
  BY <1>1, <1>5, <1>7, <1>8, <1>10, CallSteps

\* A write of another request leaves well-formed tables behind.
LEMMA WriteStep ==
    ASSUME LoadingInv, NEW d \in Loading!Tables, Loading!Write(d)
    PROVE  LoadingInv'
<1>1. db' \in past' /\ past' \subseteq Loading!Tables /\ past \subseteq past' /\ UNCHANGED <<cache, call>>
  BY DEF Loading!Write, LoadingInv, LoadingType
<1>2. LoadingType'
  BY <1>1 DEF LoadingInv, LoadingType
<1>3. CachesAreTrue'
  BY <1>1, TrueEntryStays DEF LoadingInv, CachesAreTrue
<1>4. ASSUME NEW c \in Calls PROVE CallIsTrue(call[c])'
  <2> PICK r : r = call[c]
    OBVIOUS
  <2>1. r \in CallRecord /\ CallIsTrue(r)
    BY DEF LoadingInv, LoadingType
  <2>2. CallIsTrue(r)'
    BY <1>1, <2>1, CallStaysTrue
  <2> QED
    BY <1>1, <2>2 DEF CallIsTrue
<1> QED
  BY <1>2, <1>3, <1>4 DEF LoadingInv

\* What other requests write are tables.
LEMMA OtherRequests ==
    ASSUME LoadingInv,
           \/ \E u \in Loading!LiveUsers(db) :
                 (\E n \in Names : Loading!UpdateUsername(u, n)) \/ Loading!DeleteUser(u)
           \/ \E w \in Loading!LiveWallets(db) : Loading!RemoveWallet(w)
           \/ \E s \in db.splits : Loading!UpdateSplitInfo(s)
    PROVE  LoadingInv'
<1>1. /\ db \in Loading!Tables /\ db.users \subseteq Loading!UserRow
      /\ db.wallets \subseteq Loading!WalletRow /\ db.splits \subseteq Loading!SplitRow
  BY DEF LoadingInv, LoadingType, Loading!Tables
<1>2. ASSUME NEW u \in Loading!UserRow, NEW new \in Loading!UserRow
      PROVE  Loading!ReplaceUser(u, new) \in Loading!Tables
  BY <1>1 DEF Loading!ReplaceUser, Loading!Tables
<1>3. ASSUME NEW u \in Loading!LiveUsers(db), NEW n \in Names, Loading!UpdateUsername(u, n)
      PROVE  LoadingInv'
  <2>1. u \in Loading!UserRow
    BY <1>1 DEF Loading!LiveUsers
  <2>2. [u EXCEPT !.username = n] \in Loading!UserRow
    BY <2>1 DEF Loading!UserRow
  <2> QED
    BY <1>2, <1>3, <2>1, <2>2, WriteStep DEF Loading!UpdateUsername
<1>4. ASSUME NEW u \in Loading!LiveUsers(db), Loading!DeleteUser(u)
      PROVE  LoadingInv'
  <2>1. u \in Loading!UserRow
    BY <1>1 DEF Loading!LiveUsers
  <2>2. [u EXCEPT !.deleted = TRUE] \in Loading!UserRow
    BY <2>1 DEF Loading!UserRow
  <2> QED
    BY <1>2, <1>4, <2>1, <2>2, WriteStep DEF Loading!DeleteUser
<1>5. ASSUME NEW w \in Loading!LiveWallets(db), Loading!RemoveWallet(w)
      PROVE  LoadingInv'
  <2>1. w \in Loading!WalletRow
    BY <1>1 DEF Loading!LiveWallets
  <2>2. [w EXCEPT !.deleted = TRUE] \in Loading!WalletRow
    BY <2>1 DEF Loading!WalletRow
  <2> PICK users : users = {[u EXCEPT !.wallets = u.wallets \ {w.id}] : u \in db.users}
    OBVIOUS
  <2>3. ASSUME NEW u \in Loading!UserRow
        PROVE  [u EXCEPT !.wallets = u.wallets \ {w.id}] \in Loading!UserRow
    BY DEF Loading!UserRow
  <2>4. users \subseteq Loading!UserRow
    BY <1>1, <2>3
  <2> PICK wallets : wallets = (db.wallets \ {w}) \cup {[w EXCEPT !.deleted = TRUE]}
    OBVIOUS
  <2>5. wallets \subseteq Loading!WalletRow
    BY <1>1, <2>2
  <2>6. [db EXCEPT !.users = users, !.wallets = wallets] \in Loading!Tables
    BY <1>1, <2>4, <2>5 DEF Loading!Tables
  <2> QED
    BY <1>5, <2>6, WriteStep DEF Loading!RemoveWallet
<1>6. ASSUME NEW s \in db.splits, Loading!UpdateSplitInfo(s)
      PROVE  LoadingInv'
  <2>1. [s EXCEPT !.edited = TRUE] \in Loading!SplitRow
    BY <1>1 DEF Loading!SplitRow
  <2>2. [db EXCEPT !.splits = (db.splits \ {s}) \cup {[s EXCEPT !.edited = TRUE]}] \in Loading!Tables
    BY <1>1, <2>1 DEF Loading!Tables
  <2> QED
    BY <1>6, <2>2, WriteStep DEF Loading!UpdateSplitInfo
<1> QED
  BY <1>3, <1>4, <1>5, <1>6

\* The invariant in every reachable state.
THEOREM LoadersInvariant ==
    ASSUME Loading!LowerAssumption, Loading!TablesAssumption
    PROVE  Loading!Spec => []LoadingInv
<1>1. LoadingInv /\ [Loading!Next]_Loading!vars => LoadingInv'
  <2>1. LoadingInv /\ UNCHANGED Loading!vars => LoadingInv'
    <3> SUFFICES ASSUME LoadingInv, UNCHANGED <<db, past, cache, call>> PROVE LoadingInv'
      BY DEF Loading!vars
    <3>1. LoadingType'
      BY DEF LoadingInv, LoadingType
    <3>2. CachesAreTrue'
      BY DEF LoadingInv, CachesAreTrue, TrueEntry
    <3>3. (\A c \in Calls : CallIsTrue(call[c]))'
      BY DEF LoadingInv, CallIsTrue
    <3> QED
      BY <3>1, <3>2, <3>3 DEF LoadingInv
  <2> QED
    BY <2>1, LoadStep, QueryStep, PrimeStep, ReturnStep, OtherRequests DEF Loading!Next
<1> QED
  BY LoadingInvInit, <1>1, PTL DEF Loading!Spec

\* Whatever a loader answers was in the tables at some time since the request
\* began, under the key that was asked for, although other loaders primed it.
THEOREM AnswersAreTrue ==
    ASSUME Loading!LowerAssumption, Loading!TablesAssumption
    PROVE  Loading!Spec => []AnswersWereTrue
<1>1. \A S : Loading!Cardinality(S) = Cardinality(S)
  BY Zenon DEF Cardinality, Loading!Cardinality
<1>2. LoadingInv => Loading!AnswersWereTrue
  BY DEF LoadingInv, CallIsTrue, Loading!AnswersWereTrue
<1>3. LoadingInv => Loading!TypeOK
  <2> SUFFICES ASSUME LoadingInv PROVE Loading!TypeOK
    OBVIOUS
  <2>1. db \in past /\ \A d \in past : /\ d.users \subseteq Loading!UserRow
                                      /\ d.wallets \subseteq Loading!WalletRow
                                      /\ d.splits \subseteq Loading!SplitRow
    BY DEF LoadingInv, LoadingType, Loading!Tables
  <2>2. ASSUME NEW l \in Loading!Loader, NEW k \in DOMAIN cache[l]
        PROVE  /\ k \in Loading!Keys(l) \cup {NoName}
               /\ cache[l][k] \subseteq Loading!RowOf(l)
               /\ l \in Loading!Single => Loading!Cardinality(cache[l][k]) = 1
    <3>1. TrueEntry(l, k, cache[l][k])
      BY DEF LoadingInv, CachesAreTrue
    <3> QED
      BY <1>1, <3>1, FS_Singleton DEF TrueEntry
  <2>3. \A c \in Calls : /\ call[c].pc \in {"new", "query", "publish", "done"}
                          /\ call[c].loader \in Loading!Loader
                          /\ call[c].key \in Loading!AnyKey
                          /\ call[c].err \in BOOLEAN /\ call[c].hit \in BOOLEAN
    BY DEF LoadingInv, LoadingType, CallRecord
  <2> QED
    BY <2>1, <2>2, <2>3 DEF Loading!TypeOK
<1>4. LoadingInv => AnswersWereTrue
  BY <1>2, <1>3 DEF AnswersWereTrue
<1> QED
  BY <1>4, LoadersInvariant, PTL

\* A result that the loader gave stays in its cache and is never replaced, and it
\* is in the caches of the loaders that subscribed before the call returns.
THEOREM CachedResultsStay ==
    ASSUME Loading!LowerAssumption, Loading!TablesAssumption
    PROVE  Loading!Spec => []HitsStayCached
<1>1. LoadingInv => HitsStayCached
  BY DEF HitsStayCached, LoadingInv, CallIsTrue, Loading!HitsStayCached, Loading!PrimedBeforeReturn
<1> QED
  BY <1>1, LoadersInvariant, PTL

----------------------------------------------------------------------------
(* The loaders of mutations                                                *)

\* The loaders the gin context keeps never cache, and only the newAPI of a
\* mutation that has ended or has fields running points to caching ones.
MutationLoaders ==
    /\ own <= version
    /\ cells[0] \in {-1, 0}
    /\ ~loaders[0].caching
    /\ pc = "resolver" => api = m /\ cells[m] = 0

\* Where no fields run there is nothing read or known.
MutationFields ==
    /\ pc # "children" => child = [f \in Field |-> "idle"] /\ value = [f \in Field |-> -1]
    /\ pc # "resolver" => read = -1
    /\ \A f \in Field : child[f] \in {"idle", "fetch"} => value[f] = -1
    /\ \A f \in Field : child[f] \in {"return", "done"} => value[f] # -1

\* The fields of mutation m read through loaders of their own that cache, hold
\* nothing older than the request's writes, and nothing at all before a field is
\* done: a field that missed knew nothing.
MutationChildren ==
    pc = "children" =>
        /\ api = m /\ cells[m] = m
        /\ loaders[m].caching
        /\ loaders[m].row # -1 => loaders[m].row >= own
        /\ loaders[m].row = -1 => \A f \in Field : child[f] # "done"
        /\ \A f \in Field : child[f] \in {"fetch", "return"} => known[f] = -1
        /\ \A f \in Field : child[f] = "done" /\ known[f] # -1 => value[f] = known[f]

\* The inductive invariant of MutationCaching.
MutationInv ==
    /\ Mutations!TypeOK /\ Mutations!ReadsOwnWrites
    /\ MutationLoaders /\ MutationFields /\ MutationChildren

\* It holds before the first mutation.
LEMMA MutationInvInit == Mutations!CachingAssumption /\ Mutations!Init => MutationInv
BY DEF Mutations!Init, MutationInv, Mutations!TypeOK, Mutations!ReadsOwnWrites,
       MutationLoaders, MutationFields, MutationChildren, Mutations!CachingAssumption,
       Mutations!Version, Mutations!Cell, Mutations!LoadersID, Mutations!None, Mutations!NewLoaders

\* The steps of a mutation.
LEMMA MutationInvResolver ==
    ASSUME Mutations!CachingAssumption, MutationInv,
           \/ Mutations!Begin \/ Mutations!MutationRead \/ Mutations!MutationWrite
           \/ Mutations!OtherWrite \/ Mutations!Finish
           \/ Mutations!FinishWithoutFields \/ Mutations!Panic
    PROVE  MutationInv'
<1> USE DEF MutationInv, Mutations!TypeOK, Mutations!ReadsOwnWrites, MutationLoaders,
       MutationFields, MutationChildren, Mutations!CachingAssumption, Mutations!Version,
       Mutations!Cell, Mutations!LoadersID, Mutations!None, Mutations!NewLoaders
<1>1. CASE Mutations!Begin
  <2>1. cells' = [cells EXCEPT ![0] = 0, ![m] = 0]
    BY <1>1 DEF Mutations!Begin
  <2>2. /\ cells'[m] = 0 /\ cells'[0] = 0
        /\ cells' \in [0..MaxMutations -> 0..MaxMutations \cup {-1}]
    BY <2>1
  <2>3. loaders' = [loaders EXCEPT ![0] = [caching |-> FALSE, row |-> -1]] \/ loaders' = loaders
    BY <1>1 DEF Mutations!Begin
  <2>4. /\ loaders' \in [0..MaxMutations -> [caching : BOOLEAN, row : 0..MaxVersion \cup {-1}]]
        /\ ~loaders'[0].caching
    <3>1. CASE loaders' = [loaders EXCEPT ![0] = [caching |-> FALSE, row |-> -1]]
      <4>1. [caching |-> FALSE, row |-> -1] \in [caching : BOOLEAN, row : 0..MaxVersion \cup {-1}]
        OBVIOUS
      <4> QED
        BY <3>1, <4>1
    <3> QED
      BY <2>3, <3>1
  <2>5. api' = m /\ pc' = "resolver" /\ UNCHANGED <<version, own, m, read, child, value, known>>
    BY <1>1 DEF Mutations!Begin
  <2>6. child = [f \in Field |-> "idle"] /\ value = [f \in Field |-> -1] /\ read = -1
    BY <1>1 DEF Mutations!Begin
  <2>7. Mutations!TypeOK'
    BY <2>2, <2>4, <2>5
  <2>8. (Mutations!ReadsOwnWrites /\ MutationLoaders /\ MutationFields /\ MutationChildren)'
    BY <2>2, <2>4, <2>5, <2>6
  <2> QED
    BY <2>7, <2>8
<1>2. CASE Mutations!MutationRead
  BY <1>2 DEF Mutations!MutationRead, Mutations!For, Mutations!Cached, Mutations!Stored
<1>3. CASE Mutations!MutationWrite
  BY <1>3 DEF Mutations!MutationWrite
<1>4. CASE Mutations!OtherWrite
  BY <1>4 DEF Mutations!OtherWrite
<1>5. CASE Mutations!Finish
  BY <1>5 DEF Mutations!Finish, Mutations!WithCaching
<1>6. CASE Mutations!FinishWithoutFields
  BY <1>6 DEF Mutations!FinishWithoutFields, Mutations!WithCaching, Mutations!NextMutation
<1>7. CASE Mutations!Panic
  BY <1>7 DEF Mutations!Panic, Mutations!NextMutation
<1> QED
  BY <1>1, <1>2, <1>3, <1>4, <1>5, <1>6, <1>7

\* The steps of the fields below it.
LEMMA MutationInvFields ==
    ASSUME Mutations!CachingAssumption, MutationInv,
           \/ Mutations!BatchFetch \/ Mutations!ChildrenDone
           \/ \E f \in Field : \/ Mutations!ChildHit(f) \/ Mutations!ChildMiss(f)
                               \/ Mutations!ChildReturn(f)
    PROVE  MutationInv'
<1> USE DEF MutationInv, Mutations!TypeOK, Mutations!ReadsOwnWrites, MutationLoaders,
       MutationFields, MutationChildren, Mutations!CachingAssumption, Mutations!Version,
       Mutations!Cell, Mutations!LoadersID, Mutations!None
<1>1. CASE Mutations!BatchFetch
  BY <1>1 DEF Mutations!BatchFetch
<1>2. CASE Mutations!ChildrenDone
  BY <1>2 DEF Mutations!ChildrenDone, Mutations!NextMutation, Mutations!IdleChildren
<1>3. ASSUME NEW f \in Field, Mutations!ChildHit(f)
      PROVE  MutationInv'
  BY <1>3 DEF Mutations!ChildHit, Mutations!For, Mutations!Cached
<1>4. ASSUME NEW f \in Field, Mutations!ChildMiss(f)
      PROVE  MutationInv'
  <2>1. Mutations!Given = {}
    BY <1>4 DEF Mutations!ChildMiss, Mutations!For, Mutations!Cached, Mutations!Given
  <2> QED
    BY <1>4, <2>1 DEF Mutations!ChildMiss, Mutations!For, Mutations!Cached
<1>5. ASSUME NEW f \in Field, Mutations!ChildReturn(f)
      PROVE  MutationInv'
  BY <1>5 DEF Mutations!ChildReturn, Mutations!For, Mutations!Stored
<1> QED
  BY <1>1, <1>2, <1>3, <1>4, <1>5

\* A resolver of a request reads nothing older than what the request's own mutations
\* have written, and the fields under one mutation share one cache: each that finds
\* a row there gets that row.
THEOREM RequestsReadTheirWrites ==
    ASSUME Mutations!CachingAssumption
    PROVE  Mutations!Spec => []ReadsOwnWrites
<1>1. MutationInv /\ [Mutations!Next]_Mutations!vars => MutationInv'
  <2>1. MutationInv /\ UNCHANGED Mutations!vars => MutationInv'
    BY DEF MutationInv, Mutations!TypeOK, Mutations!ReadsOwnWrites, MutationLoaders,
           MutationFields, MutationChildren, Mutations!vars
  <2> QED
    BY <2>1, MutationInvResolver, MutationInvFields DEF Mutations!Next
<1>2. MutationInv => ReadsOwnWrites
  BY DEF ReadsOwnWrites, MutationInv, MutationChildren, MutationFields, Mutations!FieldsShareCache, Mutations!None
<1> QED
  BY MutationInvInit, <1>1, <1>2, PTL DEF Mutations!Spec

----------------------------------------------------------------------------
(* Reading a URI                                                           *)

\* The states of the goroutines of one call.
UriType ==
    /\ kind \in Uri!Kind
    /\ run \in [Gateway -> {"off", "running", "sendVal", "ended"}]

\* Who is where: the race is on only while the worker waits for it, the caller
\* has a reader only when the worker is done, and an answer only at the end.
UriPlaces ==
    /\ race = "select" => worker = "race" /\ kind \in {"ipfs", "ipfsAPI", "ipfsGateway"}
    /\ caller \in {"headers", "copy"} => worker = "ended"
    /\ answer = "error" => caller = "returned"
    /\ worker = "http" => kind \in {"http", "ipfsGateway"}

\* A gateway that has ended in a race that is still open has failed, and the
\* pool is done only when all have ended.
UriRace ==
    /\ waiter # "off" => \A g \in Gateway : run[g] # "off"
    /\ waiter = "sendErr" => \A g \in Gateway : run[g] = "ended"
    /\ race = "select" => \A g \in Gateway : run[g] = "ended" => g \in failed

\* Whoever is about to report a failure, or to fall back, comes after all others,
\* unless the context has ended.
UriFailed ==
    /\ ctx = "live" => raceCtx = "live"
    /\ ctx = "live" /\ worker = "http" /\ kind = "ipfsGateway" => Gateway \subseteq failed
    /\ ctx = "live" /\ worker = "sendErr" => Uri!Sources \subseteq failed
    /\ ctx = "live" /\ answer = "error" => Uri!Sources \subseteq failed

\* The inductive invariant of UriReader.
UriInv == UriType /\ UriPlaces /\ UriRace /\ UriFailed

\* The invariant holds initially.
LEMMA UriInvInit == Uri!Init => UriInv
BY DEF Uri!Init, UriInv, UriType, UriPlaces, UriRace, UriFailed, Uri!Kind, Uri!Sources

\* The steps of the race.
LEMMA UriInvRace ==
    ASSUME UriInv,
           \/ Uri!StartRace \/ Uri!PoolDone \/ Uri!TakePoolError \/ Uri!TakeContextError
           \/ \E g \in Gateway : Uri!GatewayAnswers(g) \/ Uri!TakeValue(g)
    PROVE  UriInv'
<1> USE DEF UriInv, UriType, UriPlaces, UriRace, UriFailed, Uri!Kind, Uri!Sources
<1>1. CASE Uri!StartRace
  BY <1>1 DEF Uri!StartRace
<1>2. CASE Uri!PoolDone
  BY <1>2 DEF Uri!PoolDone, Uri!waits
<1>3. CASE Uri!TakePoolError
  BY <1>3 DEF Uri!TakePoolError, Uri!RaceReturns, Uri!afterFailure, Uri!autoCancel
<1>4. CASE Uri!TakeContextError
  BY <1>4 DEF Uri!TakeContextError, Uri!RaceReturns, Uri!afterFailure, Uri!autoCancel
<1>5. ASSUME NEW g \in Gateway, Uri!GatewayAnswers(g)
      PROVE  UriInv'
  BY <1>5 DEF Uri!GatewayAnswers
<1>6. ASSUME NEW g \in Gateway, Uri!TakeValue(g)
      PROVE  UriInv'
  BY <1>6 DEF Uri!TakeValue, Uri!RaceReturns, Uri!autoCancel
<1> QED
  BY <1>1, <1>2, <1>3, <1>4, <1>5, <1>6

\* The steps of the worker and of its caller.
LEMMA UriInvCaller ==
    ASSUME UriInv,
           \/ Uri!Cancel \/ Uri!StartInline \/ Uri!ParseFails \/ Uri!StartHTTP \/ Uri!HTTPAnswers
           \/ Uri!Caller \/ Uri!Timeout
    PROVE  UriInv'
<1> USE DEF UriInv, UriType, UriPlaces, UriRace, UriFailed, Uri!Kind, Uri!Sources
<1>1. CASE Uri!Cancel
  BY <1>1 DEF Uri!Cancel
<1>2. CASE Uri!StartInline
  BY <1>2 DEF Uri!StartInline
<1>11. CASE Uri!ParseFails
  BY <1>11 DEF Uri!ParseFails
<1>3. CASE Uri!StartHTTP
  BY <1>3 DEF Uri!StartHTTP
<1>4. CASE Uri!HTTPAnswers
  BY <1>4 DEF Uri!HTTPAnswers
<1>5. CASE Uri!ReceiveError
  BY <1>5 DEF Uri!ReceiveError, Uri!Returns
<1>6. CASE Uri!ReceiveReader
  BY <1>6 DEF Uri!ReceiveReader
<1>7. CASE Uri!ContextDone
  BY <1>7 DEF Uri!ContextDone, Uri!Returns
<1>8. CASE Uri!Headers
  BY <1>8 DEF Uri!Headers, Uri!Returns
<1>9. CASE Uri!Copy
  BY <1>9 DEF Uri!Copy, Uri!Returns
<1>10. CASE Uri!Timeout
  BY <1>10 DEF Uri!Timeout, Uri!Returns
<1> QED
  BY <1>1, <1>2, <1>3, <1>4, <1>5, <1>6, <1>7, <1>8, <1>9, <1>10, <1>11 DEF Uri!Caller

\* GetDataFromURIAsReader reports an error of the data's sources only when every
\* gateway and the URI itself have failed, and a reader it returns is on a live
\* context, for any number of gateways and any interleaving of their answers.
THEOREM GoodAnswersWin == Uri!Spec => []GoodAnswerWins
<1>1. UriInv /\ [Uri!Next]_Uri!vars => UriInv'
  <2>1. UriInv /\ UNCHANGED Uri!vars => UriInv'
    BY DEF UriInv, UriType, UriPlaces, UriRace, UriFailed, Uri!Kind, Uri!Sources, Uri!vars
  <2> QED
    BY <2>1, UriInvRace, UriInvCaller DEF Uri!Next
<1>2. UriInv => GoodAnswerWins
  BY DEF GoodAnswerWins, UriInv, UriFailed, Uri!GoodAnswerWins, Uri!ErrorMeansAllFailed, Uri!ReaderIsAlive
<1> QED
  BY UriInvInit, <1>1, <1>2, PTL DEF Uri!Spec
=============================================================================
