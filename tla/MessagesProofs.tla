--------------------------- MODULE MessagesProofs ---------------------------
(***************************************************************************)
(* Proofs about what the system sends to people: the notifications of      *)
(* views (Notifications) and their delivery (Subscriptions), the devices   *)
(* that are registered for them (PushTokens), and emails: how an address   *)
(* is verified (EmailVerification), the unsubscriptions (Unsubscriptions), *)
(* the job that mails digests (Digest) and one of its mails (DigestMail).  *)
(*                                                                         *)
(* Each model is an instance of its own; none refers to the variables of   *)
(* another.                                                                *)
(***************************************************************************)
EXTENDS MCMessages, Integers, FiniteSetTheorems, TLAPS

----------------------------------------------------------------------------
(* Numbers                                                                 *)

\* A nonempty set of numbers up to N has a largest element (because the smaller-than
\* relation on the naturals is well-founded: the element with the least distance to N).
LEMMA LargestExists ==
    ASSUME NEW N \in Nat, NEW S \in SUBSET (1..N), S # {}
    PROVE  \E v \in S : \A w \in S : w <= v
<1> DEFINE T == {n \in Nat : \E v \in S : n = N - v}
           R == {ss \in Nat \X Nat : ss[1] < ss[2]}
<1>1. T \in SUBSET Nat /\ T # {}
  <2>1. PICK v \in S : TRUE
    OBVIOUS
  <2>2. N - v \in T
    BY <2>1
  <2> QED
    BY <2>2
<1>2. IsWellFoundedOn(R, Nat)
  BY NatLessThanWellFounded, Zenon DEF OpToRel
<1>3. PICK n \in T : \A m \in T : ~(<<m, n>> \in R)
  <2> HIDE DEF T, R
  <2> QED
    BY <1>1, <1>2, WFMin
<1>4. \A m \in T : n <= m
  <2> SUFFICES ASSUME NEW m \in T, m < n PROVE FALSE
    BY <1>1
  <2>1. <<m, n>> \in Nat \X Nat /\ <<m, n>>[1] < <<m, n>>[2]
    BY <1>1
  <2>2. <<m, n>> \in R
    BY <2>1
  <2> HIDE DEF R
  <2> QED
    BY <1>3, <2>2
<1>5. PICK v \in S : n = N - v
  OBVIOUS
<1>6. ASSUME NEW w \in S PROVE w <= v
  <2>1. N - w \in T
    OBVIOUS
  <2> QED
    BY <1>4, <1>5, <2>1
<1> QED
  BY <1>6

\* It has a least element too.
LEMMA LeastExists ==
    ASSUME NEW N \in Nat, NEW S \in SUBSET (1..N), S # {}
    PROVE  \E v \in S : \A w \in S : v <= w
<1> DEFINE T == {n \in 1..N : N + 1 - n \in S}
<1>1. T # {}
  <2>1. PICK v \in S : TRUE
    OBVIOUS
  <2>2. N + 1 - v \in T
    BY <2>1
  <2> QED
    BY <2>2
<1>2. PICK n \in T : \A m \in T : m <= n
  BY <1>1, LargestExists
<1>3. ASSUME NEW w \in S PROVE N + 1 - n <= w
  <2>1. N + 1 - w \in T
    OBVIOUS
  <2> QED
    BY <1>2, <2>1
<1> QED
  BY <1>2, <1>3

\* What \div computes.
LEMMA Quotient ==
    ASSUME NEW c \in Nat, NEW D \in Nat \ {0}
    PROVE  c \div D \in Nat /\ \E r \in 0..(D - 1) : c = (c \div D) * D + r
  OBVIOUS

----------------------------------------------------------------------------
(* The notifications of views                                              *)

\* The instance's own copy of the FiniteSets module counts as ours does.
LEMMA ViewsCount == \A S : Views!Cardinality(S) = Cardinality(S)
  BY Zenon DEF Cardinality, Views!Cardinality

\* A set of viewers, logged in or not.
ViewerSet == {S \in SUBSET (User \cup External) : IsFiniteSet(S)}

\* A function from rows to the viewers they had.
Read == UNION {[D -> ViewerSet] : D \in SUBSET Nat}

\* What a goroutine keeps.
LocalRow == [in : Views!Input, rows : Read, read : BOOLEAN]

\* What it means to have been read.
LEMMA ReadFunctions ==
    /\ \A D \in SUBSET Nat : \A f \in [D -> ViewerSet] : f \in Read
    /\ \A f \in Read : f \in [DOMAIN f -> ViewerSet] /\ DOMAIN f \in SUBSET Nat
  BY DEF Read

\* The types, and that whoever is notified of a view has a viewer to add.
ViewsOK ==
    /\ now \in 0..MaxTime /\ events \subseteq Event /\ notifs \in Seq(Views!Row)
    /\ lock \in Event \cup {Nobody} /\ pc \in [Event -> Views!Stage] /\ local \in [Event -> LocalRow]
    /\ \A e \in Event : DOMAIN local[e].rows \subseteq 1..Len(notifs)
    /\ \A e \in Event : pc[e] \in {"obtain", "query", "write", "release"} => local[e].in.actor \in User
    /\ \A i \in 1..Len(notifs) : notifs[i].viewers \in ViewerSet
    /\ orderly \subseteq 1..Len(notifs) /\ lapsed \in BOOLEAN
    /\ Views!AmountIsViewers

\* It holds before any event.
LEMMA ViewsInit == ASSUME Views!TimeAssumption, Views!Init PROVE ViewsOK
<1>1. Views!NewLocal \in LocalRow /\ DOMAIN Views!NewLocal.rows = {}
  <2>1. [i \in {} |-> {}] \in [{} -> ViewerSet] /\ DOMAIN [i \in {} |-> {}] = {}
    OBVIOUS
  <2>2. [i \in {} |-> {}] \in Read
    BY <2>1, ReadFunctions
  <2>3. Views!NoInput \in Views!Input
    BY DEF Views!Input, Views!NoInput, Views!Action
  <2> QED
    BY <2>1, <2>2, <2>3 DEF Views!NewLocal, LocalRow
<1>2. /\ now = StartTime /\ events = {} /\ notifs = <<>> /\ lock = Nobody /\ pc = [e \in Event |-> "idle"]
      /\ local = [e \in Event |-> Views!NewLocal] /\ orderly = {} /\ lapsed = FALSE
  BY DEF Views!Init
<1>3. notifs \in Seq(Views!Row) /\ Len(notifs) = 0
  BY <1>2
<1>4. Views!AmountIsViewers
  BY <1>3 DEF Views!AmountIsViewers
<1>5. now \in 0..MaxTime
  BY <1>2 DEF Views!TimeAssumption
<1>6. pc \in [Event -> Views!Stage] /\ \A e \in Event : pc[e] = "idle"
  BY <1>2 DEF Views!Stage
<1> HIDE DEF Views!NewLocal
<1>7. local \in [Event -> LocalRow] /\ \A e \in Event : DOMAIN local[e].rows \subseteq 1..Len(notifs)
  BY <1>1, <1>2
<1>8. /\ events \subseteq Event /\ lock \in Event \cup {Nobody} /\ orderly \subseteq 1..Len(notifs)
      /\ lapsed \in BOOLEAN
  BY <1>2
<1>9. \A i \in 1..Len(notifs) : notifs[i].viewers \in ViewerSet
  BY <1>3
<1> QED
  BY <1>3, <1>4, <1>5, <1>6, <1>7, <1>8, <1>9 DEF ViewsOK

\* The youngest row is one of those that were read.
LEMMA Recent ==
    ASSUME ViewsOK, NEW e \in Event, DOMAIN local[e].rows # {}
    PROVE  /\ Views!MostRecent(e) \in DOMAIN local[e].rows
           /\ \A j \in DOMAIN local[e].rows : j <= Views!MostRecent(e)
<1>1. DOMAIN local[e].rows \in SUBSET (1..Len(notifs)) /\ Len(notifs) \in Nat
  BY DEF ViewsOK
<1>2. \E i \in DOMAIN local[e].rows : \A j \in DOMAIN local[e].rows : j <= i
  BY <1>1, LargestExists
<1> QED
  BY <1>2 DEF Views!MostRecent

\* The viewers that an event adds: its own, but for those that a row that was read has.
LEMMA Adds ==
    ASSUME ViewsOK, NEW e \in Event, local[e].in.actor \in User
    PROVE  /\ Views!NewViewers(e) \in ViewerSet
           /\ \A i \in DOMAIN local[e].rows : Views!NewViewers(e) \cap local[e].rows[i] = {}
<1> DEFINE own == {local[e].in.actor, local[e].in.external} \ {Nobody}
<1>1. Views!NewViewers(e) \subseteq own
      /\ \A i \in DOMAIN local[e].rows : Views!NewViewers(e) \cap local[e].rows[i] = {}
  BY DEF Views!NewViewers
<1>2. local[e].in.external \in External \cup {Nobody}
  <2>1. local[e].in \in Views!Input
    BY DEF ViewsOK, LocalRow
  <2> QED
    BY <2>1 DEF Views!Input
<1>3. own \subseteq User \cup External
  BY <1>2
<1>4. IsFiniteSet(Views!NewViewers(e))
  <2>1. PICK a, b : a = local[e].in.actor /\ b = local[e].in.external
    OBVIOUS
  <2>2. IsFiniteSet({a}) /\ IsFiniteSet({b})
    BY FS_Singleton
  <2>3. IsFiniteSet({a} \cup {b}) /\ Views!NewViewers(e) \subseteq {a} \cup {b}
    BY <1>1, <2>1, <2>2, FS_Union
  <2> QED
    BY <2>3, FS_Subset
<1> QED
  BY <1>1, <1>3, <1>4 DEF ViewerSet

\* What Insert appends.
LEMMA Inserts ==
    ASSUME ViewsOK, Views!TimeAssumption, NEW e \in Event, Views!Insert(e)
    PROVE  /\ pc[e] = "write" /\ local[e].in.actor \in User /\ ~Views!grouped(e)
           /\ \E w \in Views!Row : /\ notifs' = Append(notifs, w) /\ w.createdAt = now /\ w.amount = 1
                                   /\ w.viewers = Views!NewViewers(e) /\ w.viewers \in ViewerSet
                                   /\ w.eventIds = {e}
<1>1. pc[e] = "write" /\ local[e].in.actor \in User /\ ~Views!grouped(e)
  BY DEF Views!Insert, ViewsOK
<1>2. Views!NewViewers(e) \in ViewerSet /\ Views!NewViewers(e) \subseteq User \cup External
  BY <1>1, Adds DEF ViewerSet
<1> DEFINE w == [createdAt |-> now, viewers |-> Views!NewViewers(e), eventIds |-> {e}, amount |-> 1, seen |-> FALSE]
<1>3. now \in Nat
  BY DEF ViewsOK, Views!TimeAssumption
<1>4. w \in Views!Row /\ w.createdAt = now /\ w.amount = 1 /\ w.viewers = Views!NewViewers(e)
      /\ w.eventIds = {e}
  BY <1>2, <1>3 DEF Views!Row
<1>5. notifs' = Append(notifs, w)
  BY DEF Views!Insert
<1> HIDE DEF w
<1> QED
  BY <1>1, <1>2, <1>4, <1>5

\* What Update writes.
LEMMA Updates ==
    ASSUME ViewsOK, NEW e \in Event, Views!Update(e)
    PROVE  /\ pc[e] = "write" /\ local[e].in.actor \in User
           /\ \/ notifs' = notifs
              \/ /\ DOMAIN local[e].rows # {} /\ Views!grouped(e)
                 /\ \E i \in DOMAIN local[e].rows, w \in Views!Row :
                      /\ i = Views!MostRecent(e)
                      /\ notifs' = [notifs EXCEPT ![i] = w] /\ w.createdAt = notifs[i].createdAt
                      /\ w.viewers = local[e].rows[i] \cup Views!NewViewers(e)
                      /\ w.viewers \in ViewerSet /\ w.amount = Cardinality(w.viewers)
<1>1. /\ pc[e] = "write" /\ local[e].in.actor \in User /\ DOMAIN local[e].rows # {}
      /\ Views!grouped(e)
  BY DEF Views!Update, ViewsOK, Views!grouped
<1>2. PICK i \in DOMAIN local[e].rows : i = Views!MostRecent(e)
  BY <1>1, Recent
<1>3. PICK V : V = local[e].rows[i] \cup Views!NewViewers(e)
  OBVIOUS
<1>4. V \in ViewerSet /\ Cardinality(V) \in Nat
  <2>1. local[e].rows \in Read
    BY DEF ViewsOK, LocalRow
  <2>2. local[e].rows[i] \in ViewerSet /\ Views!NewViewers(e) \in ViewerSet
    BY <1>1, <2>1, ReadFunctions, Adds
  <2>3. V \subseteq User \cup External /\ IsFiniteSet(V)
    BY <1>3, <2>2, FS_Union DEF ViewerSet
  <2> QED
    BY <2>3, FS_CardinalityType DEF ViewerSet
<1>5. PICK w : w = [notifs[i] EXCEPT !.viewers = V, !.eventIds = notifs[i].eventIds \cup {e},
                                     !.amount = Cardinality(V), !.seen = FALSE]
  OBVIOUS
<1>6. notifs[i] \in Views!Row /\ i \in DOMAIN notifs
  BY DEF ViewsOK
<1>7. w \in Views!Row /\ w.createdAt = notifs[i].createdAt /\ w.viewers = V /\ w.amount = Cardinality(V)
  BY <1>4, <1>5, <1>6 DEF Views!Row, ViewerSet
<1>8. notifs' = notifs \/ notifs' = [notifs EXCEPT ![i] = w]
  <2>1. \/ notifs' = notifs
        \/ notifs' = [notifs EXCEPT ![i].viewers = V, ![i].eventIds = notifs[i].eventIds \cup {e},
                                    ![i].amount = Cardinality(V), ![i].seen = FALSE]
    BY <1>2, <1>3, <1>6, ViewsCount DEF Views!Update, Views!amount
  <2> QED
    BY <1>5, <1>6, <2>1
<1>9. w.viewers \in ViewerSet /\ w.viewers = local[e].rows[i] \cup Views!NewViewers(e)
  BY <1>3, <1>4, <1>7
<1>10. CASE notifs' = notifs
  BY <1>1, <1>10
<1>11. CASE notifs' = [notifs EXCEPT ![i] = w]
  BY <1>1, <1>2, <1>3, <1>7, <1>9, <1>11
<1> QED
  BY <1>8, <1>10, <1>11

\* A goroutine moves on and leaves the rest alone, but for the lock.
LEMMA ViewsMoves ==
    ASSUME ViewsOK, NEW e \in Event, NEW stg \in Views!Stage, Views!Goto(e, stg),
           UNCHANGED <<now, notifs, local, orderly>>, events' \subseteq Event,
           lock' \in Event \cup {Nobody}, lapsed' \in BOOLEAN,
           stg \in {"obtain", "query", "write", "release"} => local[e].in.actor \in User
    PROVE  ViewsOK'
<1>1. pc' \in [Event -> Views!Stage] /\ pc'[e] = stg /\ \A d \in Event \ {e} : pc'[d] = pc[d]
  BY DEF Views!Goto, ViewsOK
<1> QED
  BY <1>1 DEF ViewsOK, Views!AmountIsViewers

\* Every step keeps it.
LEMMA ViewsStep ==
    ASSUME Views!TimeAssumption, Views!NamesAssumption, ViewsOK, [Views!Next]_Views!vars
    PROVE  ViewsOK'
<1>0. /\ now \in 0..MaxTime /\ MaxTime \in Nat /\ now \in Nat /\ events \subseteq Event /\ notifs \in Seq(Views!Row)
      /\ Len(notifs) \in Nat /\ lock \in Event \cup {Nobody} /\ pc \in [Event -> Views!Stage]
      /\ local \in [Event -> LocalRow] /\ lapsed \in BOOLEAN
  BY DEF ViewsOK, Views!TimeAssumption
<1>1. CASE UNCHANGED Views!vars
  BY <1>1 DEF Views!vars, ViewsOK, Views!AmountIsViewers
<1>2. CASE Views!Tick
  <2>1. now' \in 0..MaxTime /\ UNCHANGED <<events, notifs, lock, pc, local, orderly, lapsed>>
    BY <1>0, <1>2 DEF Views!Tick
  <2> QED
    BY <2>1 DEF ViewsOK, Views!AmountIsViewers
<1>3. CASE Views!Clear
  <2>1. /\ UNCHANGED <<now, events, lock, pc, local, orderly, lapsed>>
        /\ notifs' = [i \in 1..Len(notifs) |-> [notifs[i] EXCEPT !.seen = TRUE]]
    BY <1>3 DEF Views!Clear
  <2>2. ASSUME NEW i \in 1..Len(notifs)
        PROVE  /\ notifs'[i] \in Views!Row /\ notifs'[i].viewers = notifs[i].viewers
               /\ notifs'[i].amount = notifs[i].amount /\ notifs'[i].eventIds = notifs[i].eventIds
    <3>1. notifs[i] \in Views!Row /\ notifs'[i] = [notifs[i] EXCEPT !.seen = TRUE]
      BY <1>0, <2>1
    <3> QED
      BY <3>1 DEF Views!Row
  <2>3. notifs' \in Seq(Views!Row) /\ Len(notifs') = Len(notifs)
    <3>1. notifs' \in [1..Len(notifs) -> Views!Row]
      BY <2>1, <2>2
    <3> QED
      BY <1>0, <3>1
  <2> QED
    BY <1>0, <2>1, <2>2, <2>3, ViewsCount DEF ViewsOK, Views!AmountIsViewers
<1>4. ASSUME NEW e \in Event, NEW in \in Views!Input, Views!Dispatch(e, in) PROVE ViewsOK'
  <2>0. local[e] \in LocalRow
    BY <1>0
  <2>1. PICK k : k = [local[e] EXCEPT !.in = in]
    OBVIOUS
  <2>2. k \in LocalRow /\ k.rows = local[e].rows
    BY <2>0, <2>1 DEF LocalRow
  <2>3. local' = [local EXCEPT ![e] = k] /\ UNCHANGED <<now, events, notifs, lock, orderly, lapsed>>
    BY <1>0, <1>4, <2>1 DEF Views!Dispatch
  <2>4. local' \in [Event -> LocalRow] /\ local'[e] = k /\ \A d \in Event \ {e} : local'[d] = local[d]
    BY <1>0, <2>2, <2>3
  <2>5. PICK stg \in {"add", "done"} : Views!Goto(e, stg)
    BY <1>4 DEF Views!Dispatch
  <2>6. pc' \in [Event -> Views!Stage] /\ pc'[e] = stg /\ \A d \in Event \ {e} : pc'[d] = pc[d]
    BY <1>0, <2>5 DEF Views!Goto, Views!Stage
  <2> QED
    BY <2>2, <2>3, <2>4, <2>5, <2>6 DEF ViewsOK, Views!AmountIsViewers
<1>5. ASSUME NEW e \in Event, Views!AddEvent(e) \/ Views!AddEventFails(e) PROVE ViewsOK'
  <2>1. /\ events' \subseteq Event /\ UNCHANGED <<now, notifs, lock, local, orderly, lapsed>>
        /\ Views!Goto(e, "done") \/ Views!Goto(e, "failed") \/ (Views!Notifies(local[e].in) /\ Views!Goto(e, "obtain"))
    BY <1>0, <1>5 DEF Views!AddEvent, Views!AddEventFails
  <2>2. Views!Notifies(local[e].in) => local[e].in.actor \in User
    <3>1. local[e].in \in Views!Input
      BY <1>0 DEF LocalRow
    <3> QED
      BY <3>1 DEF Views!Notifies, Views!Input
  <2> QED
    BY <1>0, <2>1, <2>2, ViewsMoves DEF Views!Stage
<1>6. ASSUME NEW e \in Event, \/ Views!Obtain(e) \/ Views!ObtainFails(e) \/ Views!QueryFails(e) \/ Views!WriteFails(e)
      PROVE  ViewsOK'
  <2>1. /\ events' = events /\ UNCHANGED <<now, notifs, local, orderly>> /\ lock' \in Event \cup {Nobody}
        /\ lapsed' \in BOOLEAN /\ pc[e] \in {"obtain", "query", "write"}
        /\ \E stg \in {"query", "write", "failed"} : Views!Goto(e, stg)
    BY <1>0, <1>6 DEF Views!Obtain, Views!ObtainFails, Views!QueryFails, Views!WriteFails
  <2>2. local[e].in.actor \in User
    BY <2>1 DEF ViewsOK
  <2> QED
    BY <1>0, <2>1, <2>2, ViewsMoves DEF Views!Stage
<1>7. ASSUME NEW e \in Event, NEW f \in Read, DOMAIN f \subseteq 1..Len(notifs),
             NEW k \in LocalRow, k.rows = f, k.in = local[e].in, local' = [local EXCEPT ![e] = k],
             NEW stg \in {"write", "done"}, Views!Goto(e, stg),
             UNCHANGED <<now, events, notifs, orderly, lapsed>>, lock' \in Event \cup {Nobody}, pc[e] \in {"query", "release"}
      PROVE  ViewsOK'
  <2>1. local[e].in.actor \in User
    BY <1>7 DEF ViewsOK
  <2>2. local' \in [Event -> LocalRow] /\ local'[e] = k /\ \A d \in Event \ {e} : local'[d] = local[d]
    BY <1>0, <1>7
  <2>3. pc' \in [Event -> Views!Stage] /\ pc'[e] = stg /\ \A d \in Event \ {e} : pc'[d] = pc[d]
    BY <1>0, <1>7 DEF Views!Goto, Views!Stage
  <2> QED
    BY <1>7, <2>1, <2>2, <2>3 DEF ViewsOK, Views!AmountIsViewers
<1>8. ASSUME NEW e \in Event, Views!Query(e) PROVE ViewsOK'
  <2> DEFINE f == [i \in Views!ThisWeek(now) |-> notifs[i].viewers]
  <2>1. Views!ThisWeek(now) \subseteq 1..Len(notifs)
    BY DEF Views!ThisWeek
  <2>2. f \in [Views!ThisWeek(now) -> ViewerSet] /\ Views!ThisWeek(now) \in SUBSET Nat
    BY <1>0, <2>1 DEF ViewsOK
  <2>3. f \in Read /\ DOMAIN f \subseteq 1..Len(notifs)
    BY <2>1, <2>2, ReadFunctions
  <2>4. /\ local' = [local EXCEPT ![e].rows = f, ![e].read = TRUE] /\ Views!Goto(e, "write")
        /\ UNCHANGED <<now, events, notifs, lock, orderly, lapsed>> /\ pc[e] = "query"
    BY <1>8 DEF Views!Query
  <2> HIDE DEF f
  <2>5. PICK k : k = [local[e] EXCEPT !.rows = f, !.read = TRUE]
    OBVIOUS
  <2>6. local[e] \in LocalRow
    BY <1>0
  <2>7. k \in LocalRow /\ k.rows = f /\ k.in = local[e].in
    BY <2>3, <2>5, <2>6 DEF LocalRow
  <2>8. local' = [local EXCEPT ![e] = k]
    BY <1>0, <2>4, <2>5
  <2> QED
    BY <1>0, <1>7, <2>3, <2>4, <2>7, <2>8
<1>9. ASSUME NEW e \in Event, Views!Release(e) PROVE ViewsOK'
  <2> DEFINE f == [i \in {} |-> {}]
  <2>1. f \in [{} -> ViewerSet] /\ {} \in SUBSET Nat
    OBVIOUS
  <2>2. f \in Read /\ DOMAIN f \subseteq 1..Len(notifs)
    BY <2>1, ReadFunctions
  <2>3. /\ local' = [local EXCEPT ![e].rows = f] /\ Views!Goto(e, "done")
        /\ UNCHANGED <<now, events, notifs, orderly, lapsed>>
        /\ pc[e] = "release" /\ lock' \in Event \cup {Nobody}
    BY <1>0, <1>9 DEF Views!Release
  <2> HIDE DEF f
  <2>4. PICK k : k = [local[e] EXCEPT !.rows = f]
    OBVIOUS
  <2>5. local[e] \in LocalRow
    BY <1>0
  <2>6. k \in LocalRow /\ k.rows = f /\ k.in = local[e].in
    BY <2>2, <2>4, <2>5 DEF LocalRow
  <2>7. local' = [local EXCEPT ![e] = k]
    BY <1>0, <2>3, <2>4
  <2> QED
    BY <1>0, <1>7, <2>2, <2>3, <2>6, <2>7
<1>10. ASSUME NEW e \in Event, Views!Goto(e, "release"), UNCHANGED <<now, events, lock, local, lapsed>>,
              orderly' \subseteq 1..Len(notifs'),
              local[e].in.actor \in User, notifs' \in Seq(Views!Row), Len(notifs') >= Len(notifs),
              \A i \in 1..Len(notifs') :
                 /\ notifs'[i].viewers \in ViewerSet
                 /\ \/ i \in 1..Len(notifs) /\ notifs'[i] = notifs[i]
                    \/ notifs'[i].amount = Cardinality(notifs'[i].viewers)
                    \/ notifs'[i].amount = 1 /\ Cardinality(notifs'[i].eventIds) = 1
       PROVE  ViewsOK'
  <2>1. pc' \in [Event -> Views!Stage] /\ pc'[e] = "release" /\ \A d \in Event \ {e} : pc'[d] = pc[d]
    BY <1>0, <1>10 DEF Views!Goto, Views!Stage
  <2>2. Views!AmountIsViewers'
    BY <1>10, ViewsCount DEF ViewsOK, Views!AmountIsViewers
  <2>3. Len(notifs') \in Nat
    BY <1>10
  <2>4. \A d \in Event : DOMAIN local'[d].rows \subseteq 1..Len(notifs')
    BY <1>0, <1>10, <2>3 DEF ViewsOK
  <2>5. \A d \in Event : pc'[d] \in {"obtain", "query", "write", "release"} => local'[d].in.actor \in User
    BY <1>10, <2>1 DEF ViewsOK
  <2> QED
    BY <1>0, <1>10, <2>1, <2>2, <2>4, <2>5 DEF ViewsOK
<1>11. ASSUME NEW e \in Event, Views!Insert(e) PROVE ViewsOK'
  <2>1. local[e].in.actor \in User
    BY <1>11, Inserts
  <2>2. PICK w \in Views!Row : /\ notifs' = Append(notifs, w) /\ w.amount = 1 /\ w.eventIds = {e}
                               /\ w.viewers = Views!NewViewers(e) /\ w.viewers \in ViewerSet
    BY <1>11, Inserts
  <2>3. w.amount = 1 /\ Cardinality(w.eventIds) = 1
    BY <2>2, FS_Singleton
  <2>4. /\ notifs' \in Seq(Views!Row) /\ Len(notifs') = Len(notifs) + 1 /\ notifs'[Len(notifs) + 1] = w
        /\ \A i \in 1..Len(notifs) : notifs'[i] = notifs[i]
    BY <1>0, <2>2
  <2>5. \A i \in 1..Len(notifs') : i \in 1..Len(notifs) \/ i = Len(notifs) + 1
    BY <1>0, <2>4
  <2>6. \A i \in 1..Len(notifs) : notifs[i].viewers \in ViewerSet
    BY DEF ViewsOK
  <2>7. Views!Goto(e, "release") /\ UNCHANGED <<now, events, lock, local, lapsed>>
    BY <1>11 DEF Views!Insert
  <2>8. orderly' \subseteq 1..Len(notifs')
    <3>1. orderly' \subseteq orderly \cup {Len(notifs')} /\ orderly \subseteq 1..Len(notifs)
      BY <1>11 DEF Views!Insert, ViewsOK
    <3> QED
      BY <1>0, <2>4, <3>1
  <2>9. ASSUME NEW i \in 1..Len(notifs')
        PROVE  /\ notifs'[i].viewers \in ViewerSet
               /\ \/ i \in 1..Len(notifs) /\ notifs'[i] = notifs[i]
                  \/ notifs'[i].amount = 1 /\ Cardinality(notifs'[i].eventIds) = 1
    <3>1. CASE i \in 1..Len(notifs)
      BY <2>4, <2>6, <3>1
    <3>2. CASE i = Len(notifs) + 1
      BY <2>2, <2>3, <2>4, <3>2
    <3> QED
      BY <2>5, <3>1, <3>2
  <2> QED
    BY <1>0, <1>10, <2>1, <2>4, <2>7, <2>8, <2>9
<1>12. ASSUME NEW e \in Event, Views!Update(e) PROVE ViewsOK'
  <2>1. local[e].in.actor \in User
    BY <1>12, Updates
  <2>2. /\ Views!Goto(e, "release") /\ UNCHANGED <<now, events, lock, local, orderly, lapsed>>
        /\ orderly \subseteq 1..Len(notifs)
    BY <1>12 DEF Views!Update, ViewsOK
  <2>3. \A i \in 1..Len(notifs) : notifs[i].viewers \in ViewerSet
    BY DEF ViewsOK
  <2>4. CASE notifs' = notifs
    BY <1>0, <1>10, <2>1, <2>2, <2>3, <2>4
  <2>5. CASE notifs' # notifs
    <3>1. PICK i \in DOMAIN local[e].rows, w \in Views!Row :
            notifs' = [notifs EXCEPT ![i] = w] /\ w.viewers \in ViewerSet /\ w.amount = Cardinality(w.viewers)
      BY <1>12, <2>5, Updates
    <3>2. i \in 1..Len(notifs)
      BY DEF ViewsOK
    <3>3. /\ notifs' \in Seq(Views!Row) /\ Len(notifs') = Len(notifs) /\ notifs'[i] = w
          /\ \A j \in 1..Len(notifs) : j # i => notifs'[j] = notifs[j]
      BY <1>0, <3>1, <3>2
    <3> QED
      BY <1>0, <1>10, <2>1, <2>2, <2>3, <3>1, <3>3
  <2> QED
    BY <2>4, <2>5
<1> QED
  BY <1>1, <1>2, <1>3, <1>4, <1>5, <1>6, <1>8, <1>9, <1>11, <1>12 DEF Views!Next

\* For any number of viewers, events and rows, any length of a day and any time zone,
\* also when the lock is not obtained and statements fail: the amount a notification
\* shows is the number of its viewers, logged in or not, but for a row that is as one
\* event inserted it.
THEOREM AmountsAreRight ==
    ASSUME Views!TimeAssumption, Views!NamesAssumption
    PROVE  Views!Spec => [](Views!TypeOK /\ AmountIsViewers)
<1>1. Views!Init => ViewsOK
  BY ViewsInit
<1>2. ViewsOK /\ [Views!Next]_Views!vars => ViewsOK'
  BY ViewsStep
<1>3. ViewsOK => Views!TypeOK /\ AmountIsViewers
  BY DEF ViewsOK, Views!TypeOK, LocalRow, AmountIsViewers
<1> QED
  BY <1>1, <1>2, <1>3, PTL DEF Views!Spec

\* A beginning of a week is a number, and not later than the time it is taken at.
LEMMA WeekBegins ==
    ASSUME Views!TimeAssumption, NEW t \in Nat
    PROVE  Views!beginningOfWeek(t) \in Int /\ Views!beginningOfWeek(t) <= t
<1>0. Day \in Nat \ {0} /\ Offset \in Int
  BY DEF Views!TimeAssumption
<1>1. PICK q \in Nat, r \in 0..(Day - 1) : q = t \div Day /\ t = q * Day + r
  BY <1>0, Quotient
<1>2. PICK k \in 0..6 : k = Views!Weekday(t + Offset)
  <2>1. (t + Offset) \div Day \in Int
    BY <1>0
  <2>2. ((t + Offset) \div Day) % 7 \in 0..6
    BY <2>1
  <2> QED
    BY <2>2 DEF Views!Weekday
<1>3. Views!beginningOfWeek(t) = q * Day - k * Day
  BY <1>1, <1>2 DEF Views!beginningOfWeek, Views!Midnight
<1>4. q * Day \in Nat /\ k * Day \in Nat
  BY <1>0
<1> QED
  BY <1>0, <1>1, <1>3, <1>4

\* A goroutine reads and writes rows.
Reading(e) == pc[e] \in {"query", "write", "release"}

\* Until a handler goes on without it, only the holder of the lock does.
OneWriter == ~lapsed => \A e \in Event : Reading(e) => lock = e

\* A goroutine before its SELECT has read nothing.
Early(e) == pc[e] \in {"idle", "add", "obtain", "query"}
NotRead == \A e \in Event : Early(e) => ~local[e].read

\* No row is younger than now or than a later row.
InOrder ==
    /\ \A i \in 1..Len(notifs) : notifs[i].createdAt <= now
    /\ \A i, j \in 1..Len(notifs) : i <= j => notifs[i].createdAt <= notifs[j].createdAt

\* A goroutine that has the lock and whose SELECT succeeded knows the rows of the week
\* that others inserted likewise.
KnowsOrderly ==
    \A e \in Event : pc[e] = "write" /\ lock = e /\ local[e].read =>
        \A i \in orderly : notifs[i].createdAt >= Views!beginningOfWeek(now) => i \in DOMAIN local[e].rows

\* Until a handler goes on without lock or rows, a goroutine about to write has read
\* the rows of the week as they are.
UpToDate ==
    ~lapsed =>
        \A e \in Event : pc[e] = "write" =>
            /\ \A i \in 1..Len(notifs) :
                  i \in DOMAIN local[e].rows <=> notifs[i].createdAt >= Views!beginningOfWeek(now)
            /\ \A i \in DOMAIN local[e].rows : local[e].rows[i] = notifs[i].viewers

\* A beginning of a week at a time of the window of a row lies between it and an older one.
Between(older, younger) ==
    \E t \in younger..(younger + Day - 1) :
        older < Views!beginningOfWeek(t) /\ Views!beginningOfWeek(t) <= younger

\* The two parts of what is to be shown of the rows.
OrderlyApart ==
    \A i, j \in orderly :
        i < j /\ notifs[i].createdAt >= Views!beginningOfWeek(notifs[j].createdAt) =>
            notifs[j].createdAt - notifs[i].createdAt >= Day
ViewersApart ==
    ~lapsed =>
        \A i, j \in 1..Len(notifs) :
            i < j /\ notifs[i].viewers \cap notifs[j].viewers # {} =>
                Between(notifs[i].createdAt, notifs[j].createdAt)

\* Every step keeps this.
GroupedInv == OneWriter /\ NotRead /\ InOrder /\ KnowsOrderly /\ UpToDate /\ OrderlyApart /\ ViewersApart

\* It holds before any event.
LEMMA GroupedInit == Views!Init => GroupedInv
<1> SUFFICES ASSUME Views!Init PROVE GroupedInv
  OBVIOUS
<1>1. notifs = <<>> /\ orderly = {} /\ \A e \in Event : pc[e] = "idle"
  BY DEF Views!Init
<1>2. Len(notifs) = 0
  BY <1>1
<1> QED
  BY <1>1, <1>2 DEF GroupedInv, OneWriter, Reading, NotRead, InOrder, KnowsOrderly, UpToDate, OrderlyApart,
                    ViewersApart, Views!Init, Views!NewLocal

\* What the steps need to know of the types.
LEMMA ViewTypes ==
    ASSUME Views!TimeAssumption, Views!NamesAssumption, ViewsOK
    PROVE  /\ now \in Nat /\ notifs \in Seq(Views!Row) /\ Len(notifs) \in Nat /\ pc \in [Event -> Views!Stage]
           /\ local \in [Event -> LocalRow] /\ Nobody \notin Event /\ Day \in Nat \ {0}
           /\ orderly \subseteq 1..Len(notifs) /\ lapsed \in BOOLEAN
           /\ \A i \in 1..Len(notifs) : notifs[i].createdAt \in Nat
<1>1. /\ now \in Nat /\ notifs \in Seq(Views!Row) /\ Len(notifs) \in Nat /\ pc \in [Event -> Views!Stage]
      /\ local \in [Event -> LocalRow] /\ Nobody \notin Event /\ Day \in Nat \ {0}
      /\ orderly \subseteq 1..Len(notifs) /\ lapsed \in BOOLEAN
  BY DEF ViewsOK, Views!TimeAssumption, Views!NamesAssumption
<1>2. \A i \in 1..Len(notifs) : notifs[i] \in Views!Row
  BY <1>1
<1> QED
  BY <1>1, <1>2 DEF Views!Row

\* A goroutine that is about to write finds no row of the week behind the youngest it
\* has read, unless some handler lapsed.
LEMMA NothingNewer ==
    ASSUME Views!TimeAssumption, Views!NamesAssumption, ViewsOK, GroupedInv,
           NEW e \in Event, pc[e] = "write", ~lapsed, NEW m \in DOMAIN local[e].rows,
           m = Views!MostRecent(e)
    PROVE  /\ m \in 1..Len(notifs) /\ notifs[m].createdAt >= Views!beginningOfWeek(now)
           /\ \A j \in 1..Len(notifs) : j <= m
<1>1. m \in 1..Len(notifs)
  BY DEF ViewsOK
<1>2. notifs[m].createdAt >= Views!beginningOfWeek(now)
  BY <1>1 DEF GroupedInv, UpToDate
<1>3. ASSUME NEW j \in 1..Len(notifs), m < j PROVE FALSE
  <2>1. notifs[m].createdAt <= notifs[j].createdAt
    BY <1>1, <1>3, ViewTypes DEF GroupedInv, InOrder
  <2>2. notifs[j].createdAt >= Views!beginningOfWeek(now)
    <3>1. notifs[m].createdAt \in Nat /\ notifs[j].createdAt \in Nat
      BY <1>1, ViewTypes
    <3>2. Views!beginningOfWeek(now) \in Int
      BY ViewTypes, WeekBegins
    <3> QED
      BY <1>2, <2>1, <3>1, <3>2
  <2>3. j \in DOMAIN local[e].rows
    BY <2>2 DEF GroupedInv, UpToDate
  <2>4. j <= Views!MostRecent(e)
    BY <2>3, Recent
  <2> QED
    BY <1>1, <1>3, <2>4, ViewTypes
<1> QED
  BY <1>1, <1>2, <1>3, ViewTypes

\* A step that writes no row and reads none, and whose handlers keep what they have.
LEMMA GroupedIdles ==
    ASSUME ViewsOK, GroupedInv, UNCHANGED <<now, notifs, orderly>>, OneWriter',
           lapsed => lapsed',
           \A e \in Event : pc'[e] = "write" =>
               /\ pc[e] = "write" /\ (lock' = e => lock = e)
               /\ local'[e].rows = local[e].rows /\ local'[e].read = local[e].read,
           \A e \in Event : Early(e)' => Early(e) /\ local'[e].read = local[e].read
    PROVE  GroupedInv'
<1>1. InOrder' /\ OrderlyApart' /\ ViewersApart'
  BY DEF GroupedInv, InOrder, OrderlyApart, ViewersApart, Between, Views!beginningOfWeek, Views!Midnight,
         Views!Weekday
<1>2. KnowsOrderly' /\ UpToDate'
  BY DEF GroupedInv, KnowsOrderly, UpToDate, Views!beginningOfWeek, Views!Midnight, Views!Weekday
<1>3. NotRead'
  BY DEF GroupedInv, NotRead, Early
<1> QED
  BY <1>1, <1>2, <1>3 DEF GroupedInv

\* The SELECT.
LEMMA GroupedQuery ==
    ASSUME Views!TimeAssumption, Views!NamesAssumption, ViewsOK, GroupedInv, NEW e \in Event, Views!Query(e)
    PROVE  GroupedInv'
<1> DEFINE f == [i \in Views!ThisWeek(now) |-> notifs[i].viewers]
<1>1. /\ local' = [local EXCEPT ![e].rows = f, ![e].read = TRUE]
      /\ UNCHANGED <<now, notifs, lock, orderly, lapsed>> /\ pc[e] = "query"
  BY DEF Views!Query
<1>2. pc'[e] = "write" /\ \A d \in Event \ {e} : pc'[d] = pc[d]
  BY ViewTypes DEF Views!Query, Views!Goto
<1>3. local'[e].rows = f /\ \A d \in Event \ {e} : local'[d] = local[d]
  <2> HIDE DEF f
  <2>1. local[e] \in LocalRow /\ local'[e] = [local[e] EXCEPT !.rows = f, !.read = TRUE]
        /\ \A d \in Event \ {e} : local'[d] = local[d]
    BY <1>1, ViewTypes
  <2> QED
    BY <2>1 DEF LocalRow
<1>4. OneWriter' /\ NotRead'
  BY <1>1, <1>2, <1>3 DEF GroupedInv, OneWriter, Reading, NotRead, Early
<1>5. \A i \in 1..Len(notifs) : i \in DOMAIN f <=> notifs[i].createdAt >= Views!beginningOfWeek(now)
  BY DEF Views!ThisWeek
<1>6. \A i \in DOMAIN f : f[i] = notifs[i].viewers
  OBVIOUS
<1>7. InOrder' /\ OrderlyApart' /\ ViewersApart'
  BY <1>1 DEF GroupedInv, InOrder, OrderlyApart, ViewersApart, Between, Views!beginningOfWeek, Views!Midnight,
              Views!Weekday
<1>8. Views!beginningOfWeek(now)' = Views!beginningOfWeek(now)
  BY <1>1 DEF Views!beginningOfWeek, Views!Midnight, Views!Weekday
<1> HIDE DEF f
<1>9. KnowsOrderly'
  BY <1>1, <1>2, <1>3, <1>5, <1>8, ViewTypes DEF GroupedInv, KnowsOrderly
<1>10. UpToDate'
  <2> SUFFICES ASSUME ~lapsed
               PROVE  \A d \in Event : pc'[d] = "write" =>
                        /\ \A i \in 1..Len(notifs) :
                              i \in DOMAIN local'[d].rows <=> notifs[i].createdAt >= Views!beginningOfWeek(now)
                        /\ \A i \in DOMAIN local'[d].rows : local'[d].rows[i] = notifs[i].viewers
    <3>1. now' = now /\ notifs' = notifs /\ lapsed' = lapsed
      BY <1>1
    <3> QED
      BY <3>1 DEF UpToDate, Views!beginningOfWeek, Views!Midnight, Views!Weekday
  <2>1. \A d \in Event \ {e} : pc'[d] = "write" => pc[d] = "write" /\ local'[d] = local[d]
    BY <1>2, <1>3
  <2>2. /\ \A i \in 1..Len(notifs) :
              i \in DOMAIN local'[e].rows <=> notifs[i].createdAt >= Views!beginningOfWeek(now)
        /\ \A i \in DOMAIN local'[e].rows : local'[e].rows[i] = notifs[i].viewers
    BY <1>3, <1>5, <1>6
  <2> QED
    BY <2>1, <2>2 DEF GroupedInv, UpToDate
<1> QED
  BY <1>4, <1>7, <1>9, <1>10 DEF GroupedInv

\* A goroutine has written: it alone did, unless a handler lapsed, and the rows that
\* others know are where they were.
LEMMA GroupedWrites ==
    ASSUME Views!TimeAssumption, Views!NamesAssumption, ViewsOK, GroupedInv,
           NEW e \in Event, pc[e] = "write", Views!Goto(e, "release"), UNCHANGED <<now, lock, local, lapsed>>,
           \A d \in Event \ {e} : lock = d =>
               orderly' = orderly /\ \A i \in orderly : notifs'[i].createdAt = notifs[i].createdAt,
           (InOrder /\ OrderlyApart /\ ViewersApart)'
    PROVE  GroupedInv'
<1>1. pc'[e] = "release" /\ \A d \in Event \ {e} : pc'[d] = pc[d]
  BY ViewTypes DEF Views!Goto
<1>2. OneWriter' /\ NotRead'
  BY <1>1 DEF GroupedInv, OneWriter, Reading, NotRead, Early
<1>3. KnowsOrderly'
  BY <1>1 DEF GroupedInv, KnowsOrderly, Views!beginningOfWeek, Views!Midnight, Views!Weekday
<1>4. UpToDate'
  BY <1>1 DEF GroupedInv, OneWriter, Reading, UpToDate
<1> QED
  BY <1>2, <1>3, <1>4 DEF GroupedInv

\* A new row is a day younger than the youngest row of the week that its handler knows,
\* and has no viewer of those rows.
LEMMA GroupedInsert ==
    ASSUME Views!TimeAssumption, Views!NamesAssumption, ViewsOK, GroupedInv, NEW e \in Event, Views!Insert(e)
    PROVE  GroupedInv'
<1>1. local[e].in.actor \in User /\ pc[e] = "write" /\ ~Views!grouped(e)
  BY Inserts
<1>2. PICK w \in Views!Row : /\ notifs' = Append(notifs, w) /\ w.createdAt = now
                             /\ w.viewers = Views!NewViewers(e)
  BY Inserts
<1>3. PICK n \in Nat : n = Len(notifs)
  BY ViewTypes
<1>4. /\ Len(notifs') = n + 1 /\ notifs'[n + 1] = w /\ \A i \in 1..n : notifs'[i] = notifs[i]
      /\ \A i \in 1..(n + 1) : i \in 1..n \/ i = n + 1
  BY <1>2, <1>3, ViewTypes
<1>5. /\ Views!Goto(e, "release") /\ UNCHANGED <<now, lock, local, lapsed>>
      /\ orderly' = orderly \/ (lock = e /\ local[e].read /\ orderly' = orderly \cup {n + 1})
  BY <1>4 DEF Views!Insert
<1>6. /\ \A i \in 1..n : notifs'[i].createdAt = notifs[i].createdAt /\ notifs[i].createdAt \in Nat
      /\ notifs'[n + 1].createdAt = now /\ now \in Nat
      /\ \A i \in 1..n : notifs[i].createdAt <= now
      /\ \A i, j \in 1..n : i <= j => notifs[i].createdAt <= notifs[j].createdAt
  BY <1>2, <1>3, <1>4, ViewTypes DEF GroupedInv, InOrder
<1>7. InOrder'
  <2>1. \A i \in 1..(n + 1) : notifs'[i].createdAt <= now
    BY <1>4, <1>6
  <2>2. ASSUME NEW i \in 1..(n + 1), NEW j \in 1..(n + 1), i <= j
        PROVE  notifs'[i].createdAt <= notifs'[j].createdAt
    <3>1. CASE j = n + 1
      BY <1>6, <2>1, <3>1
    <3>2. CASE j \in 1..n
      <4>1. i \in 1..n
        BY <2>2, <3>2
      <4> QED
        BY <1>6, <2>2, <3>2, <4>1
    <3> QED
      BY <1>4, <3>1, <3>2
  <2> QED
    BY <1>4, <1>5, <2>1, <2>2 DEF InOrder
<1>8. orderly \subseteq 1..n
  BY <1>3, ViewTypes
\* The rows that the handler has read are a day older.
<1>9. ASSUME NEW i \in DOMAIN local[e].rows PROVE now - notifs[i].createdAt >= Day
  <2>1. PICK m \in DOMAIN local[e].rows : m = Views!MostRecent(e) /\ i <= m
    BY <1>9, Recent
  <2>2. m \in 1..n /\ i \in 1..n
    BY <1>3 DEF ViewsOK
  <2>3. notifs[i].createdAt <= notifs[m].createdAt
    BY <1>6, <2>1, <2>2
  <2>4. ~(now - notifs[m].createdAt < Day)
    BY <1>1, <1>9, <2>1 DEF Views!grouped
  <2> QED
    BY <1>6, <2>2, <2>3, <2>4, ViewTypes
<1>10. OrderlyApart'
  <2> SUFFICES ASSUME NEW i \in orderly', NEW j \in orderly', i < j,
                      notifs'[i].createdAt >= Views!beginningOfWeek(notifs'[j].createdAt)
               PROVE  notifs'[j].createdAt - notifs'[i].createdAt >= Day
    BY DEF OrderlyApart, Views!beginningOfWeek, Views!Midnight, Views!Weekday
  <2>1. CASE j \in orderly
    <3>1. j \in 1..n /\ i \in orderly
      BY <1>5, <1>8, <2>1
    <3>2. i \in 1..n
      BY <1>8, <3>1
    <3>3. notifs[i].createdAt >= Views!beginningOfWeek(notifs[j].createdAt)
      BY <1>4, <3>1, <3>2
    <3>4. notifs[j].createdAt - notifs[i].createdAt >= Day
      BY <2>1, <3>1, <3>3 DEF GroupedInv, OrderlyApart
    <3> QED
      BY <1>4, <3>1, <3>2, <3>4
  <2>2. CASE j \notin orderly
    <3>1. j = n + 1 /\ lock = e /\ local[e].read /\ i \in orderly
      BY <1>5, <1>8, <2>2
    <3>2. i \in 1..n
      BY <1>8, <3>1
    <3>3. notifs[i].createdAt >= Views!beginningOfWeek(now)
      BY <1>2, <1>4, <3>1, <3>2
    <3>4. i \in DOMAIN local[e].rows
      BY <1>1, <3>1, <3>3 DEF GroupedInv, KnowsOrderly
    <3> QED
      BY <1>6, <1>9, <3>1, <3>2, <3>4
  <2> QED
    BY <2>1, <2>2
<1>11. ViewersApart'
  <2> SUFFICES ASSUME ~lapsed, NEW i \in 1..(n + 1), NEW j \in 1..(n + 1), i < j,
                      notifs'[i].viewers \cap notifs'[j].viewers # {}
               PROVE  Between(notifs'[i].createdAt, notifs'[j].createdAt)
    BY <1>4, <1>5 DEF ViewersApart, Between, Views!beginningOfWeek, Views!Midnight, Views!Weekday
  <2>1. i \in 1..n
    OBVIOUS
  <2>2. CASE j \in 1..n
    <3>1. notifs'[i] = notifs[i] /\ notifs'[j] = notifs[j]
      BY <1>4, <2>1, <2>2
    <3> QED
      BY <1>3, <2>1, <2>2, <3>1 DEF GroupedInv, ViewersApart
  <2>3. CASE j = n + 1
    <3>1. notifs[i].viewers \cap Views!NewViewers(e) # {}
      BY <1>2, <1>4, <2>1, <2>3
    <3>2. i \notin DOMAIN local[e].rows
      BY <1>1, <3>1, Adds DEF GroupedInv, UpToDate
    <3>3. ~(notifs[i].createdAt >= Views!beginningOfWeek(now))
      BY <1>1, <1>3, <2>1, <3>2 DEF GroupedInv, UpToDate
    <3>4. /\ Views!beginningOfWeek(now) \in Int /\ Views!beginningOfWeek(now) <= now
          /\ now \in Nat /\ Day \in Nat \ {0} /\ notifs[i].createdAt \in Nat
      BY <1>6, <2>1, WeekBegins, ViewTypes
    <3>5. notifs[i].createdAt < Views!beginningOfWeek(now) /\ Views!beginningOfWeek(now) <= now
          /\ now \in now..(now + Day - 1)
      BY <3>3, <3>4
    <3>6. notifs'[i].createdAt = notifs[i].createdAt /\ notifs'[j].createdAt = now
      BY <1>6, <2>1, <2>3
    <3> QED
      BY <3>5, <3>6 DEF Between
  <2> QED
    BY <1>4, <2>2, <2>3
<1>12. \A d \in Event \ {e} : lock = d =>
           orderly' = orderly /\ \A i \in orderly : notifs'[i].createdAt = notifs[i].createdAt
  BY <1>5, <1>6, <1>8
<1> QED
  BY <1>1, <1>5, <1>7, <1>10, <1>11, <1>12, GroupedWrites

\* An update changes the viewers of the youngest row, which is younger than a day.
LEMMA GroupedUpdate ==
    ASSUME Views!TimeAssumption, Views!NamesAssumption, ViewsOK, GroupedInv, NEW e \in Event, Views!Update(e)
    PROVE  GroupedInv'
<1>1. local[e].in.actor \in User /\ pc[e] = "write"
  BY Updates
<1>2. Views!Goto(e, "release") /\ UNCHANGED <<now, lock, local, orderly, lapsed>>
  BY DEF Views!Update
<1>3. PICK n \in Nat : n = Len(notifs)
  BY ViewTypes
<1>4. CASE notifs' = notifs
  <2>1. (InOrder /\ OrderlyApart /\ ViewersApart)'
    BY <1>2, <1>4 DEF GroupedInv, InOrder, OrderlyApart, ViewersApart, Between, Views!beginningOfWeek,
                      Views!Midnight, Views!Weekday
  <2> QED
    BY <1>1, <1>2, <1>4, <2>1, GroupedWrites
<1>5. CASE notifs' # notifs
  <2>1. PICK m \in DOMAIN local[e].rows, w \in Views!Row :
          /\ m = Views!MostRecent(e) /\ Views!grouped(e)
          /\ notifs' = [notifs EXCEPT ![m] = w] /\ w.createdAt = notifs[m].createdAt
          /\ w.viewers = local[e].rows[m] \cup Views!NewViewers(e)
    BY <1>5, Updates
  <2>2. m \in 1..n
    BY <1>3 DEF ViewsOK
  <2>3. /\ Len(notifs') = n /\ notifs'[m] = w /\ \A j \in 1..n : j # m => notifs'[j] = notifs[j]
    BY <1>3, <2>1, <2>2, ViewTypes
  <2>4. \A i \in 1..n : notifs'[i].createdAt = notifs[i].createdAt
    BY <2>1, <2>3
  <2>5. InOrder'
    BY <1>2, <1>3, <2>3, <2>4 DEF GroupedInv, InOrder
  <2>6. OrderlyApart'
    <3>1. \A i \in orderly : i \in 1..n
      BY <1>3, ViewTypes
    <3> QED
      BY <1>2, <2>4, <3>1 DEF GroupedInv, OrderlyApart, Views!beginningOfWeek, Views!Midnight, Views!Weekday
  <2>7. ViewersApart'
    <3> SUFFICES ASSUME ~lapsed, NEW i \in 1..n, NEW j \in 1..n, i < j,
                        notifs'[i].viewers \cap notifs'[j].viewers # {}
                 PROVE  Between(notifs[i].createdAt, notifs[j].createdAt)
      BY <1>2, <2>3, <2>4 DEF ViewersApart, Between, Views!beginningOfWeek, Views!Midnight, Views!Weekday
    <3>1. notifs[m].createdAt >= Views!beginningOfWeek(now) /\ \A k \in 1..n : k <= m
      BY <1>1, <1>3, <2>1, NothingNewer
    <3>2. i # m
      BY <2>2, <3>1
    <3>3. notifs'[i] = notifs[i]
      BY <2>3, <3>2
    <3>4. CASE notifs[i].viewers \cap notifs[j].viewers # {}
      BY <1>3, <3>4 DEF GroupedInv, ViewersApart
    <3>5. CASE notifs[i].viewers \cap notifs[j].viewers = {}
      <4>1. j = m
        BY <2>3, <3>3, <3>5
      <4>2. w.viewers = notifs[m].viewers \cup Views!NewViewers(e)
        BY <1>1, <2>1 DEF GroupedInv, UpToDate
      <4>3. notifs[i].viewers \cap Views!NewViewers(e) # {}
        BY <2>3, <3>3, <3>5, <4>1, <4>2
      <4>4. i \notin DOMAIN local[e].rows
        BY <1>1, <4>3, Adds DEF GroupedInv, UpToDate
      <4>5. ~(notifs[i].createdAt >= Views!beginningOfWeek(now))
        BY <1>1, <1>3, <4>4 DEF GroupedInv, UpToDate
      <4>6. now - notifs[m].createdAt < Day
        BY <2>1 DEF Views!grouped
      <4>7. notifs[m].createdAt <= now
        BY <1>3, <2>2 DEF GroupedInv, InOrder
      <4>8. /\ notifs[i].createdAt \in Nat /\ notifs[m].createdAt \in Nat /\ now \in Nat /\ Day \in Nat
            /\ Views!beginningOfWeek(now) \in Int
        BY <1>3, <2>2, ViewTypes, WeekBegins
      <4>9. /\ now \in notifs[m].createdAt..(notifs[m].createdAt + Day - 1)
            /\ notifs[i].createdAt < Views!beginningOfWeek(now)
        BY <4>5, <4>6, <4>7, <4>8
      <4> QED
        BY <3>1, <4>1, <4>9 DEF Between
    <3> QED
      BY <3>4, <3>5
  <2>8. \A i \in orderly : notifs'[i].createdAt = notifs[i].createdAt
    BY <1>3, <2>4, ViewTypes
  <2> QED
    BY <1>1, <1>2, <2>5, <2>6, <2>7, <2>8, GroupedWrites
<1> QED
  BY <1>4, <1>5

\* Every step keeps it.
LEMMA GroupedStep ==
    ASSUME Views!TimeAssumption, Views!NamesAssumption, ViewsOK, GroupedInv, [Views!Next]_Views!vars
    PROVE  GroupedInv'
<1>1. ASSUME NEW e \in Event, NEW stg \in Views!Stage, Views!Goto(e, stg)
      PROVE  pc'[e] = stg /\ \A d \in Event \ {e} : pc'[d] = pc[d]
  BY <1>1, ViewTypes DEF Views!Goto
<1>2. CASE UNCHANGED Views!vars
  <2>1. OneWriter'
    BY <1>2 DEF Views!vars, GroupedInv, OneWriter, Reading
  <2> QED
    BY <1>2, <2>1, GroupedIdles DEF Views!vars, Early
<1>3. CASE Views!Tick
  <2>1. /\ now' = now + 1 /\ UNCHANGED <<notifs, lock, pc, local, orderly, lapsed>>
        /\ \A e \in Event : pc[e] # "write"
    BY <1>3 DEF Views!Tick
  <2>2. InOrder'
    BY <2>1, ViewTypes DEF GroupedInv, InOrder
  <2>3. OneWriter' /\ NotRead' /\ KnowsOrderly' /\ UpToDate'
    BY <2>1 DEF GroupedInv, OneWriter, Reading, NotRead, Early, KnowsOrderly, UpToDate
  <2>4. OrderlyApart' /\ ViewersApart'
    BY <2>1 DEF GroupedInv, OrderlyApart, ViewersApart, Between, Views!beginningOfWeek, Views!Midnight,
                Views!Weekday
  <2> QED
    BY <2>2, <2>3, <2>4 DEF GroupedInv
<1>4. CASE Views!Clear
  <2>1. /\ UNCHANGED <<now, lock, pc, local, orderly, lapsed>>
        /\ notifs' = [i \in 1..Len(notifs) |-> [notifs[i] EXCEPT !.seen = TRUE]]
    BY <1>4 DEF Views!Clear
  <2>2. ASSUME NEW i \in 1..Len(notifs)
        PROVE  notifs'[i].viewers = notifs[i].viewers /\ notifs'[i].createdAt = notifs[i].createdAt
    <3>1. notifs[i] \in Views!Row /\ notifs'[i] = [notifs[i] EXCEPT !.seen = TRUE]
      BY <2>1, ViewTypes
    <3> QED
      BY <3>1 DEF Views!Row
  <2>3. Len(notifs') = Len(notifs) /\ orderly \subseteq 1..Len(notifs)
    BY <2>1, ViewTypes
  <2>4. \A e \in Event : DOMAIN local[e].rows \subseteq 1..Len(notifs)
    BY DEF ViewsOK
  <2>5. InOrder' /\ OneWriter' /\ NotRead'
    BY <2>1, <2>2, <2>3 DEF GroupedInv, OneWriter, Reading, NotRead, Early, InOrder
  <2>6. KnowsOrderly' /\ UpToDate'
    BY <2>1, <2>2, <2>3, <2>4 DEF GroupedInv, KnowsOrderly, UpToDate, Views!beginningOfWeek, Views!Midnight,
                                 Views!Weekday
  <2>7. OrderlyApart'
    BY <2>1, <2>2, <2>3 DEF GroupedInv, OrderlyApart, Views!beginningOfWeek, Views!Midnight, Views!Weekday
  <2>8. ViewersApart'
    <3>1. PICK n \in Nat : n = Len(notifs) /\ Len(notifs') = n
      BY <2>3, ViewTypes
    <3>2. \A i \in 1..n : notifs'[i].createdAt = notifs[i].createdAt /\ notifs'[i].viewers = notifs[i].viewers
      BY <2>2, <3>1
    <3> SUFFICES ASSUME ~lapsed, NEW i \in 1..n, NEW j \in 1..n, i < j,
                        notifs'[i].viewers \cap notifs'[j].viewers # {}
                 PROVE  Between(notifs[i].createdAt, notifs[j].createdAt)
      <4>1. lapsed' = lapsed
        BY <2>1
      <4> QED
        BY <4>1, <3>1, <3>2 DEF ViewersApart, Between, Views!beginningOfWeek, Views!Midnight, Views!Weekday
    <3> QED
      BY <3>1, <3>2 DEF GroupedInv, ViewersApart
  <2> QED
    BY <2>5, <2>6, <2>7, <2>8 DEF GroupedInv
<1>5. ASSUME NEW e \in Event, NEW in \in Views!Input, Views!Dispatch(e, in) PROVE GroupedInv'
  <2>1. UNCHANGED <<now, notifs, lock, orderly, lapsed>> /\ local' = [local EXCEPT ![e].in = in]
    BY <1>5 DEF Views!Dispatch
  <2>2. pc'[e] \in {"add", "done"} /\ \A d \in Event \ {e} : pc'[d] = pc[d]
    BY <1>1, <1>5 DEF Views!Dispatch, Views!Stage
  <2>3. (\A d \in Event \ {e} : local'[d] = local[d]) /\ local'[e].read = local[e].read
    <3>1. local[e] \in LocalRow /\ local'[e] = [local[e] EXCEPT !.in = in]
      BY <2>1, ViewTypes
    <3> QED
      BY <2>1, <3>1, ViewTypes DEF LocalRow
  <2>4. OneWriter' /\ pc[e] = "idle"
    BY <1>5, <2>1, <2>2 DEF GroupedInv, OneWriter, Reading, Views!Dispatch
  <2> QED
    BY <2>1, <2>2, <2>3, <2>4, GroupedIdles DEF Early
<1>6. ASSUME NEW e \in Event, Views!AddEvent(e) \/ Views!AddEventFails(e) PROVE GroupedInv'
  <2>1. UNCHANGED <<now, notifs, lock, local, orderly, lapsed>> /\ pc[e] = "add"
    BY <1>6 DEF Views!AddEvent, Views!AddEventFails
  <2>2. pc'[e] \in {"obtain", "done", "failed"} /\ \A d \in Event \ {e} : pc'[d] = pc[d]
    BY <1>1, <1>6 DEF Views!AddEvent, Views!AddEventFails, Views!Stage
  <2>3. OneWriter'
    BY <2>1, <2>2 DEF GroupedInv, OneWriter, Reading
  <2> QED
    BY <2>1, <2>2, <2>3, GroupedIdles DEF Early
<1>7. ASSUME NEW e \in Event, Views!Obtain(e) PROVE GroupedInv'
  <2>1. /\ UNCHANGED <<now, notifs, local, orderly, lapsed>> /\ lock = Nobody /\ lock' = e
        /\ pc[e] = "obtain"
    BY <1>7 DEF Views!Obtain
  <2>2. pc'[e] = "query" /\ \A d \in Event \ {e} : pc'[d] = pc[d]
    BY <1>1, <1>7 DEF Views!Obtain, Views!Stage
  <2>3. ~lapsed => \A d \in Event : ~Reading(d)
    BY <2>1, ViewTypes DEF GroupedInv, OneWriter
  <2>4. OneWriter'
    BY <2>1, <2>2, <2>3 DEF OneWriter, Reading
  <2> QED
    BY <2>1, <2>2, <2>4, GroupedIdles DEF Early
<1>8. ASSUME NEW e \in Event, Views!ObtainFails(e) PROVE GroupedInv'
  <2>1. UNCHANGED <<now, notifs, lock, local, orderly>> /\ lapsed' = TRUE /\ pc[e] = "obtain"
    BY <1>8 DEF Views!ObtainFails
  <2>2. pc'[e] = "query" /\ \A d \in Event \ {e} : pc'[d] = pc[d]
    BY <1>1, <1>8 DEF Views!ObtainFails, Views!Stage
  <2>3. OneWriter'
    BY <2>1 DEF OneWriter
  <2> QED
    BY <2>1, <2>2, <2>3, GroupedIdles DEF Early
\* A handler whose SELECT failed writes without the rows.
<1>9. ASSUME NEW e \in Event, Views!QueryFails(e) PROVE GroupedInv'
  <2>1. UNCHANGED <<now, notifs, lock, local, orderly>> /\ lapsed' = TRUE /\ pc[e] = "query"
    BY <1>9 DEF Views!QueryFails
  <2>2. pc'[e] = "write" /\ \A d \in Event \ {e} : pc'[d] = pc[d]
    BY <1>1, <1>9 DEF Views!QueryFails, Views!Stage
  <2>3. InOrder' /\ OrderlyApart' /\ OneWriter' /\ NotRead' /\ UpToDate' /\ ViewersApart'
    BY <2>1, <2>2 DEF GroupedInv, InOrder, OrderlyApart, OneWriter, NotRead, Early, UpToDate, ViewersApart, Views!beginningOfWeek,
                Views!Midnight, Views!Weekday
  <2>4. ~local[e].read
    BY <2>1 DEF GroupedInv, NotRead, Early
  <2>5. KnowsOrderly'
    BY <2>1, <2>2, <2>4 DEF GroupedInv, KnowsOrderly, Views!beginningOfWeek, Views!Midnight, Views!Weekday
  <2> QED
    BY <2>3, <2>5 DEF GroupedInv
<1>10. ASSUME NEW e \in Event, Views!WriteFails(e) PROVE GroupedInv'
  <2>1. UNCHANGED <<now, notifs, local, orderly, lapsed>> /\ pc[e] = "write"
        /\ lock' = IF lock = e THEN Nobody ELSE lock
    BY <1>10 DEF Views!WriteFails
  <2>2. pc'[e] = "failed" /\ \A d \in Event \ {e} : pc'[d] = pc[d]
    BY <1>1, <1>10 DEF Views!WriteFails, Views!Stage
  <2>3. OneWriter'
    BY <2>1, <2>2 DEF GroupedInv, OneWriter, Reading
  <2> QED
    BY <2>1, <2>2, <2>3, GroupedIdles, ViewTypes DEF Early
<1>11. ASSUME NEW e \in Event, Views!Release(e) PROVE GroupedInv'
  <2>1. /\ local' = [local EXCEPT ![e].rows = [i \in {} |-> {}]] /\ pc[e] = "release"
        /\ UNCHANGED <<now, notifs, orderly, lapsed>>
        /\ lock' = IF lock = e THEN Nobody ELSE lock
    BY <1>11 DEF Views!Release
  <2>2. pc'[e] = "done" /\ \A d \in Event \ {e} : pc'[d] = pc[d]
    BY <1>1, <1>11 DEF Views!Release, Views!Stage
  <2>3. OneWriter'
    BY <2>1, <2>2 DEF GroupedInv, OneWriter, Reading
  <2>4. \A d \in Event \ {e} : local'[d] = local[d]
    BY <2>1, ViewTypes
  <2> QED
    BY <2>1, <2>2, <2>3, <2>4, GroupedIdles, ViewTypes DEF Early
<1> QED
  BY <1>2, <1>3, <1>4, <1>5, <1>6, <1>7, <1>8, <1>9, <1>10, <1>11, GroupedQuery, GroupedInsert, GroupedUpdate
     DEF Views!Next

\* For any number of viewers, events and weeks, any length of a day and any time zone,
\* also when the lock is not obtained and statements fail: rows inserted under the lock
\* after a successful SELECT are a day apart, and until a handler goes on without lock
\* or rows no viewer shows up in two notifications, unless a beginning of a week, as the
\* code computes it, lies between them.
THEOREM ViewsAreGrouped ==
    ASSUME Views!TimeAssumption, Views!NamesAssumption
    PROVE  Views!Spec => [](Views!GroupedByWindow /\ GroupedByWindow)
<1>1. Views!Init => ViewsOK /\ GroupedInv
  BY ViewsInit, GroupedInit
<1>2. ViewsOK /\ GroupedInv /\ [Views!Next]_Views!vars => ViewsOK' /\ GroupedInv'
  BY ViewsStep, GroupedStep
<1>3. ViewsOK /\ GroupedInv => Views!GroupedByWindow /\ GroupedByWindow
  BY DEF ViewsOK, Views!TypeOK, LocalRow, GroupedInv, OrderlyApart, ViewersApart, Between,
         Views!GroupedByWindow, GroupedByWindow
<1> QED
  BY <1>1, <1>2, <1>3, PTL DEF Views!Spec

----------------------------------------------------------------------------
(* Delivery to subscriptions                                               *)

\* A channel is named by a subscription of the user it is for: the one in the map,
\* the one a goroutine ranges over and the one a message is offered on.
ChannelsOK ==
    /\ \A u \in Member : channels[u] # None => UserOf[channels[u]] = u
    /\ \A s \in Subscription : forwarder[s].stage = "range" =>
          forwarder[s].channel \in Subscription /\ UserOf[forwarder[s].channel] = UserOf[s]
    /\ \A m \in Message : message[m].stage = "sending" =>
          message[m].channel \in Subscription /\ UserOf[message[m].channel] = OwnerOf[m]

\* A goroutine has a message to hand on.
Carries(s, m) == forwarder[s].stage = "forward" /\ forwarder[s].message = m

\* A message is nobody's before it was offered, and then one subscription's.
Holds(s, m) == Carries(s, m) \/ m \in delivered[s]

\* The messages that are held.
HeldOnce ==
    \A m \in Message, s \in Subscription : Holds(s, m) =>
        /\ message[m].stage = "acked" /\ OwnerOf[m] = UserOf[s]
        /\ \A t \in Subscription \ {s} : ~Holds(t, m)

\* A goroutine that forwards stays with its channel.
CarriersOK ==
    \A s \in Subscription : forwarder[s].stage = "forward" =>
        /\ forwarder[s].message \in Message /\ forwarder[s].channel \in Subscription
        /\ UserOf[forwarder[s].channel] = UserOf[s]

\* Every step keeps all this together.
FeedInv == Feed!TypeOK /\ ChannelsOK /\ HeldOnce /\ CarriersOK

\* It holds before anybody has subscribed.
LEMMA FeedInit ==
    ASSUME Feed!SubscriptionAssumption, Feed!Init
    PROVE  FeedInv
<1>1. Feed!TypeOK
  BY DEF Feed!Init, Feed!TypeOK, Feed!NoMessage, Feed!NotSubscribed
<1>2. ChannelsOK /\ HeldOnce /\ CarriersOK
  BY DEF Feed!Init, Feed!NoMessage, Feed!NotSubscribed, ChannelsOK, HeldOnce, CarriersOK, Holds, Carries
<1> QED
  BY <1>1, <1>2 DEF FeedInv

\* The type of a message.
MessageRow == [stage : {"published", "sending", "acked"}, channel : Subscription \cup {None}]

\* A goroutine that forwards.
ForwarderRow == [stage : {"none", "range", "forward", "ended"}, channel : Subscription \cup {None},
                 message : Message \cup {None}]

\* Every step keeps FeedInv.
LEMMA FeedStep ==
    ASSUME Feed!SubscriptionAssumption, FeedInv, [Feed!Next]_Feed!vars
    PROVE  FeedInv'
<1> USE DEF FeedInv
<1>0. /\ OwnerOf \in [Message -> Member] /\ UserOf \in [Subscription -> Member] /\ None \notin Subscription
      /\ channels \in [Member -> Subscription \cup {None}] /\ message \in [Message -> MessageRow]
      /\ forwarder \in [Subscription -> ForwarderRow] /\ client \in [Subscription -> {"away", "waiting", "busy"}]
      /\ delivered \in [Subscription -> SUBSET Message]
  BY DEF Feed!SubscriptionAssumption, Feed!TypeOK, MessageRow, ForwarderRow
<1>1. CASE UNCHANGED Feed!vars
  BY <1>1 DEF Feed!vars, Feed!TypeOK, ChannelsOK, HeldOnce, CarriersOK, Holds, Carries
<1>2. ASSUME NEW s \in Subscription, Feed!Subscribe(s) PROVE FeedInv'
  <2> DEFINE c == Feed!channelFor(s)
             new == [forwarder[s] EXCEPT !.stage = "range", !.channel = c]
  <2>1. c \in Subscription /\ UserOf[c] = UserOf[s]
    BY <1>0 DEF Feed!channelFor, ChannelsOK
  <2> HIDE DEF c
  <2>2. new \in ForwarderRow /\ new.stage = "range" /\ new.channel = c
    <3>1. forwarder[s] \in ForwarderRow
      BY <1>0
    <3> QED
      BY <2>1, <3>1 DEF ForwarderRow
  <2>3. forwarder' = [forwarder EXCEPT ![s] = new]
    BY <1>0, <1>2 DEF Feed!Subscribe, c
  <2> HIDE DEF new
  <2>4. /\ channels' \in [Member -> Subscription \cup {None}] /\ channels'[UserOf[s]] = c
        /\ \A u \in Member \ {UserOf[s]} : channels'[u] = channels[u]
        /\ client' \in [Subscription -> {"away", "waiting", "busy"}] /\ UNCHANGED <<message, delivered>>
        /\ forwarder' \in [Subscription -> ForwarderRow] /\ forwarder'[s] = new
        /\ \A t \in Subscription \ {s} : forwarder'[t] = forwarder[t]
    <3>1. /\ channels' = [channels EXCEPT ![UserOf[s]] = c]
          /\ client' = [client EXCEPT ![s] = "waiting"] /\ UNCHANGED <<message, delivered>>
      BY <1>2 DEF Feed!Subscribe, c
    <3>2. UserOf[s] \in Member
      BY <1>0
    <3>3. /\ channels' \in [Member -> Subscription \cup {None}] /\ channels'[UserOf[s]] = c
          /\ \A u \in Member \ {UserOf[s]} : channels'[u] = channels[u]
      BY <1>0, <2>1, <3>1, <3>2
    <3>4. client' \in [Subscription -> {"away", "waiting", "busy"}]
      BY <1>0, <3>1
    <3>5. /\ forwarder' \in [Subscription -> ForwarderRow] /\ forwarder'[s] = new
          /\ \A t \in Subscription \ {s} : forwarder'[t] = forwarder[t]
      BY <1>0, <2>2, <2>3
    <3> QED
      BY <3>1, <3>3, <3>4, <3>5
  <2>5. Feed!TypeOK'
    BY <1>0, <2>4 DEF Feed!TypeOK, ForwarderRow, MessageRow
  <2>6. ChannelsOK'
    BY <1>0, <2>1, <2>2, <2>4 DEF ChannelsOK
  <2>7. \A t \in Subscription, m \in Message : Holds(t, m)' => Holds(t, m)
    BY <2>2, <2>4 DEF Holds, Carries
  <2>8. HeldOnce'
    BY <2>4, <2>7 DEF HeldOnce
  <2>9. CarriersOK'
    BY <2>2, <2>4 DEF CarriersOK
  <2> QED
    BY <2>5, <2>6, <2>8, <2>9
<1>3. ASSUME NEW s \in Subscription, Feed!ClientMoves(s) PROVE FeedInv'
  <2>1. /\ UNCHANGED <<channels, message, forwarder, delivered>>
        /\ client' \in [Subscription -> {"away", "waiting", "busy"}]
    BY <1>0, <1>3 DEF Feed!ClientMoves
  <2> QED
    BY <2>1 DEF Feed!TypeOK, ChannelsOK, HeldOnce, CarriersOK, Holds, Carries
<1>4. ASSUME NEW s \in Subscription, Feed!Forward(s) \/ Feed!ForwardFails(s) PROVE FeedInv'
  <2> DEFINE l == IF Feed!Forward(s) THEN "range" ELSE "ended"
             new == [forwarder[s] EXCEPT !.stage = l, !.message = None]
             m == forwarder[s].message
  <2>0. forwarder[s].stage = "forward" /\ m \in Message
    BY <1>4 DEF Feed!Forward, Feed!ForwardFails, CarriersOK
  <2>1. new \in ForwarderRow /\ new.stage = l /\ new.channel = forwarder[s].channel
    <3>1. forwarder[s] \in ForwarderRow /\ l \in {"range", "ended"}
      BY <1>0
    <3> HIDE DEF l
    <3> QED
      BY <3>1 DEF ForwarderRow
  <2>2. forwarder' = [forwarder EXCEPT ![s] = new]
    BY <1>0, <1>4 DEF Feed!Forward, Feed!ForwardFails
  <2>3. l # "forward"
    OBVIOUS
  <2> HIDE DEF new, l
  <2>4. /\ forwarder' \in [Subscription -> ForwarderRow] /\ forwarder'[s] = new
        /\ \A t \in Subscription \ {s} : forwarder'[t] = forwarder[t]
    BY <1>0, <2>1, <2>2
  <2>5. /\ channels' \in [Member -> Subscription \cup {None}]
        /\ \A u \in Member : channels'[u] = channels[u] \/ channels'[u] = None
        /\ client' \in [Subscription -> {"away", "waiting", "busy"}] /\ message' = message
    BY <1>0, <1>4 DEF Feed!Forward, Feed!ForwardFails, Feed!Unsubscribe
  <2>6. /\ delivered' \in [Subscription -> SUBSET Message]
        /\ delivered'[s] \subseteq delivered[s] \cup {m}
        /\ \A t \in Subscription \ {s} : delivered'[t] = delivered[t]
    BY <1>0, <1>4, <2>0 DEF Feed!Forward, Feed!ForwardFails
  <2>7. Feed!TypeOK'
    BY <1>0, <2>4, <2>5, <2>6 DEF Feed!TypeOK, ForwarderRow, MessageRow
  <2>8. ChannelsOK'
    BY <2>0, <2>1, <2>4, <2>5 DEF ChannelsOK, CarriersOK
  <2>9. \A t \in Subscription, k \in Message : Holds(t, k)' => Holds(t, k)
    BY <2>0, <2>1, <2>3, <2>4, <2>6 DEF Holds, Carries
  <2>10. HeldOnce'
    BY <2>5, <2>9 DEF HeldOnce
  <2>11. CarriersOK'
    BY <2>1, <2>3, <2>4 DEF CarriersOK
  <2> QED
    BY <2>7, <2>8, <2>10, <2>11
<1>5. ASSUME NEW m \in Message, Feed!Receive(m) PROVE FeedInv'
  <2> DEFINE c == channels[OwnerOf[m]]
             l == IF c = None THEN "acked" ELSE "sending"
             new == [message[m] EXCEPT !.stage = l, !.channel = c]
  <2>1. new \in MessageRow /\ new.stage = l /\ new.channel = c
    BY <1>0 DEF MessageRow
  <2>2. message' = [message EXCEPT ![m] = new] /\ UNCHANGED <<channels, forwarder, client, delivered>>
    BY <1>0, <1>5 DEF Feed!Receive
  <2>3. l = "sending" => c \in Subscription /\ UserOf[c] = OwnerOf[m]
    <3>1. OwnerOf[m] \in Member /\ c \in Subscription \cup {None}
      BY <1>0
    <3>2. c # None => UserOf[c] = OwnerOf[m]
      BY <3>1 DEF ChannelsOK
    <3> QED
      BY <3>1, <3>2
  <2> HIDE DEF new
  <2>4. /\ message' \in [Message -> MessageRow] /\ message'[m] = new /\ message[m].stage = "published"
        /\ \A k \in Message \ {m} : message'[k] = message[k]
    <3>1. message[m].stage = "published"
      BY <1>5 DEF Feed!Receive
    <3> QED
      BY <1>0, <2>1, <2>2, <3>1
  <2>5. Feed!TypeOK'
    BY <1>0, <2>2, <2>4 DEF Feed!TypeOK, ForwarderRow, MessageRow
  <2>6. ChannelsOK'
    BY <2>1, <2>2, <2>3, <2>4 DEF ChannelsOK
  <2>7. \A t \in Subscription, k \in Message : Holds(t, k)' <=> Holds(t, k)
    BY <2>2 DEF Holds, Carries
  <2>8. HeldOnce'
    BY <2>4, <2>7 DEF HeldOnce
  <2>9. CarriersOK'
    BY <2>2 DEF CarriersOK
  <2> QED
    BY <2>5, <2>6, <2>8, <2>9
<1>6. ASSUME NEW m \in Message, Feed!TimeOut(m) PROVE FeedInv'
  <2> DEFINE new == [message[m] EXCEPT !.stage = "acked"]
  <2>1. new \in MessageRow /\ new.stage = "acked"
    BY <1>0 DEF MessageRow
  <2>2. message' = [message EXCEPT ![m] = new] /\ UNCHANGED <<forwarder, client, delivered>>
    BY <1>0, <1>6 DEF Feed!TimeOut
  <2> HIDE DEF new
  <2>3. /\ message' \in [Message -> MessageRow] /\ message'[m] = new
        /\ \A k \in Message \ {m} : message'[k] = message[k]
        /\ channels' \in [Member -> Subscription \cup {None}]
        /\ \A u \in Member : channels'[u] = channels[u] \/ channels'[u] = None
    BY <1>0, <1>6, <2>1, <2>2 DEF Feed!TimeOut, Feed!Unsubscribe
  <2>4. Feed!TypeOK'
    BY <1>0, <2>2, <2>3 DEF Feed!TypeOK, ForwarderRow, MessageRow
  <2>5. ChannelsOK'
    BY <2>1, <2>2, <2>3 DEF ChannelsOK
  <2>6. \A t \in Subscription, k \in Message : Holds(t, k)' <=> Holds(t, k)
    BY <2>2 DEF Holds, Carries
  <2>7. HeldOnce'
    BY <2>1, <2>3, <2>6 DEF HeldOnce
  <2>8. CarriersOK'
    BY <2>2 DEF CarriersOK
  <2> QED
    BY <2>4, <2>5, <2>7, <2>8
<1>7. ASSUME NEW m \in Message, NEW s \in Subscription, Feed!Offer(m, s) PROVE FeedInv'
  <2> DEFINE old == [message[m] EXCEPT !.stage = "acked"]
             new == [forwarder[s] EXCEPT !.stage = "forward", !.message = m]
  <2>1. /\ old \in MessageRow /\ old.stage = "acked"
        /\ new \in ForwarderRow /\ new.stage = "forward" /\ new.message = m /\ new.channel = forwarder[s].channel
    <3>1. message[m] \in MessageRow /\ forwarder[s] \in ForwarderRow
      BY <1>0
    <3>2. old \in MessageRow /\ old.stage = "acked"
      BY <3>1 DEF MessageRow
    <3>3. new \in ForwarderRow /\ new.stage = "forward" /\ new.message = m
          /\ new.channel = forwarder[s].channel
      BY <3>1 DEF ForwarderRow
    <3> QED
      BY <3>2, <3>3
  <2>2. /\ message' = [message EXCEPT ![m] = old] /\ forwarder' = [forwarder EXCEPT ![s] = new]
        /\ UNCHANGED <<channels, client, delivered>>
        /\ message[m].stage = "sending" /\ forwarder[s].stage = "range"
        /\ forwarder[s].channel = message[m].channel
    BY <1>0, <1>7 DEF Feed!Offer
  <2> HIDE DEF old, new
  <2>3. /\ message' \in [Message -> MessageRow] /\ message'[m] = old
        /\ \A k \in Message \ {m} : message'[k] = message[k]
        /\ forwarder' \in [Subscription -> ForwarderRow] /\ forwarder'[s] = new
        /\ \A t \in Subscription \ {s} : forwarder'[t] = forwarder[t]
    BY <1>0, <2>1, <2>2
  <2>4. Feed!TypeOK'
    BY <1>0, <2>2, <2>3 DEF Feed!TypeOK, ForwarderRow, MessageRow
  <2>5. ChannelsOK'
    BY <2>1, <2>2, <2>3 DEF ChannelsOK
  <2>6. OwnerOf[m] = UserOf[s]
    BY <2>2 DEF ChannelsOK
  <2>7. \A t \in Subscription, k \in Message : Holds(t, k)' => Holds(t, k) \/ (t = s /\ k = m)
    BY <2>1, <2>2, <2>3 DEF Holds, Carries
  <2>8. \A t \in Subscription : ~Holds(t, m)
    BY <2>2 DEF HeldOnce
  <2>9. HeldOnce'
    BY <2>1, <2>3, <2>6, <2>7, <2>8 DEF HeldOnce
  <2>10. CarriersOK'
    BY <2>1, <2>2, <2>3 DEF CarriersOK, ChannelsOK
  <2> QED
    BY <2>4, <2>5, <2>9, <2>10
<1> QED
  BY <1>1, <1>2, <1>3, <1>4, <1>5, <1>6, <1>7 DEF Feed!Next

\* For any number of users, subscriptions and messages: a client only gets
\* notifications of the user that subscribed, and each reaches one client, whichever
\* channels were replaced meanwhile.
THEOREM DeliveredToOwners ==
    ASSUME Feed!SubscriptionAssumption
    PROVE  Feed!Spec => []DeliveredToOwner
<1>1. Feed!Init => FeedInv
  BY FeedInit
<1>2. FeedInv /\ [Feed!Next]_Feed!vars => FeedInv'
  BY FeedStep
<1>3. FeedInv => DeliveredToOwner
  BY DEF FeedInv, DeliveredToOwner, Feed!TypeOK, Feed!DeliveredToOwner, HeldOnce, Holds
<1> QED
  BY <1>1, <1>2, <1>3, PTL DEF Feed!Spec

----------------------------------------------------------------------------
(* Devices                                                                 *)

\* A row of push_notification_tokens.
DeviceRow == [user : Member, token : Device, deleted : BOOLEAN]

\* A call under way.
DeviceCall == [op : {"none", "register", "unregister", "logout"}, user : Member \cup {NoUser},
               token : Device \cup {NoToken}, pc : {"idle", "look", "insert", "delete"}, found : Nat]

\* A call that is going to delete has found a row of the caller's with the token it
\* was given.  Rows are never removed and keep their user and token, so it still is.
DevicesInv ==
    /\ rows \in Seq(DeviceRow) /\ call \in [Caller -> DeviceCall]
    /\ \A c \in Caller : /\ call[c].pc # "idle" => call[c].user \in Member /\ call[c].token \in Device
                         /\ call[c].pc = "delete" =>
                              /\ call[c].found \in DOMAIN rows
                              /\ rows[call[c].found].user = call[c].user
                              /\ rows[call[c].found].token = call[c].token

\* It holds before any call.
LEMMA DevicesInit == Devices!Init => DevicesInv
  BY DEF Devices!Init, Devices!Idle, DevicesInv, DeviceCall

\* What a step of one call keeps for all the others: no row changes its user or token.
RowsKept ==
    /\ rows' \in Seq(DeviceRow) /\ DOMAIN rows \subseteq DOMAIN rows'
    /\ \A i \in DOMAIN rows : rows'[i].user = rows[i].user /\ rows'[i].token = rows[i].token

\* One call moves on.
LEMMA CallStep ==
    ASSUME DevicesInv, RowsKept, NEW c \in Caller, NEW new \in DeviceCall, call' = [call EXCEPT ![c] = new],
           new.pc # "idle" => new.user \in Member /\ new.token \in Device,
           new.pc = "delete" => /\ new.found \in DOMAIN rows /\ rows[new.found].user = new.user
                                /\ rows[new.found].token = new.token
    PROVE  DevicesInv'
<1>1. call' \in [Caller -> DeviceCall] /\ call'[c] = new /\ \A d \in Caller \ {c} : call'[d] = call[d]
  BY DEF DevicesInv
<1> QED
  BY <1>1 DEF DevicesInv, RowsKept

\* Every step keeps it, and only a call of the row's own user deletes a row.
LEMMA DevicesStep ==
    ASSUME DevicesInv, [Devices!Next]_Devices!vars
    PROVE  /\ DevicesInv'
           /\ \A i \in DOMAIN rows : rows'[i].deleted /\ ~rows[i].deleted =>
                \E c \in Caller : /\ call[c].pc = "delete" /\ call'[c] = Devices!Idle
                                  /\ call[c].user = rows[i].user /\ call[c].token = rows[i].token
<1>0. rows \in Seq(DeviceRow) /\ call \in [Caller -> DeviceCall] /\ Devices!Idle \in DeviceCall
  BY DEF DevicesInv, Devices!Idle, DeviceCall
<1>1. ASSUME rows' = rows PROVE RowsKept
  BY <1>0, <1>1 DEF RowsKept
<1>2. ASSUME RowsKept, NEW c \in Caller, Devices!Return(c) PROVE DevicesInv'
  <2>1. call' = [call EXCEPT ![c] = Devices!Idle] /\ Devices!Idle.pc = "idle"
    BY <1>2 DEF Devices!Return, Devices!Idle
  <2> QED
    BY <1>0, <1>2, <2>1, CallStep
<1>3. CASE UNCHANGED Devices!vars
  BY <1>3 DEF Devices!vars, DevicesInv
<1>4. ASSUME NEW c \in Caller, rows' = rows, Devices!Return(c) PROVE DevicesInv'
  BY <1>1, <1>2, <1>4
<1>5. ASSUME NEW c \in Caller, NEW op \in {"register", "unregister", "logout"}, NEW u \in Member, NEW t \in Device,
             Devices!Begin(c, op, u, t)
      PROVE  DevicesInv' /\ rows' = rows
  <2> DEFINE new == [Devices!Idle EXCEPT !.op = op, !.user = u, !.token = t, !.pc = "look"]
  <2>1. new \in DeviceCall /\ new.pc = "look" /\ new.user = u /\ new.token = t
    BY DEF DeviceCall, Devices!Idle
  <2>2. call' = [call EXCEPT ![c] = new] /\ rows' = rows
    BY <1>5 DEF Devices!Begin
  <2> HIDE DEF new
  <2> QED
    BY <1>1, <2>1, <2>2, CallStep
<1>6. ASSUME NEW c \in Caller, Devices!LookFound(c) PROVE DevicesInv' /\ rows' = rows
  <2>1. /\ rows' = rows /\ call[c].pc = "look"
    BY <1>6 DEF Devices!LookFound
  <2>2. PICK i \in Devices!Live(call[c].token) :
          IF rows[i].user = call[c].user /\ call[c].op = "unregister"
          THEN call' = [call EXCEPT ![c].pc = "delete", ![c].found = i]
          ELSE Devices!Return(c)
    BY <1>6 DEF Devices!LookFound, Devices!GetPushTokenByPushToken
  <2>3. CASE Devices!Return(c)
    BY <1>4, <2>1, <2>3
  <2>4. CASE ~Devices!Return(c)
    <3> DEFINE new == [call[c] EXCEPT !.pc = "delete", !.found = i]
    <3>1. i \in DOMAIN rows /\ rows[i].token = call[c].token /\ i \in Nat
      BY <1>0, <2>2 DEF Devices!Live, Devices!Ids
    <3>2. /\ new \in DeviceCall /\ new.pc = "delete" /\ new.user = call[c].user /\ new.token = call[c].token
          /\ new.found = i
      BY <1>0, <3>1 DEF DeviceCall
    <3>3. call' = [call EXCEPT ![c] = new] /\ rows[i].user = call[c].user
      BY <1>0, <2>2, <2>4
    <3>4. call[c].user \in Member /\ call[c].token \in Device
      BY <2>1 DEF DevicesInv
    <3> HIDE DEF new
    <3> QED
      BY <1>1, <2>1, <3>1, <3>2, <3>3, <3>4, CallStep
  <2> QED
    BY <2>1, <2>3, <2>4
<1>7. ASSUME NEW c \in Caller, Devices!LookMissing(c) PROVE DevicesInv' /\ rows' = rows
  <2>1. /\ rows' = rows /\ call[c].pc = "look"
        /\ call' = [call EXCEPT ![c].pc = "insert"] \/ Devices!Return(c)
    BY <1>7 DEF Devices!LookMissing
  <2>2. CASE Devices!Return(c)
    BY <1>4, <2>1, <2>2
  <2>3. CASE call' = [call EXCEPT ![c].pc = "insert"]
    <3> DEFINE new == [call[c] EXCEPT !.pc = "insert"]
    <3>1. new \in DeviceCall /\ new.pc = "insert" /\ new.user = call[c].user /\ new.token = call[c].token
      BY <1>0 DEF DeviceCall
    <3>2. call' = [call EXCEPT ![c] = new]
      BY <1>0, <2>3
    <3>3. call[c].user \in Member /\ call[c].token \in Device
      BY <2>1 DEF DevicesInv
    <3> HIDE DEF new
    <3> QED
      BY <1>1, <2>1, <3>1, <3>2, <3>3, CallStep
  <2> QED
    BY <2>1, <2>2, <2>3
<1>8. ASSUME NEW c \in Caller, Devices!CreatePushTokenForUser(c)
      PROVE  DevicesInv' /\ \A i \in DOMAIN rows : rows'[i] = rows[i]
  <2> DEFINE new == [user |-> call[c].user, token |-> call[c].token, deleted |-> FALSE]
  <2>1. call[c].pc = "insert" /\ Devices!Return(c) /\ (rows' = rows \/ rows' = Append(rows, new))
    BY <1>8 DEF Devices!CreatePushTokenForUser
  <2>2. new \in DeviceRow
    BY <2>1 DEF DevicesInv, DeviceRow
  <2> HIDE DEF new
  <2>3. /\ rows' \in Seq(DeviceRow) /\ DOMAIN rows \subseteq DOMAIN rows'
        /\ \A i \in DOMAIN rows : rows'[i] = rows[i]
    BY <1>0, <2>1, <2>2
  <2> QED
    BY <1>2, <2>1, <2>3 DEF RowsKept
<1>9. ASSUME NEW c \in Caller, Devices!Delete(c)
      PROVE  /\ DevicesInv' /\ call[c].pc = "delete" /\ call'[c] = Devices!Idle
             /\ \A i \in DOMAIN rows : i # call[c].found => rows'[i] = rows[i]
             /\ rows[call[c].found].user = call[c].user /\ rows[call[c].found].token = call[c].token
  <2>1. /\ call[c].pc = "delete" /\ Devices!Return(c) /\ call'[c] = Devices!Idle
        /\ rows' = [i \in DOMAIN rows |-> IF i \in Devices!DeletePushTokensByIDs(c)
                                         THEN [rows[i] EXCEPT !.deleted = TRUE] ELSE rows[i]]
    <3>1. Devices!Ids = DOMAIN rows
      BY <1>0 DEF Devices!Ids
    <3>2. call[c].pc = "delete" /\ Devices!Return(c)
      BY <1>9 DEF Devices!Delete
    <3>3. rows' = [i \in Devices!Ids |-> IF i \in Devices!DeletePushTokensByIDs(c)
                                        THEN [rows[i] EXCEPT !.deleted = TRUE] ELSE rows[i]]
      BY <1>9 DEF Devices!Delete
    <3>4. call'[c] = Devices!Idle
      BY <1>0, <3>2 DEF Devices!Return
    <3> QED
      BY <3>1, <3>2, <3>3, <3>4
  <2>2. \A i \in DOMAIN rows : /\ [rows[i] EXCEPT !.deleted = TRUE] \in DeviceRow
                               /\ [rows[i] EXCEPT !.deleted = TRUE].user = rows[i].user
                               /\ [rows[i] EXCEPT !.deleted = TRUE].token = rows[i].token
    <3> SUFFICES ASSUME NEW i \in DOMAIN rows
                 PROVE  /\ [rows[i] EXCEPT !.deleted = TRUE] \in DeviceRow
                        /\ [rows[i] EXCEPT !.deleted = TRUE].user = rows[i].user
                        /\ [rows[i] EXCEPT !.deleted = TRUE].token = rows[i].token
      OBVIOUS
    <3>1. rows[i] \in DeviceRow
      BY <1>0
    <3> QED
      BY <3>1 DEF DeviceRow
  <2>3. /\ DOMAIN rows' = DOMAIN rows
        /\ \A i \in DOMAIN rows : rows'[i] \in DeviceRow /\ rows'[i].user = rows[i].user /\ rows'[i].token = rows[i].token
        /\ \A i \in DOMAIN rows : i # call[c].found => rows'[i] = rows[i]
    BY <1>0, <2>1, <2>2 DEF Devices!DeletePushTokensByIDs
  <2>4. rows' \in Seq(DeviceRow)
    <3>1. DOMAIN rows = 1..Len(rows) /\ Len(rows) \in Nat
      BY <1>0
    <3>2. rows' \in [1..Len(rows) -> DeviceRow]
      BY <2>1, <2>3, <3>1
    <3> QED
      BY <3>1, <3>2
  <2>5. DevicesInv'
    BY <1>2, <2>1, <2>3, <2>4 DEF RowsKept
  <2> QED
    BY <2>1, <2>3, <2>5 DEF DevicesInv
<1>10. ASSUME NEW c \in Caller, Devices!Fails(c) \/ Devices!Logout(c) PROVE DevicesInv' /\ rows' = rows
  BY <1>4, <1>10 DEF Devices!Fails, Devices!Logout
<1>11. CASE \E c \in Caller : Devices!Delete(c)
  BY <1>9, <1>11
<1>12. CASE \E c \in Caller : Devices!CreatePushTokenForUser(c)
  BY <1>8, <1>12
<1>13. CASE \E c \in Caller : \/ \E op \in {"register", "unregister", "logout"}, u \in Member, t \in Device :
                                   Devices!Begin(c, op, u, t)
                              \/ Devices!LookFound(c) \/ Devices!LookMissing(c) \/ Devices!Fails(c)
                              \/ Devices!Logout(c)
  <2>1. DevicesInv' /\ rows' = rows
    BY <1>5, <1>6, <1>7, <1>10, <1>13
  <2> QED
    BY <2>1
<1> QED
  BY <1>3, <1>11, <1>12, <1>13 DEF Devices!Next, Devices!vars

\* For any number of users, devices, rows and calls: a device stops getting a user's
\* notifications only because that user asked for it, whatever was registered and
\* deleted between a call's two statements.
THEOREM OnlyOwnersRemove == Devices!Spec => OnlyOwnerRemoves
<1>1. DevicesInv /\ [Devices!Next]_Devices!vars => DevicesInv'
  BY DevicesStep
<1>2. DevicesInv /\ [Devices!Next]_Devices!vars =>
        [\A i \in Devices!Ids : rows'[i].deleted /\ ~rows[i].deleted =>
            \E c \in Caller : /\ call[c].pc = "delete" /\ call'[c] = Devices!Idle
                              /\ call[c].user = rows[i].user /\ call[c].token = rows[i].token]_Devices!vars
  <2>1. DevicesInv => Devices!Ids = DOMAIN rows
    BY DEF DevicesInv, Devices!Ids
  <2> QED
    BY <2>1, DevicesStep
<1> QED
  BY DevicesInit, <1>1, <1>2, PTL DEF Devices!Spec, OnlyOwnerRemoves, Devices!OnlyOwnerRemoves

----------------------------------------------------------------------------
(* The verification of addresses                                           *)

\* A row of pii.for_users.
VerifyRow == [unverified : Address \cup {None}, verified : Address \cup {None}]

\* A handler.
VerifyRequest == [stage : {"idle", "send", "write", "list", "task"},
                  user : User \cup {None}, email : Address \cup {None}]

\* What a handler has: one that is going to write or to list an address has seen that
\* its user confirmed it, whatever the row says by now.
HandlerOK(q) ==
    /\ q.stage # "idle" => q.user \in User
    /\ q.stage \in {"write", "list", "task"} => q.email \in Address /\ <<q.user, q.email>> \in confirmed

\* What is to be shown, and what the handlers may rely on.
VerificationInv ==
    /\ Verification!TypeOK /\ Verification!VerifiedWasConfirmed /\ Verification!ListedWasConfirmed
    /\ \A r \in Request : HandlerOK(request[r])

\* It holds before any request.
LEMMA VerificationInit ==
    ASSUME Verification!NoneAssumption, Verification!Init
    PROVE  VerificationInv
  BY DEF Verification!NoneAssumption, Verification!Init, Verification!Idle, Verification!Unverified, VerificationInv,
         Verification!TypeOK, Verification!VerifiedWasConfirmed, Verification!ListedWasConfirmed, HandlerOK

\* A step writes one row at most, and moves one handler at most.
RowMoves ==
    \/ row' = row
    \/ \E u \in User, w \in VerifyRow :
          /\ row' = [row EXCEPT ![u] = w] /\ (w.unverified = None \/ w.verified = None)
          /\ w.verified # None => <<u, w.verified>> \in confirmed'

\* The handler's part of it.
HandlerMoves ==
    \/ request' = request
    \/ \E r \in Request, q \in VerifyRequest : request' = [request EXCEPT ![r] = q] /\ HandlerOK(q)'

\* Such a step keeps the invariant if it only adds to what was confirmed.
LEMMA VerificationMoves ==
    ASSUME VerificationInv, confirmed \subseteq confirmed', confirmed' \subseteq User \X Address,
           inbox' \subseteq User \X Address, tasks' \subseteq User, listed' \subseteq Address,
           \A a \in listed' : \E u \in User : <<u, a>> \in confirmed', RowMoves, HandlerMoves
    PROVE  VerificationInv'
<1>1. row \in [User -> VerifyRow] /\ request \in [Request -> VerifyRequest]
  BY DEF VerificationInv, Verification!TypeOK, VerifyRow, VerifyRequest
<1>2. /\ row' \in [User -> VerifyRow]
      /\ \A v \in User : \/ row'[v] = row[v]
                         \/ /\ row'[v].unverified = None \/ row'[v].verified = None
                            /\ row'[v].verified # None => <<v, row'[v].verified>> \in confirmed'
  <2>1. CASE row' = row
    BY <1>1, <2>1
  <2>2. ASSUME NEW u \in User, NEW w \in VerifyRow, row' = [row EXCEPT ![u] = w],
               w.unverified = None \/ w.verified = None, w.verified # None => <<u, w.verified>> \in confirmed'
        PROVE  <1>2!1
    BY <1>1, <2>2
  <2> QED
    BY <2>1, <2>2 DEF RowMoves
<1>3. request' \in [Request -> VerifyRequest] /\ \A s \in Request : HandlerOK(request[s])'
  <2>1. \A s \in Request : HandlerOK(request[s])
    BY DEF VerificationInv
  <2>2. ASSUME NEW s \in Request, request'[s] = request[s] PROVE HandlerOK(request[s])'
    BY <2>1, <2>2 DEF HandlerOK
  <2>3. CASE request' = request
    BY <1>1, <2>2, <2>3
  <2>4. ASSUME NEW r \in Request, NEW q \in VerifyRequest, request' = [request EXCEPT ![r] = q], HandlerOK(q)'
        PROVE  request' \in [Request -> VerifyRequest] /\ \A s \in Request : HandlerOK(request[s])'
    <3>1. request' \in [Request -> VerifyRequest] /\ request'[r] = q /\ \A s \in Request \ {r} : request'[s] = request[s]
      BY <1>1, <2>4
    <3>2. HandlerOK(request[r])'
      BY <2>4, <3>1 DEF HandlerOK
    <3> QED
      BY <2>2, <3>1, <3>2
  <2> QED
    BY <2>3, <2>4 DEF HandlerMoves
<1>4. Verification!TypeOK'
  BY <1>2, <1>3 DEF VerificationInv, Verification!TypeOK, VerifyRow, VerifyRequest
<1>5. Verification!VerifiedWasConfirmed'
  BY <1>2 DEF VerificationInv, Verification!VerifiedWasConfirmed
<1> QED
  BY <1>3, <1>4, <1>5 DEF VerificationInv, Verification!ListedWasConfirmed

\* Every step is of that kind.
LEMMA VerificationStep ==
    ASSUME Verification!NoneAssumption, VerificationInv, [Verification!Next]_Verification!vars
    PROVE  VerificationInv'
<1>0. /\ row \in [User -> VerifyRow] /\ request \in [Request -> VerifyRequest] /\ None \notin Address
      /\ inbox \subseteq User \X Address /\ confirmed \subseteq User \X Address
      /\ tasks \subseteq User /\ listed \subseteq Address
      /\ \A a \in listed : \E u \in User : <<u, a>> \in confirmed
  BY DEF VerificationInv, Verification!TypeOK, VerifyRow, VerifyRequest, Verification!NoneAssumption,
         Verification!ListedWasConfirmed
<1>1. \A r \in Request : HandlerOK(request[r])
  BY DEF VerificationInv
<1>2. ASSUME NEW u \in User, NEW a \in Address, confirmed \subseteq confirmed', <<u, a>> \in confirmed',
             row' = [row EXCEPT ![u] = Verification!Verified(a)]
      PROVE  RowMoves
  <2>1. Verification!Verified(a) \in VerifyRow /\ Verification!Verified(a).unverified = None
        /\ Verification!Verified(a).verified = a
    BY DEF Verification!Verified, VerifyRow
  <2> QED
    BY <1>2, <2>1 DEF RowMoves
<1>3. ASSUME NEW r \in Request, Verification!Answer(r) PROVE HandlerMoves
  <2>1. Verification!Idle \in VerifyRequest /\ HandlerOK(Verification!Idle)'
    BY DEF Verification!Idle, VerifyRequest, HandlerOK
  <2> QED
    BY <1>3, <2>1 DEF Verification!Answer, HandlerMoves
<1>4. ASSUME NEW r \in Request, NEW stg \in {"send", "write", "list", "task"}, NEW u \in User,
             NEW a \in Address \cup {None}, Verification!Enter(r, stg, u, a),
             stg # "send" => a \in Address /\ <<u, a>> \in confirmed'
      PROVE  HandlerMoves
  <2> DEFINE q == [stage |-> stg, user |-> u, email |-> a]
  <2>1. q \in VerifyRequest /\ HandlerOK(q)'
    BY <1>4 DEF VerifyRequest, HandlerOK
  <2>2. request' = [request EXCEPT ![r] = q]
    BY <1>4 DEF Verification!Enter
  <2> HIDE DEF q
  <2> QED
    BY <2>1, <2>2 DEF HandlerMoves
<1>5. CASE UNCHANGED Verification!vars
  BY <1>0, <1>5, VerificationMoves DEF Verification!vars, RowMoves, HandlerMoves
<1>6. ASSUME NEW u \in User, NEW a \in Address,
             Verification!UpdateUserEmailWithAuthenticator(u, a) \/ Verification!CreateUser(u, a)
      PROVE  VerificationInv'
  <2>1. /\ confirmed' = confirmed \cup {<<u, a>>} /\ row' = [row EXCEPT ![u] = Verification!Verified(a)]
        /\ UNCHANGED <<inbox, request, listed>> /\ tasks' \subseteq User
    BY <1>0, <1>6 DEF Verification!UpdateUserEmailWithAuthenticator, Verification!CreateUser
  <2>2. RowMoves
    BY <1>2, <2>1
  <2>3. /\ confirmed \subseteq confirmed' /\ confirmed' \subseteq User \X Address
        /\ \A b \in listed' : \E v \in User : <<v, b>> \in confirmed'
    BY <1>0, <2>1
  <2>4. HandlerMoves
    BY <2>1 DEF HandlerMoves
  <2> QED
    BY <1>0, <2>1, <2>2, <2>3, <2>4, VerificationMoves
<1>7. ASSUME NEW r \in Request, NEW u \in User, NEW a \in Address,
             Verification!UpdateUserEmailWithManualVerification(r, u, a)
      PROVE  VerificationInv'
  <2>1. /\ row' = [row EXCEPT ![u] = Verification!Unverified(a)] /\ Verification!Enter(r, "send", u, None)
        /\ UNCHANGED <<inbox, tasks, listed, confirmed>>
    BY <1>7 DEF Verification!UpdateUserEmailWithManualVerification
  <2>2. /\ Verification!Unverified(a) \in VerifyRow /\ Verification!Unverified(a).verified = None
    BY DEF Verification!Unverified, VerifyRow
  <2>3. RowMoves
    BY <2>1, <2>2 DEF RowMoves
  <2>4. HandlerMoves
    BY <1>4, <2>1
  <2> QED
    BY <1>0, <2>1, <2>3, <2>4, VerificationMoves
<1>8. ASSUME NEW r \in Request, NEW u \in User, Verification!ResendEmailVerification(r, u)
      PROVE  VerificationInv'
  <2>1. Verification!Enter(r, "send", u, None) /\ UNCHANGED <<row, inbox, tasks, listed, confirmed>>
    BY <1>8 DEF Verification!ResendEmailVerification
  <2>2. HandlerMoves
    BY <1>4, <2>1
  <2> QED
    BY <1>0, <2>1, <2>2, VerificationMoves DEF RowMoves
<1>9. ASSUME NEW r \in Request, NEW u \in User, NEW a \in Address, Verification!verifyEmail(r, u, a)
      PROVE  VerificationInv'
  <2>1. /\ confirmed' = confirmed \cup {<<u, a>>} /\ UNCHANGED <<row, inbox, tasks, listed>>
        /\ Verification!Enter(r, "write", u, a) \/ request' = request
    BY <1>9 DEF Verification!verifyEmail
  <2>2. HandlerMoves
    <3>1. CASE request' = request
      BY <3>1 DEF HandlerMoves
    <3>2. CASE Verification!Enter(r, "write", u, a)
      BY <1>4, <2>1, <3>2
    <3> QED
      BY <2>1, <3>1, <3>2
  <2>3. /\ confirmed \subseteq confirmed' /\ confirmed' \subseteq User \X Address
        /\ \A b \in listed' : \E v \in User : <<v, b>> \in confirmed'
    BY <1>0, <2>1
  <2>4. RowMoves
    BY <2>1 DEF RowMoves
  <2> QED
    BY <1>0, <2>1, <2>2, <2>3, <2>4, VerificationMoves
<1>10. ASSUME NEW r \in Request, Verification!sendVerificationEmail(r) PROVE VerificationInv'
  <2> DEFINE u == request[r].user
             a == Verification!PiiEmailAddress(u)
  <2>1. /\ a # None /\ inbox' = inbox \cup {<<u, a>>} /\ Verification!Answer(r)
        /\ UNCHANGED <<row, tasks, listed, confirmed>> /\ request[r].stage = "send"
    BY <1>10 DEF Verification!sendVerificationEmail
  <2>2. u \in User
    BY <1>1, <2>1 DEF HandlerOK
  <2>3. a \in Address
    BY <1>0, <2>1, <2>2 DEF Verification!PiiEmailAddress, VerifyRow
  <2>4. HandlerMoves
    BY <1>3, <2>1
  <2> HIDE DEF a, u
  <2> QED
    BY <1>0, <2>1, <2>2, <2>3, <2>4, VerificationMoves DEF RowMoves
<1>11. ASSUME NEW r \in Request, Verification!UpdateUserVerifiedEmail(r) PROVE VerificationInv'
  <2> DEFINE u == request[r].user
             a == request[r].email
  <2>1. /\ request[r].stage = "write" /\ UNCHANGED <<inbox, tasks, listed, confirmed>>
        /\ \/ row' = [row EXCEPT ![u] = Verification!Verified(a)] /\ Verification!Enter(r, "list", u, a)
           \/ Verification!Answer(r) /\ row' = row
    BY <1>11 DEF Verification!UpdateUserVerifiedEmail, Verification!verifiedEmail
  <2>2. u \in User /\ a \in Address /\ <<u, a>> \in confirmed
    BY <1>1, <2>1 DEF HandlerOK
  <2> HIDE DEF u, a
  <2>3. CASE Verification!Answer(r) /\ row' = row
    BY <1>0, <1>3, <2>1, <2>3, VerificationMoves DEF RowMoves
  <2>4. CASE row' = [row EXCEPT ![u] = Verification!Verified(a)] /\ Verification!Enter(r, "list", u, a)
    <3>1. RowMoves
      BY <1>2, <2>1, <2>2, <2>4
    <3>2. HandlerMoves
      BY <1>4, <2>1, <2>2, <2>4
    <3> QED
      BY <1>0, <2>1, <3>1, <3>2, VerificationMoves
  <2> QED
    BY <2>1, <2>3, <2>4
<1>12. ASSUME NEW r \in Request, NEW u \in User, Verification!processAddToMailingList(r, u)
       PROVE  VerificationInv'
  <2> DEFINE a == Verification!Listable(u)
  <2>1. /\ UNCHANGED <<row, inbox, listed, confirmed>> /\ tasks' \subseteq User
        /\ request' = request \/ (a # None /\ Verification!Enter(r, "task", u, a))
    BY <1>0, <1>12 DEF Verification!processAddToMailingList
  <2>2. a # None => a \in Address /\ <<u, a>> \in confirmed
    <3>1. row[u] \in VerifyRow /\ (row[u].verified # None => <<u, row[u].verified>> \in confirmed)
      BY <1>0 DEF VerificationInv, Verification!VerifiedWasConfirmed
    <3> QED
      BY <3>1 DEF Verification!Listable, VerifyRow
  <2> HIDE DEF a
  <2>3. HandlerMoves
    <3>1. CASE request' = request
      BY <3>1 DEF HandlerMoves
    <3>2. CASE a # None /\ Verification!Enter(r, "task", u, a)
      BY <1>4, <2>1, <2>2, <3>2
    <3> QED
      BY <2>1, <3>1, <3>2
  <2> QED
    BY <1>0, <2>1, <2>3, VerificationMoves DEF RowMoves
<1>13. ASSUME NEW r \in Request, Verification!addEmailToSendgridList(r) PROVE VerificationInv'
  <2>1. /\ request[r].stage \in {"list", "task"} /\ listed' = listed \cup {request[r].email}
        /\ UNCHANGED <<row, inbox, confirmed>> /\ tasks' \subseteq User /\ Verification!Answer(r)
    BY <1>0, <1>13 DEF Verification!addEmailToSendgridList
  <2>2. request[r].user \in User /\ request[r].email \in Address /\ <<request[r].user, request[r].email>> \in confirmed
    BY <1>1, <2>1 DEF HandlerOK
  <2>3. HandlerMoves
    BY <1>3, <2>1
  <2>4. \A a \in listed' : \E u \in User : <<u, a>> \in confirmed'
    BY <1>0, <2>1, <2>2
  <2> QED
    BY <1>0, <2>1, <2>2, <2>3, <2>4, VerificationMoves DEF RowMoves
<1>14. ASSUME NEW r \in Request, Verification!Fails(r) PROVE VerificationInv'
  <2>1. Verification!Answer(r) /\ UNCHANGED <<row, inbox, tasks, listed, confirmed>>
    BY <1>14 DEF Verification!Fails
  <2>2. HandlerMoves
    BY <1>3, <2>1
  <2> QED
    BY <1>0, <2>1, <2>2, VerificationMoves DEF RowMoves
<1> QED
  BY <1>5, <1>6, <1>7, <1>8, <1>9, <1>10, <1>11, <1>12, <1>13, <1>14 DEF Verification!Next

\* For any number of users, addresses and handlers: an address is a user's verified
\* one only if that user has confirmed it, and Sendgrid's lists hold only addresses
\* that some user has confirmed.
THEOREM AddressesAreConfirmed ==
    ASSUME Verification!NoneAssumption
    PROVE  Verification!Spec => []OnlyConfirmed
<1>1. Verification!Init => VerificationInv
  BY VerificationInit
<1>2. VerificationInv /\ [Verification!Next]_Verification!vars => VerificationInv'
  BY VerificationStep
<1>3. VerificationInv => OnlyConfirmed
  BY DEF VerificationInv, OnlyConfirmed, Verification!OnlyConfirmed
<1> QED
  BY <1>1, <1>2, <1>3, PTL DEF Verification!Spec

----------------------------------------------------------------------------
(* Unsubscriptions                                                         *)

\* A handler and the goroutines it has started.
Handler == [stage : {"idle", "write", "wait", "answered"},
            unsubs : SUBSET Unsubscribing!emailTypes, calls : SUBSET Unsubscribing!Call]

\* How far a handler h that runs alone has brought record and groups towards its new
\* record: each call under way takes its group there, each group without a call is
\* there already, and so is the record once it is written.
OnItsWay(h) ==
    /\ h.stage # "answered"
    /\ \A c \in h.calls : c.unsubscribe <=> c.type \in h.unsubs
    /\ \A t \in Unsubscribing!emailTypes :
          (\A c \in h.calls : c.type # t) => (t \in suppressed <=> t \in h.unsubs)
    /\ h.stage = "wait" => record = h.unsubs

\* While nothing overlaps and nothing fails, at most one handler is under way, and it
\* is on its way; between handlers, record and groups agree.
CleanOK ==
    /\ \A r \in Request : handler[r].stage # "idle" =>
          OnItsWay(handler[r]) /\ \A s \in Request \ {r} : handler[s].stage = "idle"
    /\ (\A r \in Request : handler[r].stage = "idle") => record = suppressed

\* The invariant: nothing is claimed of record and groups while not clean.
UnsubscribingInv ==
    /\ Unsubscribing!TypeOK
    /\ \A r \in Request : handler[r].stage = "idle" => handler[r] = Unsubscribing!Idle
    /\ clean => CleanOK

\* It holds before any request.
LEMMA UnsubscribingInit == Unsubscribing!Init => UnsubscribingInv
  BY DEF Unsubscribing!Init, Unsubscribing!Idle, UnsubscribingInv, CleanOK, Unsubscribing!TypeOK

\* One handler moves to a state of its type.
LEMMA HandlerStep ==
    ASSUME UnsubscribingInv, NEW r \in Request, NEW h \in Handler, handler' = [handler EXCEPT ![r] = h],
           h.stage = "idle" => h = Unsubscribing!Idle,
           record' \subseteq Unsubscribing!emailTypes, suppressed' \subseteq Unsubscribing!emailTypes,
           reply' = reply, clean' \in BOOLEAN, clean' => CleanOK'
    PROVE  UnsubscribingInv'
<1>1. handler \in [Request -> Handler]
  BY DEF UnsubscribingInv, Unsubscribing!TypeOK, Handler
<1>2. handler' \in [Request -> Handler] /\ handler'[r] = h /\ \A s \in Request \ {r} : handler'[s] = handler[s]
  BY <1>1
<1>3. \A s \in Request : handler'[s].stage = "idle" => handler'[s] = Unsubscribing!Idle
  BY <1>2 DEF UnsubscribingInv
<1>4. Unsubscribing!TypeOK'
  <2>1. \A s \in Request : handler'[s].stage = "idle" => handler'[s].calls = {}
    BY <1>3 DEF Unsubscribing!Idle
  <2>2. reply \in {"none", "ok", "not found"}
    BY DEF UnsubscribingInv, Unsubscribing!TypeOK
  <2> QED
    BY <1>2, <2>1, <2>2 DEF Unsubscribing!TypeOK, Handler
<1> QED
  BY <1>3, <1>4 DEF UnsubscribingInv, Unsubscribing!Idle

\* The same for CleanOK, when the handlers that do not move are not under way.
LEMMA CleanStep ==
    ASSUME UnsubscribingInv, NEW r \in Request, NEW h \in Handler, handler' = [handler EXCEPT ![r] = h],
           \A s \in Request \ {r} : handler[s].stage = "idle",
           h.stage # "idle" => OnItsWay(h)', h.stage = "idle" => record' = suppressed'
    PROVE  CleanOK'
<1>1. handler \in [Request -> Handler]
  BY DEF UnsubscribingInv, Unsubscribing!TypeOK, Handler
<1>2. handler'[r] = h /\ \A s \in Request \ {r} : handler'[s].stage = "idle"
  BY <1>1
<1>3. handler'[r].stage # "idle" => OnItsWay(handler[r])'
  BY <1>2 DEF OnItsWay
<1> QED
  BY <1>2, <1>3 DEF CleanOK

\* Every step keeps it.
LEMMA UnsubscribingStep ==
    ASSUME UnsubscribingInv, [Unsubscribing!Next]_Unsubscribing!vars
    PROVE  UnsubscribingInv'
<1> DEFINE types == Unsubscribing!emailTypes
<1>0. /\ handler \in [Request -> Handler] /\ record \subseteq types /\ suppressed \subseteq types /\ clean \in BOOLEAN
      /\ Unsubscribing!Idle \in Handler /\ Unsubscribing!Idle.stage = "idle"
      /\ \A r \in Request : handler[r].stage = "idle" => handler[r] = Unsubscribing!Idle
  BY DEF UnsubscribingInv, Unsubscribing!TypeOK, Handler, Unsubscribing!Idle
<1>1. CASE UNCHANGED Unsubscribing!vars
  BY <1>1 DEF Unsubscribing!vars, UnsubscribingInv, Unsubscribing!TypeOK, CleanOK, OnItsWay
\* A handler starts; clean afterwards only if nobody else is under way.
<1>2. ASSUME NEW r \in Request, NEW unsubs \in SUBSET types, NEW calls \in SUBSET Unsubscribing!Call,
             handler[r] = Unsubscribing!Idle, Unsubscribing!Start(r, unsubs, calls),
             UNCHANGED <<record, suppressed, reply>>, clean' \in BOOLEAN,
             \A c \in calls : c.unsubscribe <=> c.type \in unsubs,
             clean' => /\ Unsubscribing!Alone
                       /\ \A t \in types : (\A c \in calls : c.type # t) => (t \in suppressed <=> t \in unsubs)
      PROVE  UnsubscribingInv'
  <2> DEFINE h == [stage |-> "write", unsubs |-> unsubs, calls |-> calls]
  <2>1. h \in Handler /\ h.stage = "write" /\ h.unsubs = unsubs /\ h.calls = calls
    BY DEF Handler
  <2>2. handler' = [handler EXCEPT ![r] = h]
    BY <1>2 DEF Unsubscribing!Start
  <2> HIDE DEF h
  <2>3. ASSUME clean' PROVE CleanOK'
    <3>1. \A s \in Request \ {r} : handler[s].stage = "idle"
      BY <1>0, <1>2, <2>3 DEF Unsubscribing!Alone
    <3>2. OnItsWay(h)'
      BY <1>2, <2>1, <2>3 DEF OnItsWay
    <3> QED
      BY <2>1, <2>2, <3>1, <3>2, CleanStep
  <2> QED
    BY <1>0, <1>2, <2>1, <2>2, <2>3, HandlerStep
<1>3. ASSUME NEW r \in Request, NEW ts \in SUBSET types, Unsubscribing!updateSubscriptions(r, ts)
      PROVE  UnsubscribingInv'
  <2>1. /\ handler[r] = Unsubscribing!Idle /\ Unsubscribing!Start(r, ts, Unsubscribing!updates(ts))
        /\ UNCHANGED <<record, suppressed, reply>> /\ clean' = Unsubscribing!Alone
    BY <1>3 DEF Unsubscribing!updateSubscriptions
  <2>2. /\ Unsubscribing!updates(ts) \in SUBSET Unsubscribing!Call
        /\ \A c \in Unsubscribing!updates(ts) : c.unsubscribe <=> c.type \in ts
        /\ \A t \in types : \E c \in Unsubscribing!updates(ts) : c.type = t
    <3> DEFINE entry(t) == [type |-> t, unsubscribe |-> t \in ts]
    <3>1. \A t \in types : /\ entry(t) \in Unsubscribing!Call /\ entry(t).type = t
                           /\ entry(t).unsubscribe <=> t \in ts
      <4> SUFFICES ASSUME NEW t \in types
                   PROVE  /\ entry(t) \in Unsubscribing!Call /\ entry(t).type = t
                          /\ entry(t).unsubscribe <=> t \in ts
        BY Zenon
      <4>1. CASE t \in ts
        <5>1. (t \in ts) = TRUE
          BY <4>1, Zenon
        <5> QED
          BY <4>1, <5>1 DEF Unsubscribing!Call
      <4>2. CASE t \notin ts
        <5>1. (t \in ts) = FALSE
          BY <4>2, SMT
        <5>2. entry(t) = [type |-> t, unsubscribe |-> FALSE]
          BY <5>1
        <5>3. /\ entry(t) \in Unsubscribing!Call /\ entry(t).type = t /\ entry(t).unsubscribe = FALSE
          BY <5>2 DEF Unsubscribing!Call
        <5> HIDE DEF entry
        <5> QED
          BY <4>2, <5>3
      <4> QED
        BY <4>1, <4>2, Zenon
    <3>2. Unsubscribing!updates(ts) = {entry(t) : t \in types}
      BY DEF Unsubscribing!updates
    <3> HIDE DEF entry
    <3> QED
      BY <3>1, <3>2
  <2> QED
    BY <1>2, <2>1, <2>2 DEF Unsubscribing!Alone
<1>4. ASSUME NEW r \in Request, NEW ts \in SUBSET types, NEW b \in BOOLEAN,
             handler[r] = Unsubscribing!Idle,
             Unsubscribing!Start(r, IF b THEN record \cup ts ELSE record \ ts,
                                 {[type |-> t, unsubscribe |-> b] : t \in ts}),
             UNCHANGED <<record, suppressed, reply>>, clean' = (clean /\ Unsubscribing!Alone)
      PROVE  UnsubscribingInv'
  <2> DEFINE unsubs == IF b THEN record \cup ts ELSE record \ ts
             calls == {[type |-> t, unsubscribe |-> b] : t \in ts}
  <2>1. unsubs \in SUBSET types
    BY <1>0
  <2>2. calls \in SUBSET Unsubscribing!Call /\ \A c \in calls : c.type \in ts /\ c.unsubscribe = b
    BY DEF Unsubscribing!Call
  <2>3. \A c \in calls : c.unsubscribe <=> c.type \in unsubs
    BY <2>2
  <2>4. ASSUME NEW t \in ts PROVE \E c \in calls : c.type = t
    <3>1. [type |-> t, unsubscribe |-> b] \in calls /\ [type |-> t, unsubscribe |-> b].type = t
      OBVIOUS
    <3> QED
      BY <3>1
  <2>5. ASSUME clean' PROVE record = suppressed
    BY <1>0, <1>4, <2>5 DEF UnsubscribingInv, CleanOK, Unsubscribing!Alone
  <2>6. ASSUME NEW t \in types, clean', \A c \in calls : c.type # t PROVE t \in suppressed <=> t \in unsubs
    BY <2>4, <2>5, <2>6
  <2> HIDE DEF unsubs, calls
  <2>7. Unsubscribing!Start(r, unsubs, calls) /\ clean' \in BOOLEAN /\ (clean' => Unsubscribing!Alone)
    BY <1>4 DEF unsubs, calls, Unsubscribing!Alone
  <2> QED
    BY <1>2, <1>4, <2>1, <2>2, <2>3, <2>6, <2>7
<1>5. ASSUME NEW r \in Request, NEW ts \in SUBSET types,
             Unsubscribing!unsubscribe(r, ts) \/ Unsubscribing!resubscribe(r, ts)
      PROVE  UnsubscribingInv'
  <2>1. CASE Unsubscribing!unsubscribe(r, ts)
    BY <1>4, <2>1 DEF Unsubscribing!unsubscribe
  <2>2. CASE Unsubscribing!resubscribe(r, ts)
    BY <1>4, <2>2 DEF Unsubscribing!resubscribe
  <2> QED
    BY <1>5, <2>1, <2>2
<1>6. ASSUME NEW r \in Request, Unsubscribing!UpdateUserEmailUnsubscriptions(r) PROVE UnsubscribingInv'
  <2>0. handler[r] \in Handler
    BY <1>0
  <2>h. PICK h : h = [handler[r] EXCEPT !.stage = "wait"]
    OBVIOUS
  <2>1. h \in Handler /\ h.stage = "wait" /\ h.unsubs = handler[r].unsubs /\ h.calls = handler[r].calls
    BY <2>0, <2>h DEF Handler
  <2>2. /\ handler' = [handler EXCEPT ![r] = h] /\ record' = handler[r].unsubs /\ handler[r].stage = "write"
        /\ UNCHANGED <<suppressed, reply, clean>>
    BY <1>0, <1>6, <2>h DEF Unsubscribing!UpdateUserEmailUnsubscriptions
  <2>3. record' \subseteq types
    BY <2>0, <2>2 DEF Handler
  <2>4. ASSUME clean' PROVE CleanOK'
    <3>1. OnItsWay(handler[r]) /\ \A s \in Request \ {r} : handler[s].stage = "idle"
      BY <2>2, <2>4 DEF UnsubscribingInv, CleanOK
    <3>2. OnItsWay(h)'
      BY <2>1, <2>2, <3>1 DEF OnItsWay
    <3> QED
      BY <2>1, <2>2, <3>1, <3>2, CleanStep
  <2> QED
    BY <1>0, <2>1, <2>2, <2>3, <2>4, HandlerStep
<1>7. ASSUME NEW r \in Request, Unsubscribing!AnswerError(r) PROVE UnsubscribingInv'
  <2> DEFINE h == [handler[r] EXCEPT !.stage = "answered", !.unsubs = {}]
  <2>0. handler[r] \in Handler
    BY <1>0
  <2>1. h \in Handler /\ h.stage = "answered"
    BY <2>0 DEF Handler
  <2>2. /\ handler' = [handler EXCEPT ![r] = h] \/ handler' = [handler EXCEPT ![r] = Unsubscribing!Idle]
        /\ UNCHANGED <<record, suppressed, reply>> /\ clean' = FALSE
    BY <1>0, <1>7 DEF Unsubscribing!AnswerError
  <2> HIDE DEF h
  <2> QED
    BY <1>0, <2>1, <2>2, HandlerStep
<1>8. ASSUME NEW r \in Request, Unsubscribing!AnswerOK(r) PROVE UnsubscribingInv'
  <2>0. handler[r] \in Handler /\ handler[r].stage = "wait" /\ handler[r].calls = {}
    BY <1>0, <1>8 DEF Unsubscribing!AnswerOK, Unsubscribing!Waited
  <2> DEFINE h == [handler[r] EXCEPT !.stage = "idle", !.unsubs = {}]
  <2>1. h = Unsubscribing!Idle
    <3>1. h \in Handler /\ h.stage = "idle" /\ h.unsubs = {} /\ h.calls = {}
      BY <2>0 DEF Handler
    <3> HIDE DEF h
    <3>2. h = [stage |-> h.stage, unsubs |-> h.unsubs, calls |-> h.calls]
      BY <3>1 DEF Handler
    <3> QED
      BY <3>1, <3>2 DEF Unsubscribing!Idle
  <2>2. handler' = [handler EXCEPT ![r] = h] /\ UNCHANGED <<record, suppressed, reply, clean>>
    BY <1>0, <1>8 DEF Unsubscribing!AnswerOK
  <2> HIDE DEF h
  <2>3. ASSUME clean' PROVE CleanOK'
    <3>1. OnItsWay(handler[r]) /\ \A s \in Request \ {r} : handler[s].stage = "idle"
      BY <2>0, <2>2, <2>3 DEF UnsubscribingInv, CleanOK
    <3>2. record = handler[r].unsubs /\ \A t \in types : t \in suppressed <=> t \in handler[r].unsubs
      BY <2>0, <3>1 DEF OnItsWay
    <3>3. record' = suppressed'
      BY <1>0, <2>2, <3>2
    <3> QED
      BY <1>0, <2>1, <2>2, <3>1, <3>3, CleanStep
  <2> QED
    BY <1>0, <2>1, <2>2, <2>3, HandlerStep
<1>9. ASSUME NEW r \in Request, NEW c \in Unsubscribing!Call, Unsubscribing!SendgridCall(r, c) PROVE UnsubscribingInv'
  <2>0. handler[r] \in Handler /\ c \in handler[r].calls /\ c.type \in types /\ c.unsubscribe \in BOOLEAN
    BY <1>0, <1>9 DEF Unsubscribing!SendgridCall, Unsubscribing!Call
  <2>h. PICK h : h = [handler[r] EXCEPT !.calls = handler[r].calls \ {c}]
    OBVIOUS
  <2> DEFINE moved == IF c.unsubscribe THEN suppressed \cup {c.type} ELSE suppressed \ {c.type}
  <2>1. /\ h \in Handler /\ h.stage = handler[r].stage /\ h.unsubs = handler[r].unsubs
        /\ h.calls = handler[r].calls \ {c} /\ handler[r].stage # "idle"
    <3>1. handler[r].stage # "idle"
      BY <1>0, <2>0 DEF Unsubscribing!Idle
    <3> QED
      BY <2>0, <2>h, <3>1 DEF Handler
  <2>2. /\ UNCHANGED <<record, reply>>
        /\ \/ handler[r].stage = "answered" /\ handler' = [handler EXCEPT ![r] = Unsubscribing!Idle]
           \/ handler' = [handler EXCEPT ![r] = h]
        /\ \/ suppressed' = moved /\ clean' = clean
           \/ suppressed' = suppressed /\ clean' = FALSE
    BY <1>0, <1>9, <2>h DEF Unsubscribing!SendgridCall
  <2>3. suppressed' \subseteq types /\ clean' \in BOOLEAN
    BY <1>0, <2>0, <2>2
  <2>4. ASSUME clean' PROVE CleanOK' /\ handler' = [handler EXCEPT ![r] = h]
    <3>1. OnItsWay(handler[r]) /\ \A s \in Request \ {r} : handler[s].stage = "idle"
      BY <2>1, <2>2, <2>4 DEF UnsubscribingInv, CleanOK
    <3>2. handler' = [handler EXCEPT ![r] = h] /\ suppressed' = moved
      BY <2>2, <2>4, <3>1 DEF OnItsWay
    <3>3. ASSUME NEW t \in types, \A d \in h.calls : d.type # t PROVE t \in moved <=> t \in h.unsubs
      <4>1. CASE t = c.type
        BY <2>0, <2>1, <3>1, <4>1 DEF OnItsWay
      <4>2. CASE t # c.type
        BY <2>0, <2>1, <3>1, <3>3, <4>2 DEF OnItsWay
      <4> QED
        BY <4>1, <4>2
    <3> HIDE DEF moved
    <3>4. OnItsWay(h)'
      BY <2>1, <2>2, <3>1, <3>2, <3>3 DEF OnItsWay
    <3> QED
      BY <2>1, <3>1, <3>2, <3>4, CleanStep
  <2>5. CASE handler' = [handler EXCEPT ![r] = h]
    BY <1>0, <2>1, <2>2, <2>3, <2>4, <2>5, HandlerStep
  <2>6. CASE ~clean' /\ handler' = [handler EXCEPT ![r] = Unsubscribing!Idle]
    BY <1>0, <2>2, <2>3, <2>6, HandlerStep
  <2> QED
    BY <2>2, <2>4, <2>5, <2>6
<1>10. ASSUME NEW path \in Unsubscribing!ClientPaths, Unsubscribing!ClientCalls(path) PROVE UnsubscribingInv'
  <2>1. UNCHANGED <<record, suppressed, handler, clean>> /\ reply' \in {"none", "ok", "not found"}
    BY <1>10 DEF Unsubscribing!ClientCalls
  <2> QED
    BY <2>1 DEF UnsubscribingInv, Unsubscribing!TypeOK, CleanOK, OnItsWay
<1> QED
  BY <1>1, <1>3, <1>5, <1>6, <1>7, <1>8, <1>9, <1>10 DEF Unsubscribing!Next

\* For any number of requests: while no handlers overlap and no step fails, record and
\* groups agree whenever every request is answered, and a full update that runs alone
\* makes them agree again.
THEOREM RecordAndGroupsAgree == Unsubscribing!Spec => []AgreeWhenClean
<1>1. Unsubscribing!Init => UnsubscribingInv
  BY UnsubscribingInit
<1>2. UnsubscribingInv /\ [Unsubscribing!Next]_Unsubscribing!vars => UnsubscribingInv'
  BY UnsubscribingStep
<1>3. UnsubscribingInv => AgreeWhenClean
  BY DEF UnsubscribingInv, AgreeWhenClean, Unsubscribing!AgreeWhenClean, Unsubscribing!Alone, Unsubscribing!Idle, CleanOK
<1> QED
  BY <1>1, <1>2, <1>3, PTL DEF Unsubscribing!Spec

----------------------------------------------------------------------------
(* Digests                                                                 *)

\* The instance's own copies of FiniteSets say the same as ours.
LEMMA MailingCounts == \A S : Mailing!Cardinality(S) = Cardinality(S)
  BY Zenon DEF Cardinality, Mailing!Cardinality

\* The type of a job.
JobRow == [stage : Mailing!Stages, cursor : 0..UserCount, running : SUBSET Mailing!UserKey,
           ran : [Mailing!UserKey -> 0..2], throughout : SUBSET Mailing!UserKey]

\* While a job pages, fn has run for users up to the cursor only, and for all those of
\* them that every query so far would have found.
JobOK(k) ==
    /\ \A u \in Mailing!UserKey : k.ran[u] <= 1
    /\ k.stage \in {"get", "set"} => k.cursor = 0 /\ \A u \in Mailing!UserKey : k.ran[u] = 0
    /\ k.stage = "page" =>
          /\ k.throughout \subseteq eligible
          /\ \A u \in Mailing!UserKey : k.ran[u] >= 1 => u <= k.cursor
          /\ \A u \in k.throughout : u <= k.cursor => k.ran[u] >= 1
    /\ k.stage \in {"wait", "done"} => \A u \in k.throughout : k.ran[u] >= 1

\* The invariant of the job.
MailingInv == Mailing!TypeOK /\ \A j \in Job : JobOK(job[j])

\* It holds before any job has started.
LEMMA MailingInit == ASSUME Mailing!DigestAssumption, Mailing!Init PROVE MailingInv
<1>1. Mailing!NewJob \in JobRow
  BY DEF Mailing!NewJob, JobRow, Mailing!Stages, Mailing!DigestAssumption, Mailing!UserKey
<1>2. JobOK(Mailing!NewJob)
  BY DEF Mailing!NewJob, JobOK
<1>3. job = [j \in Job |-> Mailing!NewJob] /\ eligible \subseteq Mailing!UserKey /\ sending = FALSE
  BY DEF Mailing!Init
<1> QED
  BY <1>1, <1>2, <1>3 DEF MailingInv, Mailing!TypeOK, JobRow

\* One job moves.
LEMMA JobStep ==
    ASSUME MailingInv, NEW j \in Job, NEW k \in JobRow, job' = [job EXCEPT ![j] = k], JobOK(k),
           eligible' = eligible, sending' \in BOOLEAN
    PROVE  MailingInv'
<1>1. job \in [Job -> JobRow] /\ eligible \subseteq Mailing!UserKey
  BY DEF MailingInv, Mailing!TypeOK, JobRow
<1>2. job' \in [Job -> JobRow] /\ job'[j] = k /\ \A i \in Job \ {j} : job'[i] = job[i]
  BY <1>1
<1>3. \A i \in Job : JobOK(job'[i])
  BY <1>2 DEF MailingInv
<1>4. \A i \in Job : JobOK(job[i])'
  BY <1>3 DEF JobOK
<1> QED
  BY <1>1, <1>2, <1>4 DEF MailingInv, Mailing!TypeOK, JobRow

\* A page: the users behind the cursor with fewer than EmailsAtATime before them.
FirstOf(A) == {u \in A : Cardinality({v \in A : v < u}) < EmailsAtATime}

\* There is nobody between the cursor and the last of the page that it leaves out,
\* and a page that is not full leaves out nobody.
LEMMA Pages ==
    ASSUME Mailing!DigestAssumption, NEW A \in SUBSET Mailing!UserKey, NEW U, U = FirstOf(A)
    PROVE  /\ IsFiniteSet(U) /\ Cardinality(U) \in Nat
           /\ \A u \in U, v \in A : v <= u => v \in U
           /\ Cardinality(U) < EmailsAtATime => U = A
<1>0. UserCount \in Nat /\ EmailsAtATime \in Nat \ {0} /\ Mailing!UserKey = 1..UserCount
  BY DEF Mailing!DigestAssumption, Mailing!UserKey
<1> DEFINE Before(u) == {v \in A : v < u}
<1>1. IsFiniteSet(A)
  <2>1. IsFiniteSet(1..UserCount)
    BY <1>0, FS_Interval
  <2> QED
    BY <1>0, <2>1, FS_Subset
<1>2. /\ \A u \in A : u \in U <=> Cardinality(Before(u)) < EmailsAtATime
      /\ U \subseteq A /\ \A u : Before(u) \in SUBSET A /\ \A v \in Before(u) : v < u
  BY DEF FirstOf
<1>3. \A u, v \in A : v <= u => Before(v) \in SUBSET Before(u)
  <2> SUFFICES ASSUME NEW u \in A, NEW v \in A, v <= u, NEW x \in Before(v) PROVE x \in Before(u)
    OBVIOUS
  <2>1. x \in A /\ x < v /\ x \in 1..UserCount /\ v \in 1..UserCount /\ u \in 1..UserCount
    BY <1>0
  <2> QED
    BY <1>0, <2>1
<1> HIDE DEF Before
<1>4. \A u : IsFiniteSet(Before(u)) /\ Cardinality(Before(u)) \in Nat
  BY <1>1, <1>2, FS_Subset, FS_CardinalityType
<1>5. IsFiniteSet(U) /\ Cardinality(U) \in Nat
  BY <1>1, <1>2, FS_Subset, FS_CardinalityType
<1>6. ASSUME NEW u \in U, NEW v \in A, v <= u PROVE v \in U
  <2>1. Cardinality(Before(v)) <= Cardinality(Before(u)) /\ Cardinality(Before(u)) < EmailsAtATime
    BY <1>2, <1>3, <1>4, <1>6, FS_Subset
  <2>2. Cardinality(Before(v)) < EmailsAtATime
    BY <1>0, <1>4, <2>1
  <2> QED
    BY <1>2, <2>2
<1>7. ASSUME Cardinality(U) < EmailsAtATime, A \ U # {} PROVE FALSE
  <2>1. PICK a \in A \ U : \A w \in A \ U : a <= w
    BY <1>0, <1>7, LeastExists
  <2>2. Before(a) \in SUBSET U
    <3> SUFFICES ASSUME NEW v \in Before(a) PROVE v \in U
      OBVIOUS
    <3>1. v \in A /\ v < a /\ v \in 1..UserCount /\ a \in 1..UserCount
      BY <1>0, <1>2
    <3> QED
      BY <2>1, <3>1
  <2>3. ~(Cardinality(Before(a)) < EmailsAtATime)
    BY <1>2, <2>1
  <2>4. Cardinality(Before(a)) <= Cardinality(U)
    BY <1>5, <2>2, FS_Subset
  <2> QED
    BY <1>0, <1>4, <1>5, <1>7, <2>3, <2>4
<1> QED
  BY <1>2, <1>5, <1>6, <1>7

\* A page keeps the invariant: it takes the users behind the cursor, for whom fn has
\* not run, up to the new cursor or up to the end.
LEMMA PageStep ==
    ASSUME Mailing!DigestAssumption, MailingInv, NEW j \in Job, Mailing!Page(j)
    PROVE  MailingInv'
<1>0. /\ job[j] \in JobRow /\ JobOK(job[j]) /\ eligible \subseteq Mailing!UserKey
      /\ job[j].stage = "page" /\ eligible' = eligible /\ sending' = sending /\ sending \in BOOLEAN
      /\ job \in [Job -> JobRow]
  BY DEF MailingInv, Mailing!TypeOK, Mailing!Page, JobRow
<1>1. PICK A \in SUBSET Mailing!UserKey : A = Mailing!After(job[j].cursor)
  BY <1>0 DEF Mailing!After
<1>2. PICK U \in SUBSET A : U = Mailing!Users(j)
  BY <1>1 DEF Mailing!Users
<1>3. /\ IsFiniteSet(U) /\ Cardinality(U) \in Nat
      /\ \A u \in U, v \in A : v <= u => v \in U
      /\ Cardinality(U) < EmailsAtATime => U = A
  <2>1. U = FirstOf(A)
    BY <1>1, <1>2, MailingCounts DEF Mailing!Users, FirstOf
  <2> QED
    BY <2>1, Pages
<1>4. PICK last \in BOOLEAN : /\ last <=> Cardinality(U) < EmailsAtATime
                              /\ last <=> Mailing!LastPage(U)
  BY MailingCounts DEF Mailing!LastPage
<1>5. UserCount \in Nat /\ Mailing!UserKey = 1..UserCount /\ EmailsAtATime \in Nat \ {0}
  BY DEF Mailing!DigestAssumption, Mailing!UserKey
<1>6. PICK m \in 0..UserCount : ~last => m = Mailing!Max(U) /\ m \in U /\ \A u \in U : u <= m
  <2>1. CASE last
    BY <1>5, <2>1
  <2>2. CASE ~last
    <3>1. U # {} /\ U \in SUBSET (1..UserCount)
      <4>1. U # {}
        BY <1>4, <1>5, <2>2, FS_EmptySet
      <4> QED
        BY <1>1, <1>2, <1>5, <4>1
    <3>2. \E v \in U : \A w \in U : v >= w
      BY <1>5, <3>1, LargestExists
    <3>3. Mailing!Max(U) \in U /\ \A u \in U : Mailing!Max(U) >= u
      BY <3>2 DEF Mailing!Max
    <3> QED
      <4>1. \A u \in U : u \in 1..UserCount
        BY <3>1
      <4>2. PICK m \in U : m = Mailing!Max(U) /\ \A u \in U : m >= u
        BY <3>3
      <4>3. m \in 0..UserCount /\ \A u \in U : u <= m
        BY <1>5, <4>1, <4>2
      <4> QED
        BY <4>2, <4>3
  <2> QED
    BY <2>1, <2>2
<1>7. PICK f \in [Mailing!UserKey -> 0..2] :
        f = [u \in Mailing!UserKey |-> IF u \in U /\ job[j].ran[u] < 2 THEN job[j].ran[u] + 1 ELSE job[j].ran[u]]
  <2> DEFINE g == [u \in Mailing!UserKey |->
                     IF u \in U /\ job[j].ran[u] < 2 THEN job[j].ran[u] + 1 ELSE job[j].ran[u]]
  <2>1. job[j].ran \in [Mailing!UserKey -> 0..2]
    BY <1>0 DEF JobRow
  <2>2. g \in [Mailing!UserKey -> 0..2]
    BY <2>1
  <2> HIDE DEF g
  <2>3. \E h \in [Mailing!UserKey -> 0..2] : h = g
    BY <2>2
  <2> QED
    BY <2>3 DEF g
<1>8. PICK k : k = [job[j] EXCEPT !.running = job[j].running \cup U, !.ran = f,
                                  !.stage = IF last THEN "wait" ELSE "page",
                                  !.cursor = IF last THEN job[j].cursor ELSE m]
  OBVIOUS
<1>9. job' = [job EXCEPT ![j] = k]
  <2>1. job' = [job EXCEPT ![j].running = job[j].running \cup U, ![j].ran = f,
                           ![j].stage = IF last THEN "wait" ELSE "page",
                           ![j].cursor = IF last THEN job[j].cursor ELSE m]
    BY <1>0, <1>2, <1>4, <1>6, <1>7 DEF Mailing!Page, Mailing!Cursor
  <2> QED
    BY <1>0, <1>8, <2>1
<1>10. /\ k \in JobRow /\ k.ran = f /\ k.stage = (IF last THEN "wait" ELSE "page")
       /\ k.cursor = (IF last THEN job[j].cursor ELSE m) /\ k.throughout = job[j].throughout
  BY <1>0, <1>2, <1>6, <1>7, <1>8 DEF JobRow, Mailing!Stages
<1>11. /\ \A u \in Mailing!UserKey : u > job[j].cursor => job[j].ran[u] = 0
       /\ \A u \in A : u > job[j].cursor
       /\ \A u \in eligible : u > job[j].cursor => u \in A
       /\ job[j].throughout \subseteq eligible /\ job[j].cursor \in 0..UserCount
       /\ \A u \in job[j].throughout : u <= job[j].cursor => job[j].ran[u] >= 1
       /\ \A u \in Mailing!UserKey : job[j].ran[u] >= 1 => u <= job[j].cursor
       /\ \A u \in Mailing!UserKey : job[j].ran[u] \in 0..1
  <2>1. job[j].ran \in [Mailing!UserKey -> 0..2] /\ job[j].cursor \in 0..UserCount
    BY <1>0 DEF JobRow
  <2>2. \A u \in A : u > job[j].cursor
    BY <1>1 DEF Mailing!After
  <2>3. \A u \in eligible : u > job[j].cursor => u \in A
    BY <1>1 DEF Mailing!After
  <2>4. /\ \A u \in Mailing!UserKey : job[j].ran[u] <= 1
        /\ \A u \in Mailing!UserKey : job[j].ran[u] >= 1 => u <= job[j].cursor
        /\ job[j].throughout \subseteq eligible
        /\ \A u \in job[j].throughout : u <= job[j].cursor => job[j].ran[u] >= 1
    BY <1>0 DEF JobOK
  <2>5. \A u \in Mailing!UserKey : job[j].ran[u] \in 0..1
    BY <2>1, <2>4
  <2>6. \A u \in Mailing!UserKey : u > job[j].cursor => job[j].ran[u] = 0
    BY <1>5, <2>1, <2>4, <2>5
  <2> QED
    BY <2>1, <2>2, <2>3, <2>4, <2>5, <2>6
<1>12. \A u \in Mailing!UserKey : f[u] = IF u \in U THEN 1 ELSE job[j].ran[u]
  BY <1>2, <1>7, <1>11
<1>13. \A u \in Mailing!UserKey : k.ran[u] <= 1
  BY <1>10, <1>11, <1>12
<1>14. CASE last
  <2>1. U = A
    BY <1>3, <1>4, <1>14
  <2>2. ASSUME NEW u \in k.throughout PROVE k.ran[u] >= 1
    <3>1. u \in eligible /\ u \in 1..UserCount
      BY <1>0, <1>5, <1>10, <1>11
    <3>2. CASE u > job[j].cursor
      BY <1>5, <1>10, <1>11, <1>12, <2>1, <3>1, <3>2
    <3>3. CASE u <= job[j].cursor
      <4>1. job[j].ran[u] = 1
        BY <1>5, <1>10, <1>11, <3>1, <3>3, <2>2
      <4> QED
        BY <1>5, <1>10, <1>12, <3>1, <4>1
    <3> QED
      BY <1>11, <3>1, <3>2, <3>3
  <2>3. JobOK(k)
    BY <1>10, <1>13, <1>14, <2>2 DEF JobOK
  <2> QED
    BY <1>0, <1>9, <1>10, <2>3, JobStep
<1>15. CASE ~last
  <2>0. m \in U /\ m \in A /\ m > job[j].cursor /\ \A u \in U : u <= m
    BY <1>2, <1>6, <1>11, <1>15
  <2>1. ASSUME NEW u \in Mailing!UserKey, k.ran[u] >= 1 PROVE u <= m
    <3>1. CASE u \in U
      BY <2>0, <3>1
    <3>2. CASE u \notin U
      <4>1. u <= job[j].cursor
        BY <1>10, <1>11, <1>12, <2>1, <3>2
      <4> QED
        BY <1>5, <1>11, <2>0, <4>1
    <3> QED
      BY <3>1, <3>2
  <2>2. ASSUME NEW u \in k.throughout, u <= m PROVE k.ran[u] >= 1
    <3>1. u \in eligible /\ u \in 1..UserCount
      BY <1>0, <1>5, <1>10, <1>11
    <3>2. CASE u > job[j].cursor
      <4>1. u \in U
        BY <1>3, <1>11, <2>0, <2>2, <3>1, <3>2
      <4> QED
        BY <1>5, <1>10, <1>12, <3>1, <4>1
    <3>3. CASE u <= job[j].cursor
      <4>1. job[j].ran[u] = 1
        BY <1>5, <1>10, <1>11, <3>1, <3>3, <2>2
      <4> QED
        BY <1>5, <1>10, <1>12, <3>1, <4>1
    <3> QED
      BY <1>11, <3>1, <3>2, <3>3
  <2>3. JobOK(k)
    BY <1>10, <1>11, <1>13, <1>15, <2>1, <2>2 DEF JobOK
  <2> QED
    BY <1>0, <1>9, <1>10, <2>3, JobStep
<1> QED
  BY <1>14, <1>15

\* Every step keeps it.
LEMMA MailingStep ==
    ASSUME Mailing!DigestAssumption, MailingInv, [Mailing!Next]_Mailing!vars
    PROVE  MailingInv'
<1>0. /\ job \in [Job -> JobRow] /\ eligible \subseteq Mailing!UserKey /\ sending \in BOOLEAN
      /\ \A j \in Job : JobOK(job[j])
  BY DEF MailingInv, Mailing!TypeOK, JobRow
<1>1. ASSUME job' = job, eligible \subseteq eligible', eligible' \subseteq Mailing!UserKey, sending' \in BOOLEAN
      PROVE  MailingInv'
  <2>1. ASSUME NEW j \in Job PROVE JobOK(job[j])'
    BY <1>0, <1>1 DEF JobOK
  <2> QED
    BY <1>0, <1>1, <2>1 DEF MailingInv, Mailing!TypeOK, JobRow
<1>2. CASE UNCHANGED Mailing!vars
  BY <1>0, <1>1, <1>2 DEF Mailing!vars
<1>3. CASE Mailing!Expire
  BY <1>0, <1>1, <1>3 DEF Mailing!Expire
<1>4. ASSUME NEW u \in Mailing!UserKey, Mailing!Appear(u) PROVE MailingInv'
  BY <1>0, <1>1, <1>4 DEF Mailing!Appear
<1>5. ASSUME NEW u \in Mailing!UserKey, Mailing!Disappear(u) PROVE MailingInv'
  <2>1. /\ eligible' = eligible \ {u} /\ sending' = sending
        /\ job' = [j \in Job |-> [job[j] EXCEPT !.throughout =
                                    IF job[j].stage = "page" THEN job[j].throughout \ {u} ELSE job[j].throughout]]
    BY <1>5 DEF Mailing!Disappear
  <2>2. ASSUME NEW j \in Job
        PROVE  job'[j] \in JobRow /\ JobOK(job[j])'
    <3>1. job[j] \in JobRow /\ JobOK(job[j])
      BY <1>0
    <3>2. job'[j] = [job[j] EXCEPT !.throughout =
                       IF job[j].stage = "page" THEN job[j].throughout \ {u} ELSE job[j].throughout]
      BY <2>1
    <3>3. /\ job'[j] \in JobRow /\ job'[j].stage = job[j].stage /\ job'[j].cursor = job[j].cursor
          /\ job'[j].ran = job[j].ran
          /\ job'[j].throughout = IF job[j].stage = "page" THEN job[j].throughout \ {u} ELSE job[j].throughout
      BY <3>1, <3>2 DEF JobRow
    <3>4. CASE job[j].stage = "page"
      <4>1. job'[j].throughout = job[j].throughout \ {u}
        BY <3>3, <3>4
      <4>2. job'[j].throughout \subseteq eligible'
        BY <2>1, <3>1, <3>4, <4>1 DEF JobOK
      <4> QED
        BY <3>1, <3>3, <3>4, <4>1, <4>2 DEF JobOK
    <3>5. CASE job[j].stage # "page"
      <4>1. job'[j].throughout = job[j].throughout
        BY <3>3, <3>5
      <4> QED
        BY <3>1, <3>3, <3>5, <4>1 DEF JobOK
    <3> QED
      BY <3>4, <3>5
  <2>3. job' \in [Job -> JobRow]
    BY <2>1, <2>2
  <2> QED
    BY <1>0, <2>1, <2>2, <2>3 DEF MailingInv, Mailing!TypeOK, JobRow
<1>6. ASSUME NEW j \in Job, NEW stg \in {"set", "failed", "refused", "done"}, job' = [job EXCEPT ![j].stage = stg],
             eligible' = eligible, sending' = sending,
             stg = "set" => job[j].stage = "get", stg = "done" => job[j].stage = "wait"
      PROVE  MailingInv'
  <2>0. job[j] \in JobRow /\ JobOK(job[j])
    BY <1>0
  <2>1. PICK k : k = [job[j] EXCEPT !.stage = stg]
    OBVIOUS
  <2>2. /\ k \in JobRow /\ k.stage = stg /\ k.cursor = job[j].cursor /\ k.ran = job[j].ran
        /\ k.throughout = job[j].throughout
    BY <2>0, <2>1 DEF JobRow, Mailing!Stages
  <2>3. job' = [job EXCEPT ![j] = k]
    BY <1>0, <1>6, <2>1
  <2>4. JobOK(k)
    BY <1>6, <2>0, <2>2 DEF JobOK
  <2> QED
    BY <1>0, <1>6, <2>2, <2>3, <2>4, JobStep
<1>7. ASSUME NEW j \in Job, Mailing!Refuse(j) \/ Mailing!Get(j) \/ Mailing!PageFails(j) \/ Mailing!Done(j)
      PROVE  MailingInv'
  BY <1>6, <1>7 DEF Mailing!Refuse, Mailing!Get, Mailing!PageFails, Mailing!Done
<1>8. ASSUME NEW j \in Job, Mailing!Set(j) PROVE MailingInv'
  <2>0. job[j] \in JobRow /\ JobOK(job[j]) /\ job[j].stage = "set" /\ eligible' = eligible /\ sending' \in BOOLEAN
    BY <1>0, <1>8 DEF Mailing!Set
  <2>1. PICK k : k = [job[j] EXCEPT !.stage = "page", !.throughout = eligible]
    OBVIOUS
  <2>2. k \in JobRow /\ k.stage = "page" /\ k.cursor = job[j].cursor /\ k.ran = job[j].ran /\ k.throughout = eligible
    BY <1>0, <2>0, <2>1 DEF JobRow, Mailing!Stages
  <2>3. job' = [job EXCEPT ![j] = k]
    BY <1>0, <1>8, <2>1 DEF Mailing!Set
  <2>4. JobOK(k)
    <3>1. k.cursor = 0 /\ \A u \in Mailing!UserKey : k.ran[u] = 0
      BY <2>0, <2>2 DEF JobOK
    <3>2. \A u \in k.throughout : u \in Nat /\ u > 0
      <4>1. k.throughout \subseteq 1..UserCount
        BY <1>0, <2>2 DEF Mailing!UserKey
      <4> QED
        BY <4>1
    <3> QED
      BY <2>2, <3>1, <3>2 DEF JobOK
  <2> QED
    BY <2>0, <2>2, <2>3, <2>4, JobStep
<1>9. ASSUME NEW j \in Job, NEW u \in Mailing!UserKey, Mailing!Ran(j, u) PROVE MailingInv'
  <2>0. job[j] \in JobRow /\ JobOK(job[j]) /\ eligible' = eligible /\ sending' = sending
    BY <1>0, <1>9 DEF Mailing!Ran
  <2>1. PICK k : k = [job[j] EXCEPT !.running = job[j].running \ {u}]
    OBVIOUS
  <2>2. /\ k \in JobRow /\ k.stage = job[j].stage /\ k.cursor = job[j].cursor /\ k.ran = job[j].ran
        /\ k.throughout = job[j].throughout
    BY <2>0, <2>1 DEF JobRow
  <2>3. job' = [job EXCEPT ![j] = k]
    BY <1>0, <1>9, <2>1 DEF Mailing!Ran
  <2>4. JobOK(k)
    BY <2>0, <2>2 DEF JobOK
  <2> QED
    BY <1>0, <2>0, <2>2, <2>3, <2>4, JobStep
<1> QED
  BY <1>2, <1>3, <1>4, <1>5, <1>7, <1>8, <1>9, PageStep DEF Mailing!Next

\* What the invariant says of a job that has had its last page.
LEMMA NobodyIsSkipped == MailingInv => Mailing!TypeOK /\ Mailing!AtMostOncePerJob /\ Mailing!NobodySkipped
  BY DEF MailingInv, JobOK, Mailing!AtMostOncePerJob, Mailing!NobodySkipped

\* The instance's own copy of the FiniteSets module says the same as ours.
LEMMA MailCounts == (\A S : Mail!IsFiniteSet(S) <=> IsFiniteSet(S)) /\ \A S : Mail!Cardinality(S) = Cardinality(S)
<1>1. \A S : Mail!IsFiniteSet(S) <=> IsFiniteSet(S)
  BY Zenon DEF IsFiniteSet, Mail!IsFiniteSet
<1>2. \A S : Mail!Cardinality(S) = Cardinality(S)
  BY Zenon DEF Cardinality, Mail!Cardinality
<1> QED
  BY <1>1, <1>2

\* The goroutines that have been heard.
Ended == {n \in Notification : sender[n] = "ended"}

\* The loop counts the goroutines it has heard, and every notification of the mail is
\* from one of them.  It goes on only while the mail is not full, and stops when it is
\* or when all have been heard.
MailInv ==
    /\ sender \in [Notification -> {"working", "errChan", "notifTemplates", "ended"}]
    /\ stage \in {"collect", "send", "mailed", "failed", "nothing"}
    /\ data \subseteq Ended /\ received = Cardinality(Ended)
    /\ IF stage = "collect" THEN Cardinality(data) < ResultLimit
       ELSE Cardinality(data) <= ResultLimit /\ (Mail!Full(data) \/ Ended = Notification)

\* It holds when the goroutines start.
LEMMA MailInit ==
    ASSUME Mail!DigestMailAssumption, Mail!Init
    PROVE  MailInv
<1>1. Ended = {} /\ data = {} /\ received = 0
  BY DEF Mail!Init, Ended
<1> QED
  BY <1>1, FS_EmptySet DEF Mail!Init, MailInv, Mail!DigestMailAssumption

\* The handler hears one more goroutine.
LEMMA Hear ==
    ASSUME Mail!DigestMailAssumption, MailInv, NEW n \in Notification, sender[n] # "ended",
           sender' = [sender EXCEPT ![n] = "ended"]
    PROVE  /\ sender' \in [Notification -> {"working", "errChan", "notifTemplates", "ended"}]
           /\ Ended' = Ended \cup {n} /\ Cardinality(Ended') = Cardinality(Ended) + 1
<1>1. sender' \in [Notification -> {"working", "errChan", "notifTemplates", "ended"}] /\ Ended' = Ended \cup {n}
  BY DEF MailInv, Ended
<1>2. n \notin Ended /\ IsFiniteSet(Ended)
  BY FS_Subset, MailCounts DEF Ended, Mail!DigestMailAssumption
<1> QED
  BY <1>1, <1>2, FS_AddElement

\* Every step keeps it.
LEMMA MailStep ==
    ASSUME Mail!DigestMailAssumption, MailInv, [Mail!Next]_Mail!vars
    PROVE  MailInv'
<1>0. IsFiniteSet(Ended) /\ Ended \subseteq Notification /\ IsFiniteSet(data)
      /\ Cardinality(Ended) \in Nat /\ Cardinality(data) \in Nat /\ ResultLimit \in Nat \ {0}
      /\ IsFiniteSet(Notification)
  <2>1. Ended \subseteq Notification /\ IsFiniteSet(Notification) /\ ResultLimit \in Nat \ {0}
    BY MailCounts DEF Ended, Mail!DigestMailAssumption
  <2>2. IsFiniteSet(Ended)
    BY <2>1, FS_Subset
  <2>3. IsFiniteSet(data)
    BY <2>2, FS_Subset DEF MailInv
  <2> QED
    BY <2>1, <2>2, <2>3, FS_CardinalityType
<1>1. CASE UNCHANGED Mail!vars
  BY <1>1 DEF Mail!vars, MailInv, Ended, Mail!Full
<1>2. ASSUME NEW n \in Notification, Mail!Convert(n) PROVE MailInv'
  <2>1. PICK channel \in {"errChan", "notifTemplates"} : sender' = [sender EXCEPT ![n] = channel]
    BY <1>2 DEF Mail!Convert, Mail!Converted
  <2>2. sender[n] = "working" /\ UNCHANGED <<data, received, stage>>
    BY <1>2 DEF Mail!Convert
  <2>3. sender' \in [Notification -> {"working", "errChan", "notifTemplates", "ended"}] /\ Ended' = Ended
    BY <2>1, <2>2 DEF MailInv, Ended
  <2> QED
    BY <2>2, <2>3 DEF MailInv, Mail!Full
<1>3. ASSUME NEW n \in Notification, Mail!ReceiveError(n) PROVE MailInv'
  <2>1. /\ sender[n] = "errChan" /\ sender' = [sender EXCEPT ![n] = "ended"] /\ received' = received + 1
        /\ UNCHANGED <<data, stage>> /\ stage = "collect"
    BY <1>3 DEF Mail!ReceiveError, Mail!More
  <2>2. /\ sender' \in [Notification -> {"working", "errChan", "notifTemplates", "ended"}]
        /\ Ended' = Ended \cup {n} /\ Cardinality(Ended') = Cardinality(Ended) + 1
    BY <2>1, Hear
  <2> QED
    BY <2>1, <2>2 DEF MailInv
<1>4. ASSUME NEW n \in Notification, Mail!ReceiveTemplate(n) PROVE MailInv'
  <2>1. /\ sender[n] = "notifTemplates" /\ sender' = [sender EXCEPT ![n] = "ended"] /\ received' = received + 1
        /\ data' = data \cup {n} /\ stage' = (IF Mail!Full(data') THEN "send" ELSE stage) /\ stage = "collect"
    BY <1>4 DEF Mail!ReceiveTemplate, Mail!More
  <2>2. /\ sender' \in [Notification -> {"working", "errChan", "notifTemplates", "ended"}]
        /\ Ended' = Ended \cup {n} /\ Cardinality(Ended') = Cardinality(Ended) + 1
    BY <2>1, Hear
  <2>3. Cardinality(data') = Cardinality(data) + 1
    <3>1. n \notin data
      BY <2>1 DEF MailInv, Ended
    <3> QED
      BY <1>0, <2>1, <3>1, FS_AddElement
  <2>4. Cardinality(data) < ResultLimit
    BY <2>1 DEF MailInv
  <2> QED
    BY <1>0, <2>1, <2>2, <2>3, <2>4, MailCounts DEF MailInv, Mail!Full
<1>5. CASE Mail!Collected
  <2>1. /\ stage = "collect" /\ ~(received < Cardinality(Notification)) /\ stage' \in {"nothing", "send"}
        /\ UNCHANGED <<sender, data, received>>
    BY <1>5, MailCounts DEF Mail!Collected, Mail!More
  <2>2. Ended = Notification
    <3>1. Cardinality(Ended) <= Cardinality(Notification) /\ Cardinality(Notification) \in Nat
      BY <1>0, FS_Subset, FS_CardinalityType
    <3>2. Cardinality(Ended) = Cardinality(Notification)
      BY <1>0, <2>1, <3>1 DEF MailInv
    <3> QED
      BY <1>0, <3>2, FS_Subset
  <2> QED
    BY <1>0, <2>1, <2>2 DEF MailInv, Ended
<1>6. CASE Mail!Send
  BY <1>6 DEF Mail!Send, MailInv, Ended, Mail!Full
<1> QED
  BY <1>1, <1>2, <1>3, <1>4, <1>5, <1>6 DEF Mail!Next

\* What the invariant says of a handler that has stopped receiving.
LEMMA MailIsComplete ==
    ASSUME Mail!DigestMailAssumption, MailInv
    PROVE  Mail!FullOrComplete /\ Mail!LeakBound
<1>1. IsFiniteSet(Notification) /\ Ended \subseteq Notification /\ data \subseteq Ended /\ ResultLimit \in Nat
  BY MailCounts DEF Mail!DigestMailAssumption, Ended, MailInv
<1>2. /\ IsFiniteSet(Ended) /\ Cardinality(data) <= Cardinality(Ended)
      /\ Cardinality(Ended) \in Nat /\ Cardinality(data) \in Nat /\ Cardinality(Notification) \in Nat
  <2>1. IsFiniteSet(Ended)
    BY <1>1, FS_Subset
  <2>2. IsFiniteSet(data) /\ Cardinality(data) <= Cardinality(Ended)
    BY <1>1, <2>1, FS_Subset
  <2> QED
    BY <1>1, <2>1, <2>2, FS_CardinalityType
<1>3. Mail!FullOrComplete
  BY MailCounts DEF MailInv, Ended, Mail!FullOrComplete
<1>4. Mail!LeakBound
  <2> DEFINE left == {n \in Notification : sender[n] # "ended"}
  <2>1. left = Notification \ Ended
    BY DEF Ended
  <2>2. Cardinality(left) = Cardinality(Notification) - Cardinality(Ended)
    <3>1. Notification \cap Ended = Ended
      BY <1>1
    <3> QED
      BY <1>1, <2>1, <3>1, FS_Difference
  <2> HIDE DEF left
  <2>3. ASSUME Mail!Returned
        PROVE  Cardinality(left) <= IF Cardinality(data) < ResultLimit THEN 0 ELSE Cardinality(Notification) - ResultLimit
    <3>1. stage # "collect"
      BY <2>3 DEF Mail!Returned
    <3>2. Cardinality(data) >= ResultLimit \/ Ended = Notification
      BY <3>1, MailCounts DEF MailInv, Mail!Full
    <3> QED
      BY <1>1, <1>2, <2>2, <3>2
  <2> QED
    BY <2>3, MailCounts DEF Mail!LeakBound, left
<1> QED
  BY <1>3, <1>4

\* For any number of users, jobs and notifications and any limits: a digest job handles
\* no user twice and skips nobody who is eligible in all of its queries, whoever comes
\* and goes between its pages; the mail of a user leaves out a notification that could
\* be converted only when it is full, and only then goroutines are left behind.
THEOREM DigestsAreComplete ==
    ASSUME Mailing!DigestAssumption, Mail!DigestMailAssumption
    PROVE  Mailing!Spec /\ Mail!Spec => []DigestIsComplete
<1>1. Mailing!Init => MailingInv
  BY MailingInit
<1>2. MailingInv /\ [Mailing!Next]_Mailing!vars => MailingInv'
  BY MailingStep
<1>3. Mail!Init => MailInv
  BY MailInit
<1>4. MailInv /\ [Mail!Next]_Mail!vars => MailInv'
  BY MailStep
<1>5. MailingInv /\ MailInv => DigestIsComplete
  BY NobodyIsSkipped, MailIsComplete DEF DigestIsComplete
<1> QED
  BY <1>1, <1>2, <1>3, <1>4, <1>5, PTL DEF Mailing!Spec, Mail!Spec
=============================================================================
