--------------------------- MODULE BatcherProofs ---------------------------
(***************************************************************************)
(* Proofs about the batcher for every set of goroutines, every set of      *)
(* parameters and every batch size.                                        *)
(***************************************************************************)
EXTENDS Batcher, WellFoundedInduction, TLAPS

\* The stages of doThunk.
InDoThunk == {"lookup", "readID", "assign", "lock", "bump", "advance"} \cup SubmitStage

\* How far DoAll has come: one thunk per parameter asked for, then one answer
\* per thunk called; a goroutine past its batch ID's LoadOrStore has a batch.
ProgressInv ==
    \A g \in Goroutine :
        /\ pc[g] = "start" => Len(thunks[g]) = 0
        /\ pc[g] \in InDoThunk => Len(thunks[g]) < Len(args[g])
        /\ pc[g] \notin {"wait", "returned"} => Len(answers[g]) = 0
        /\ pc[g] \in {"wait", "returned"} => Len(thunks[g]) = Len(args[g])
        /\ pc[g] = "wait" => Len(answers[g]) < Len(args[g])
        /\ Len(thunks[g]) <= Len(args[g])
        /\ Len(answers[g]) <= Len(thunks[g])
        /\ pc[g] \in {"lock", "advance"} \cup SubmitStage => cur[g] \in DOMAIN batches

\* A thunk names its own parameter: by its cached value, or by its index.
ThunkFor(t, p) ==
    IF t.hit THEN t.value.param = p
    ELSE /\ t.batch \in DOMAIN batches
         /\ t.index \in 1..Len(batches[t.batch].params)
         /\ batches[t.batch].params[t.index] = p

\* All thunks name their own parameters.
ThunkInv ==
    \A g \in Goroutine : \A k \in 1..Len(thunks[g]) : ThunkFor(thunks[g][k], args[g][k])

\* The goroutine that filled a batch keeps the index of its own parameter.
SlotInv ==
    \A g \in Goroutine : pc[g] \in SubmitStage \cup {"advance"} =>
        /\ slot[g] \in 1..Len(batches[cur[g]].params)
        /\ batches[cur[g]].params[slot[g]] = param(g)

\* Results stand at the index of their parameters, and only in closed batches.
Aligned(b) ==
    /\ Len(b.results) <= Len(b.params)
    /\ \A i \in 1..Len(b.results) : b.results[i].param = b.params[i]
    /\ b.status = "Open" => Len(b.results) = 0 /\ Len(b.params) < MaxBatchSize /\ ~b.done

\* What the batch function returned covers every parameter of the batch.
Complete(b) ==
    \/ Len(b.results) = Len(b.params) /\ Len(b.errors) = Len(b.params)
    \/ Len(b.errors) = 1 /\ b.errors[1]

\* Results are in their places, and complete once they are published.
ResultInv ==
    /\ \A b \in DOMAIN batches : Aligned(batches[b])
    /\ \A b \in DOMAIN batches : batches[b].done \/ timer[b] \in {"publish", "close"} => Complete(batches[b])
    /\ \A g \in Goroutine : pc[g] \in {"publish", "close"} => Complete(batches[cur[g]])

\* A cached result is for the parameter it is cached under.
CacheInv == \A p \in DOMAIN resultCache : resultCache[p].param = p

\* The inductive invariant of Batcher.
IInv ==
    /\ TypeOK
    /\ ProgressInv
    /\ ThunkInv
    /\ SlotInv
    /\ ResultInv
    /\ BatchBounded
    /\ CacheInv
    /\ SubmitOnce
    /\ AnswerForOwnParam

----------------------------------------------------------------------------
\* indexOf finds an index of the element, or says 0 when there is none.
LEMMA IndexOfFacts ==
    ASSUME NEW s \in Seq(Param), NEW x \in Param
    PROVE  \/ indexOf(s, x) = 0 /\ \A i \in 1..Len(s) : s[i] # x
           \/ indexOf(s, x) \in 1..Len(s) /\ s[indexOf(s, x)] = x
<1>1. CASE ~ \E i \in DOMAIN s : s[i] = x
  BY <1>1 DEF indexOf
<1>2. CASE \E i \in DOMAIN s : s[i] = x
  <2> DEFINE T == {i \in DOMAIN s : s[i] = x}
  <2>1. T \subseteq Nat /\ T # {}
    BY <1>2
  <2>2. PICK n \in T : \A m \in T : n <= m
    <3>1. PICK n \in T : \A m \in T : ~(<<m, n>> \in OpToRel(<, Nat))
      BY <2>1, NatLessThanWellFounded, WFMin
    <3>2. \A m \in T : ~(m < n)
      BY <2>1, <3>1 DEF OpToRel
    <3> QED
      BY <2>1, <3>2
  <2>3. n \in DOMAIN s /\ s[n] = x /\ \A j \in 1..(n - 1) : s[j] # x
    BY <2>2
  <2>4. indexOf(s, x) \in DOMAIN s /\ s[indexOf(s, x)] = x
    BY <1>2, <2>3 DEF indexOf
  <2> QED
    BY <2>4
<1> QED
  BY <1>1, <1>2

\* The initial state satisfies the inductive invariant.
LEMMA InitIInv == Init => IInv
  BY SizeAssumption DEF Init, IInv, TypeOK, ProgressInv, ThunkInv, SlotInv, ResultInv, BatchBounded,
     CacheInv, SubmitOnce, AnswerForOwnParam, InDoThunk, SubmitStage, PC

\* RegisterResultSubscriber keeps the inductive invariant.
LEMMA RegisterStep ==
    ASSUME IInv, NEW s \in Subscriber, RegisterResultSubscriber(s) PROVE IInv'
  BY DEF RegisterResultSubscriber, localVars, IInv, TypeOK, ProgressInv, ThunkInv, ThunkFor, SlotInv, param,
     ResultInv, BatchBounded, CacheInv, SubmitOnce, AnswerForOwnParam, TimerSubmits, CallerSubmits

----------------------------------------------------------------------------
(* What the steps share.  A step that changes batches only appends to      *)
(* their parameters, so that a thunk keeps its meaning.                    *)

\* Batches stay, and their parameters stay where they are.
ParamsGrow ==
    /\ DOMAIN batches \subseteq DOMAIN batches'
    /\ \A c \in DOMAIN batches :
          /\ Len(batches[c].params) <= Len(batches'[c].params)
          /\ \A i \in 1..Len(batches[c].params) : batches'[c].params[i] = batches[c].params[i]

\* A thunk that names its parameter still does after such a step.
LEMMA ThunkForGrows ==
    ASSUME TypeOK, TypeOK', ParamsGrow
    PROVE  \A t \in Thunk : \A p : ThunkFor(t, p) =>
               IF t.hit THEN t.value.param = p
               ELSE /\ t.batch \in DOMAIN batches'
                    /\ t.index \in 1..Len(batches'[t.batch].params)
                    /\ batches'[t.batch].params[t.index] = p
<1> SUFFICES ASSUME NEW t \in Thunk, NEW p, ThunkFor(t, p)
             PROVE  IF t.hit THEN t.value.param = p
                    ELSE /\ t.batch \in DOMAIN batches'
                         /\ t.index \in 1..Len(batches'[t.batch].params)
                         /\ batches'[t.batch].params[t.index] = p
  OBVIOUS
<1>1. CASE t.hit
  BY <1>1 DEF ThunkFor
<1>2. CASE ~t.hit
  <2>1. /\ t.batch \in DOMAIN batches
        /\ t.index \in 1..Len(batches[t.batch].params)
        /\ batches[t.batch].params[t.index] = p
    BY <1>2 DEF ThunkFor
  <2>2. Len(batches[t.batch].params) \in Nat /\ Len(batches'[t.batch].params) \in Nat
    BY <2>1 DEF TypeOK, ParamsGrow, Batch
  <2> QED
    BY <1>2, <2>1, <2>2 DEF ParamsGrow
<1> QED
  BY <1>1, <1>2

\* All thunks keep their meaning.
LEMMA ThunksKept ==
    ASSUME IInv, TypeOK', ParamsGrow, UNCHANGED <<args, thunks>>
    PROVE  ThunkInv'
<1> SUFFICES ASSUME NEW g \in Goroutine, NEW k \in 1..Len(thunks[g])
             PROVE  ThunkFor(thunks[g][k], args[g][k])'
  BY DEF ThunkInv
<1>1. thunks[g][k] \in Thunk
  BY DEF IInv, TypeOK
<1>2. ThunkFor(thunks[g][k], args[g][k])
  BY DEF IInv, ThunkInv
<1> QED
  BY <1>1, <1>2, ThunkForGrows DEF IInv, ThunkFor

\* A step that moves no goroutine in or out of DoThunk, and no local but pc,
\* leaves DoAll's bookkeeping as it was.
LEMMA FrameStep ==
    ASSUME IInv, TypeOK', ParamsGrow,
           UNCHANGED <<args, thunks, answers, cur, slot, resultCache>>,
           \A h \in Goroutine : \/ pc'[h] = pc[h]
                                \/ pc[h] \in SubmitStage /\ pc'[h] \in SubmitStage \cup {"advance"}
    PROVE  ProgressInv' /\ ThunkInv' /\ SlotInv' /\ CacheInv' /\ AnswerForOwnParam'
<1> USE DEF IInv
<1>1. ProgressInv'
  BY DEF ProgressInv, ParamsGrow, InDoThunk, SubmitStage
<1>2. ThunkInv'
  BY ThunksKept
<1>3. SlotInv'
  <2> SUFFICES ASSUME NEW g \in Goroutine, pc'[g] \in SubmitStage \cup {"advance"}
               PROVE  /\ slot'[g] \in 1..Len(batches'[cur'[g]].params)
                      /\ batches'[cur'[g]].params[slot'[g]] = param(g)'
    BY DEF SlotInv
  <2>1. /\ cur[g] \in DOMAIN batches
        /\ slot[g] \in 1..Len(batches[cur[g]].params)
        /\ batches[cur[g]].params[slot[g]] = param(g)
    BY DEF SlotInv, ProgressInv
  <2>2. param(g)' = param(g)
    BY DEF param
  <2> QED
    BY <2>1, <2>2 DEF TypeOK, ParamsGrow, Batch
<1>4. CacheInv' /\ AnswerForOwnParam'
  BY DEF CacheInv, AnswerForOwnParam
<1> QED
  BY <1>1, <1>2, <1>3, <1>4

\* A step of one goroutine inside addParamToBatch that touches neither a batch
\* nor its timeout.
LEMMA QuietStep ==
    ASSUME IInv, NEW g \in Goroutine, pc[g] \in {"lookup", "readID", "lock", "bump"},
           NEW next \in {"readID", "assign", "bump"}, pc' = [pc EXCEPT ![g] = next],
           UNCHANGED <<batches, resultCache, subscribers, published, timer, args, slot, thunks, answers>>,
           currentBatchID' \in Nat, cur' \in [Goroutine -> Nat],
           \A h \in Goroutine \ {g} : cur'[h] = cur[h]
    PROVE  IInv'
<1> USE DEF IInv
<1>1. /\ pc'[g] = next
      /\ \A h \in Goroutine \ {g} : pc'[h] = pc[h]
  BY DEF TypeOK
<1>2. \A h \in Goroutine : pc'[h] \in SubmitStage \cup {"lock", "advance"}
                              => h # g /\ pc'[h] = pc[h] /\ cur'[h] = cur[h]
  BY <1>1 DEF SubmitStage
<1>3. TypeOK'
  BY DEF TypeOK, PC
<1>4. ProgressInv'
  BY <1>1, <1>2 DEF ProgressInv, InDoThunk, SubmitStage
<1>5. ThunkInv'
  BY DEF ThunkInv, ThunkFor
<1>6. SlotInv'
  BY <1>2 DEF SlotInv, param
<1>7. ResultInv'
  BY <1>2 DEF ResultInv, SubmitStage
<1>8. SubmitOnce'
  BY <1>2 DEF SubmitOnce, TimerSubmits, CallerSubmits
<1>9. BatchBounded' /\ CacheInv' /\ AnswerForOwnParam'
  BY DEF BatchBounded, CacheInv, AnswerForOwnParam
<1> QED
  BY <1>3, <1>4, <1>5, <1>6, <1>7, <1>8, <1>9

----------------------------------------------------------------------------
(* One lemma per action.                                                   *)

\* Reading the current batch ID keeps the inductive invariant.
LEMMA ReadBatchIDStep ==
    ASSUME IInv, NEW g \in Goroutine, ReadBatchID(g) PROVE IInv'
<1>1. cur' \in [Goroutine -> Nat] /\ \A h \in Goroutine \ {g} : cur'[h] = cur[h]
  BY DEF ReadBatchID, IInv, TypeOK
<1> QED
  BY <1>1, QuietStep DEF ReadBatchID, batcherVars, IInv, TypeOK

\* Moving past a batch keeps the inductive invariant.
LEMMA BumpStep ==
    ASSUME IInv, NEW g \in Goroutine, BumpBatchID(g) PROVE IInv'
<1>1. currentBatchID' \in Nat /\ cur' \in [Goroutine -> Nat]
  BY DEF BumpBatchID, CompareAndSwap, localVars, IInv, TypeOK
<1> QED
  BY <1>1, QuietStep DEF BumpBatchID, localVars

\* Finding the batch closed keeps the inductive invariant.
LEMMA FindClosedStep ==
    ASSUME IInv, NEW g \in Goroutine, FindClosed(g) PROVE IInv'
<1>1. currentBatchID' \in Nat /\ cur' \in [Goroutine -> Nat]
  BY DEF FindClosed, batcherVars, localVars, IInv, TypeOK
<1> QED
  BY <1>1, QuietStep DEF FindClosed, batcherVars, localVars

\* A caller closing the done channel keeps the inductive invariant.
LEMMA CallerCloseStep ==
    ASSUME IInv, NEW g \in Goroutine, CallerCloseDone(g) PROVE IInv'
<1> DEFINE b == cur[g]
<1> USE DEF IInv
<1>1. TypeOK'
  <2>1. batches' \in [DOMAIN batches -> Batch] /\ DOMAIN batches' = DOMAIN batches
    BY DEF CallerCloseDone, CloseDone, TypeOK, Batch
  <2>2. pc' \in [Goroutine -> PC]
    BY DEF CallerCloseDone, TypeOK, PC, SubmitStage
  <2> QED
    BY <2>1, <2>2 DEF CallerCloseDone, localVars, TypeOK
<1>2. b \in DOMAIN batches /\ pc[g] \in SubmitStage
  BY DEF CallerCloseDone, ProgressInv, SubmitStage
<1>3. /\ DOMAIN batches' = DOMAIN batches
      /\ \A c \in DOMAIN batches :
            /\ batches'[c].params = batches[c].params
            /\ batches'[c].results = batches[c].results
            /\ batches'[c].errors = batches[c].errors
            /\ batches'[c].status = batches[c].status
            /\ c # b => batches'[c].done = batches[c].done
  BY <1>2 DEF CallerCloseDone, CloseDone, TypeOK, Batch
<1>4. ParamsGrow
  BY <1>3 DEF ParamsGrow, TypeOK, Batch
<1>5. pc' = [pc EXCEPT ![g] = "advance"] /\ UNCHANGED <<timer, resultCache, localVars>>
  BY DEF CallerCloseDone
<1>6. ProgressInv' /\ ThunkInv' /\ SlotInv' /\ CacheInv' /\ AnswerForOwnParam'
  BY <1>1, <1>2, <1>4, <1>5, FrameStep DEF localVars, TypeOK, SubmitStage
<1>9. ResultInv'
  <2>1. Complete(batches[b]) /\ batches[b].status = "Closed"
    BY <1>2 DEF CallerCloseDone, ResultInv, SubmitOnce, CallerSubmits
  <2>2. \A c \in DOMAIN batches : Complete(batches'[c]) <=> Complete(batches[c])
    BY <1>3 DEF Complete
  <2>3. \A c \in DOMAIN batches : Aligned(batches'[c])
    BY <1>3, <2>1 DEF Aligned, ResultInv
  <2>4. \A c \in DOMAIN batches : batches'[c].done \/ timer'[c] \in {"publish", "close"} => Complete(batches'[c])
    BY <1>3, <1>5, <2>1, <2>2 DEF ResultInv
  <2>5. \A h \in Goroutine : pc'[h] \in {"publish", "close"} => Complete(batches'[cur'[h]])
    BY <1>3, <1>5, <2>2 DEF ResultInv, ProgressInv, SubmitStage, localVars, TypeOK
  <2> QED
    BY <1>3, <2>3, <2>4, <2>5 DEF ResultInv
<1>10. BatchBounded'
  BY <1>3 DEF BatchBounded
<1>11. SubmitOnce'
  <2>1. \A h \in Goroutine : pc'[h] \in SubmitStage => pc[h] \in SubmitStage /\ h # g
    BY <1>5 DEF TypeOK, SubmitStage
  <2>2. \A c \in DOMAIN batches : TimerSubmits(c)' <=> TimerSubmits(c)
    BY <1>5 DEF TimerSubmits
  <2>3. ~TimerSubmits(b) /\ \A h \in Goroutine : CallerSubmits(h, b) => h = g
    BY <1>2 DEF SubmitOnce, CallerSubmits
  <2>4. cur' = cur
    BY <1>5 DEF localVars
  <2> QED
    BY <1>2, <1>3, <2>1, <2>2, <2>3, <2>4 DEF SubmitOnce, TimerSubmits, CallerSubmits, ProgressInv
<1> QED
  BY <1>1, <1>6, <1>9, <1>10, <1>11

\* A timeout closing the done channel keeps the inductive invariant.
LEMMA TimerCloseStep ==
    ASSUME IInv, NEW b \in DOMAIN timer, TimerCloseDone(b) PROVE IInv'
<1> USE DEF IInv
<1>1. TypeOK'
  BY DEF TimerCloseDone, CloseDone, localVars, TypeOK, TimerStage, SubmitStage, Batch
<1>2. b \in DOMAIN batches /\ TimerSubmits(b)
  BY DEF TimerCloseDone, TypeOK, TimerSubmits, SubmitStage
<1>3. /\ DOMAIN batches' = DOMAIN batches
      /\ \A c \in DOMAIN batches :
            /\ batches'[c].params = batches[c].params
            /\ batches'[c].results = batches[c].results
            /\ batches'[c].errors = batches[c].errors
            /\ batches'[c].status = batches[c].status
            /\ c # b => batches'[c].done = batches[c].done
  BY <1>2 DEF TimerCloseDone, CloseDone, TypeOK, Batch
<1>4. ParamsGrow
  BY <1>3 DEF ParamsGrow, TypeOK, Batch
<1>5. timer' = [timer EXCEPT ![b] = "fired"] /\ UNCHANGED <<pc, resultCache, localVars>>
  BY DEF TimerCloseDone
<1>6. ProgressInv' /\ ThunkInv' /\ SlotInv' /\ CacheInv' /\ AnswerForOwnParam'
  BY <1>1, <1>4, <1>5, FrameStep DEF localVars
<1>7. ResultInv'
  <2>1. Complete(batches[b]) /\ batches[b].status = "Closed"
    BY <1>2 DEF TimerCloseDone, ResultInv, SubmitOnce
  <2>2. \A c \in DOMAIN batches : Complete(batches'[c]) <=> Complete(batches[c])
    BY <1>3 DEF Complete
  <2>3. \A c \in DOMAIN batches : Aligned(batches'[c])
    BY <1>3, <2>1 DEF Aligned, ResultInv
  <2>4. \A c \in DOMAIN batches : batches'[c].done \/ timer'[c] \in {"publish", "close"} => Complete(batches'[c])
    BY <1>3, <1>5, <2>1, <2>2 DEF ResultInv, TypeOK
  <2>5. \A h \in Goroutine : pc'[h] \in {"publish", "close"} => Complete(batches'[cur'[h]])
    BY <1>3, <1>5, <2>2 DEF ResultInv, ProgressInv, SubmitStage, localVars
  <2> QED
    BY <1>3, <2>3, <2>4, <2>5 DEF ResultInv
<1>8. BatchBounded'
  BY <1>3 DEF BatchBounded
<1>9. SubmitOnce'
  <2>1. \A c \in DOMAIN batches : TimerSubmits(c)' => TimerSubmits(c) /\ c # b
    BY <1>5 DEF TimerSubmits, TypeOK, SubmitStage
  <2>2. \A h \in Goroutine : ~CallerSubmits(h, b)
    BY <1>2 DEF SubmitOnce, CallerSubmits
  <2>3. cur' = cur /\ pc' = pc
    BY <1>5 DEF localVars
  <2> QED
    BY <1>3, <2>1, <2>2, <2>3 DEF SubmitOnce, TimerSubmits, CallerSubmits, ProgressInv
<1> QED
  BY <1>1, <1>6, <1>7, <1>8, <1>9

\* What the batch function returns: the batch keeps its parameters, and its
\* results stand at the index of theirs.
LEMMA BatchFuncFacts ==
    ASSUME TypeOK, NEW b \in DOMAIN batches, BatchFunc(b)
    PROVE  /\ DOMAIN batches' = DOMAIN batches
           /\ batches' \in [DOMAIN batches -> Batch]
           /\ \A c \in DOMAIN batches : c # b => batches'[c] = batches[c]
           /\ batches'[b].params = batches[b].params
           /\ batches'[b].status = batches[b].status
           /\ batches'[b].done = batches[b].done
           /\ Len(batches'[b].results) <= Len(batches[b].params)
           /\ \A i \in 1..Len(batches'[b].results) :
                 batches'[b].results[i].param = batches[b].params[i]
           /\ Complete(batches'[b])
<1> DEFINE ps == batches[b].params
           fetched == [i \in 1..Len(ps) |-> [param |-> ps[i], primed |-> FALSE, batch |-> b]]
<1>1. ps \in Seq(Param) /\ Len(ps) \in Nat /\ b \in Nat
  BY DEF TypeOK, Batch
<1>2. fetched \in Seq(Result) /\ Len(fetched) = Len(ps)
  <2>1. \A i \in 1..Len(ps) : [param |-> ps[i], primed |-> FALSE, batch |-> b] \in Result
    BY <1>1 DEF Result
  <2> QED
    BY <1>1, <2>1
<1>3. CASE \E errs \in [1..Len(ps) -> BOOLEAN] :
              batches' = [batches EXCEPT ![b].results = fetched, ![b].errors = errs]
  <2>1. PICK errs \in [1..Len(ps) -> BOOLEAN] :
              batches' = [batches EXCEPT ![b].results = fetched, ![b].errors = errs]
    BY <1>3
  <2>2. errs \in Seq(BOOLEAN) /\ Len(errs) = Len(ps)
    BY <1>1
  <2>3. batches'[b] = [batches[b] EXCEPT !.results = fetched, !.errors = errs]
    BY <2>1 DEF TypeOK
  <2>4. batches'[b].results = fetched /\ batches'[b].errors = errs
    BY <2>3 DEF TypeOK, Batch
  <2>0. batches[b] \in Batch
    BY DEF TypeOK
  <2> HIDE DEF fetched
  <2>5. batches'[b] \in Batch
    BY <1>2, <2>2, <2>3, <2>0 DEF Batch
  <2>6. Complete(batches'[b])
    <3>1. batches'[b].params = ps
      BY <2>3 DEF TypeOK, Batch
    <3> QED
      BY <1>2, <2>2, <2>4, <3>1 DEF Complete
  <2>7. \A i \in 1..Len(ps) : fetched[i].param = ps[i]
    BY DEF fetched
  <2> QED
    BY <1>1, <1>2, <2>1, <2>3, <2>4, <2>5, <2>6, <2>7 DEF TypeOK, Batch
<1>4. CASE batches' = [batches EXCEPT ![b].results = <<>>, ![b].errors = <<TRUE>>]
  <2>1. batches'[b] = [batches[b] EXCEPT !.results = <<>>, !.errors = <<TRUE>>]
    BY <1>4 DEF TypeOK
  <2>2. batches'[b].results = <<>> /\ batches'[b].errors = <<TRUE>> /\ batches'[b] \in Batch
    <3>1. <<>> \in Seq(Result) /\ <<TRUE>> \in Seq(BOOLEAN) /\ batches[b] \in Batch
      BY DEF TypeOK
    <3> QED
      BY <2>1, <3>1 DEF Batch
  <2>3. Complete(batches'[b])
    BY <2>2 DEF Complete
  <2> QED
    BY <1>1, <1>4, <2>1, <2>2, <2>3 DEF TypeOK, Batch
<1> QED
  BY <1>3, <1>4 DEF BatchFunc

\* A caller running the batch function keeps the inductive invariant.
LEMMA CallerBatchFuncStep ==
    ASSUME IInv, NEW g \in Goroutine, CallerBatchFunc(g) PROVE IInv'
<1> DEFINE b == cur[g]
<1> USE DEF IInv
<1>1. b \in DOMAIN batches /\ pc[g] \in SubmitStage /\ CallerSubmits(g, b)
  BY DEF CallerBatchFunc, ProgressInv, SubmitStage, CallerSubmits
<1>2. batches[b].status = "Closed" /\ ~batches[b].done
  BY <1>1 DEF SubmitOnce
<1>3. pc' = [pc EXCEPT ![g] = "publish"] /\ UNCHANGED <<timer, resultCache, localVars>>
  BY DEF CallerBatchFunc
<1>4. BatchFunc(b)
  BY DEF CallerBatchFunc
<1> HIDE DEF b
<1>5. TypeOK'
  BY <1>1, <1>3, <1>4, BatchFuncFacts DEF CallerBatchFunc, TypeOK, localVars, PC, SubmitStage
<1>6. ParamsGrow
  <2>1. DOMAIN batches' = DOMAIN batches /\ \A c \in DOMAIN batches : batches'[c].params = batches[c].params
    BY <1>1, <1>4, BatchFuncFacts
  <2>2. \A c \in DOMAIN batches : Len(batches[c].params) \in Nat
    BY DEF TypeOK, Batch
  <2> QED
    BY <2>1, <2>2 DEF ParamsGrow
<1>7. ProgressInv' /\ ThunkInv' /\ SlotInv' /\ CacheInv' /\ AnswerForOwnParam'
  BY <1>1, <1>3, <1>5, <1>6, FrameStep DEF localVars, TypeOK, SubmitStage
<1>8. ResultInv'
  <2>1. \A c \in DOMAIN batches : Aligned(batches'[c])
    BY <1>1, <1>2, <1>4, BatchFuncFacts DEF Aligned, ResultInv
  <2>2. \A c \in DOMAIN batches : batches'[c].done \/ timer'[c] \in {"publish", "close"} => Complete(batches'[c])
    BY <1>1, <1>3, <1>4, BatchFuncFacts DEF ResultInv
  <2>3. \A h \in Goroutine : pc'[h] \in {"publish", "close"} => Complete(batches'[cur'[h]])
    BY <1>1, <1>3, <1>4, BatchFuncFacts DEF ResultInv, ProgressInv, SubmitStage, localVars, TypeOK, b
  <2> QED
    BY <1>1, <1>4, <2>1, <2>2, <2>3, BatchFuncFacts DEF ResultInv
<1>9. BatchBounded'
  BY <1>1, <1>4, BatchFuncFacts DEF BatchBounded
<1>10. SubmitOnce'
  <2>1. /\ cur' = cur /\ timer' = timer
        /\ \A h \in Goroutine : pc'[h] \in SubmitStage <=> pc[h] \in SubmitStage
    BY <1>1, <1>3 DEF localVars, TypeOK, SubmitStage
  <2>2. /\ DOMAIN batches' = DOMAIN batches
        /\ \A c \in DOMAIN batches : /\ batches'[c].status = batches[c].status
                                     /\ batches'[c].done = batches[c].done
    BY <1>1, <1>4, BatchFuncFacts
  <2> QED
    BY <2>1, <2>2 DEF SubmitOnce, TimerSubmits, CallerSubmits
<1> QED
  BY <1>5, <1>7, <1>8, <1>9, <1>10

\* A timeout running the batch function keeps the inductive invariant.
LEMMA TimerBatchFuncStep ==
    ASSUME IInv, NEW b \in DOMAIN timer, TimerBatchFunc(b) PROVE IInv'
<1> USE DEF IInv
<1>1. b \in DOMAIN batches /\ TimerSubmits(b)
  BY DEF TimerBatchFunc, TypeOK, TimerSubmits, SubmitStage
<1>2. batches[b].status = "Closed" /\ ~batches[b].done
  BY <1>1 DEF SubmitOnce
<1>3. timer' = [timer EXCEPT ![b] = "publish"] /\ UNCHANGED <<pc, resultCache, localVars>>
  BY DEF TimerBatchFunc
<1>4. BatchFunc(b)
  BY DEF TimerBatchFunc
<1>5. TypeOK'
  BY <1>1, <1>3, <1>4, BatchFuncFacts DEF TimerBatchFunc, TypeOK, localVars, TimerStage, SubmitStage
<1>6. ParamsGrow
  <2>1. DOMAIN batches' = DOMAIN batches /\ \A c \in DOMAIN batches : batches'[c].params = batches[c].params
    BY <1>1, <1>4, BatchFuncFacts
  <2>2. \A c \in DOMAIN batches : Len(batches[c].params) \in Nat
    BY DEF TypeOK, Batch
  <2> QED
    BY <2>1, <2>2 DEF ParamsGrow
<1>7. ProgressInv' /\ ThunkInv' /\ SlotInv' /\ CacheInv' /\ AnswerForOwnParam'
  BY <1>3, <1>5, <1>6, FrameStep DEF localVars
<1>8. ResultInv'
  <2>1. \A c \in DOMAIN batches : Aligned(batches'[c])
    BY <1>1, <1>2, <1>4, BatchFuncFacts DEF Aligned, ResultInv
  <2>2. \A c \in DOMAIN batches : batches'[c].done \/ timer'[c] \in {"publish", "close"} => Complete(batches'[c])
    BY <1>1, <1>3, <1>4, BatchFuncFacts DEF ResultInv, TypeOK
  <2>3. \A h \in Goroutine : pc'[h] \in {"publish", "close"} => Complete(batches'[cur'[h]])
    BY <1>1, <1>3, <1>4, BatchFuncFacts DEF ResultInv, ProgressInv, SubmitStage, localVars
  <2> QED
    BY <1>1, <1>4, <2>1, <2>2, <2>3, BatchFuncFacts DEF ResultInv
<1>9. BatchBounded'
  BY <1>1, <1>4, BatchFuncFacts DEF BatchBounded
<1>10. SubmitOnce'
  <2>1. /\ cur' = cur /\ pc' = pc
        /\ \A c \in DOMAIN batches : timer'[c] \in SubmitStage <=> timer[c] \in SubmitStage
    BY <1>1, <1>3 DEF localVars, TypeOK, SubmitStage, TimerSubmits
  <2>2. /\ DOMAIN batches' = DOMAIN batches
        /\ \A c \in DOMAIN batches : /\ batches'[c].status = batches[c].status
                                     /\ batches'[c].done = batches[c].done
    BY <1>1, <1>4, BatchFuncFacts
  <2> QED
    BY <2>1, <2>2 DEF SubmitOnce, TimerSubmits, CallerSubmits, ProgressInv
<1> QED
  BY <1>5, <1>7, <1>8, <1>9, <1>10

\* Publishing changes no batch and keeps every submitter submitting.
LEMMA PublishStep ==
    ASSUME IInv, published' \subseteq Subscriber \X Result,
           pc' \in [Goroutine -> PC], timer' \in [DOMAIN batches -> TimerStage],
           UNCHANGED <<currentBatchID, batches, resultCache, subscribers, localVars>>,
           \A h \in Goroutine : pc'[h] = pc[h] \/ (pc[h] = "publish" /\ pc'[h] = "close"),
           \A c \in DOMAIN batches : timer'[c] = timer[c] \/ (timer[c] = "publish" /\ timer'[c] = "close")
    PROVE  IInv'
<1> USE DEF IInv
<1>1. TypeOK'
  BY DEF TypeOK, localVars
<1>2. ParamsGrow
  BY DEF ParamsGrow, TypeOK, Batch
<1>3. ProgressInv' /\ ThunkInv' /\ SlotInv' /\ CacheInv' /\ AnswerForOwnParam'
  BY <1>1, <1>2, FrameStep DEF localVars, SubmitStage
<1>4. ResultInv' /\ BatchBounded'
  BY DEF ResultInv, BatchBounded, localVars
<1>5. SubmitOnce'
  BY DEF SubmitOnce, TimerSubmits, CallerSubmits, localVars, SubmitStage, ProgressInv
<1> QED
  BY <1>1, <1>3, <1>4, <1>5

\* What is published has the type of a result.
LEMMA PublishedType ==
    ASSUME IInv, NEW b \in DOMAIN batches, publishToSubscribers(b)
    PROVE  published' \subseteq Subscriber \X Result
  BY DEF publishToSubscribers, IInv, TypeOK, Batch

\* A caller publishing its batch keeps the inductive invariant.
LEMMA CallerPublishStep ==
    ASSUME IInv, NEW g \in Goroutine, CallerPublish(g) PROVE IInv'
<1>1. cur[g] \in DOMAIN batches
  BY DEF CallerPublish, IInv, ProgressInv, SubmitStage
<1>2. published' \subseteq Subscriber \X Result
  BY <1>1, PublishedType DEF CallerPublish
<1>3. pc \in [Goroutine -> PC] /\ timer \in [DOMAIN batches -> TimerStage]
  BY DEF IInv, TypeOK
<1>4. /\ pc' \in [Goroutine -> PC] /\ timer' = timer
      /\ \A h \in Goroutine : pc'[h] = pc[h] \/ (pc[h] = "publish" /\ pc'[h] = "close")
  BY <1>3 DEF CallerPublish, PC, SubmitStage
<1>5. UNCHANGED <<currentBatchID, batches, resultCache, subscribers, localVars>>
  BY DEF CallerPublish
<1> QED
  BY <1>2, <1>3, <1>4, <1>5, PublishStep

\* A timeout publishing its batch keeps the inductive invariant.
LEMMA TimerPublishStep ==
    ASSUME IInv, NEW b \in DOMAIN timer, TimerPublish(b) PROVE IInv'
<1>1. b \in DOMAIN batches
  BY DEF IInv, TypeOK
<1>2. published' \subseteq Subscriber \X Result
  BY <1>1, PublishedType DEF TimerPublish
<1>3. pc \in [Goroutine -> PC] /\ timer \in [DOMAIN batches -> TimerStage]
  BY DEF IInv, TypeOK
<1>4. /\ pc' = pc /\ timer' \in [DOMAIN batches -> TimerStage]
      /\ \A c \in DOMAIN batches : timer'[c] = timer[c] \/ (timer[c] = "publish" /\ timer'[c] = "close")
  BY <1>3 DEF TimerPublish, TimerStage, SubmitStage
<1>5. UNCHANGED <<currentBatchID, batches, resultCache, subscribers, localVars>>
  BY DEF TimerPublish
<1> QED
  BY <1>2, <1>3, <1>4, <1>5, PublishStep

\* A timeout that fires keeps the inductive invariant.
LEMMA CloseAfterTimeoutStep ==
    ASSUME IInv, NEW b \in DOMAIN timer, CloseAfterTimeout(b) PROVE IInv'
<1> USE DEF IInv
<1>1. b \in DOMAIN batches /\ timer[b] = "sleeping" /\ ~TimerSubmits(b)
  BY DEF CloseAfterTimeout, TypeOK, TimerSubmits, SubmitStage
<1>2. CASE batches[b].status = "Open"
  <2>1. /\ batches' = [batches EXCEPT ![b].status = "Closed"]
        /\ timer' = [timer EXCEPT ![b] = "submit"]
        /\ UNCHANGED <<currentBatchID, resultCache, subscribers, published, pc, localVars>>
    BY <1>2 DEF CloseAfterTimeout
  <2>2. TypeOK'
    <3>1. batches' \in [DOMAIN batches -> Batch] /\ DOMAIN batches' = DOMAIN batches
      BY <1>1, <2>1 DEF TypeOK, Batch, Status
    <3>2. timer' \in [DOMAIN batches -> TimerStage]
      BY <1>1, <2>1 DEF TypeOK, TimerStage, SubmitStage
    <3> QED
      BY <2>1, <3>1, <3>2 DEF TypeOK, localVars
  <2>3. /\ DOMAIN batches' = DOMAIN batches
        /\ batches'[b].status = "Closed"
        /\ \A c \in DOMAIN batches :
              /\ batches'[c].params = batches[c].params
              /\ batches'[c].results = batches[c].results
              /\ batches'[c].errors = batches[c].errors
              /\ batches'[c].done = batches[c].done
              /\ c # b => batches'[c].status = batches[c].status
    BY <1>1, <2>1 DEF TypeOK, Batch
  <2>4. ParamsGrow
    <3>1. \A c \in DOMAIN batches : Len(batches[c].params) \in Nat
      BY DEF TypeOK, Batch
    <3> QED
      BY <2>3, <3>1 DEF ParamsGrow
  <2>5. ProgressInv' /\ ThunkInv' /\ SlotInv' /\ CacheInv' /\ AnswerForOwnParam'
    BY <2>1, <2>2, <2>4, FrameStep DEF localVars
  <2>6. ~batches[b].done /\ \A h \in Goroutine : ~CallerSubmits(h, b)
    BY <1>1, <1>2 DEF ResultInv, Aligned, SubmitOnce
  <2>7. ResultInv'
    <3>1. \A c \in DOMAIN batches : Complete(batches'[c]) <=> Complete(batches[c])
      BY <2>3 DEF Complete
    <3>2. \A c \in DOMAIN batches : Aligned(batches'[c])
      BY <2>3 DEF Aligned, ResultInv
    <3>3. \A c \in DOMAIN batches : batches'[c].done \/ timer'[c] \in {"publish", "close"} => Complete(batches'[c])
      BY <1>1, <2>1, <2>3, <3>1 DEF ResultInv, TypeOK
    <3>4. \A h \in Goroutine : pc'[h] \in {"publish", "close"} => Complete(batches'[cur'[h]])
      BY <2>1, <2>3, <3>1 DEF ResultInv, ProgressInv, SubmitStage, localVars
    <3> QED
      BY <2>3, <3>2, <3>3, <3>4 DEF ResultInv
  <2>8. BatchBounded'
    BY <2>3 DEF BatchBounded
  <2>9. SubmitOnce'
    <3>1. /\ cur' = cur /\ pc' = pc
          /\ \A c \in DOMAIN batches \ {b} : timer'[c] = timer[c]
      BY <2>1 DEF localVars, TypeOK
    <3> QED
      BY <2>3, <2>6, <3>1 DEF SubmitOnce, TimerSubmits, CallerSubmits, ProgressInv
  <2> QED
    BY <2>2, <2>5, <2>7, <2>8, <2>9
<1>3. CASE batches[b].status # "Open"
  <2>1. /\ timer' = [timer EXCEPT ![b] = "fired"]
        /\ UNCHANGED <<batches, currentBatchID, resultCache, subscribers, published, pc, localVars>>
    BY <1>3 DEF CloseAfterTimeout
  <2>2. TypeOK'
    BY <1>1, <2>1 DEF TypeOK, localVars, TimerStage
  <2>3. ParamsGrow
    BY <2>1 DEF ParamsGrow, TypeOK, Batch
  <2>4. ProgressInv' /\ ThunkInv' /\ SlotInv' /\ CacheInv' /\ AnswerForOwnParam'
    BY <2>1, <2>2, <2>3, FrameStep DEF localVars
  <2>5. \A c \in DOMAIN batches : timer'[c] \in SubmitStage => timer'[c] = timer[c]
    BY <2>1 DEF TypeOK, SubmitStage
  <2>6. ResultInv' /\ BatchBounded'
    BY <2>1, <2>5 DEF ResultInv, BatchBounded, localVars, SubmitStage
  <2>7. SubmitOnce'
    BY <2>1, <2>5 DEF SubmitOnce, TimerSubmits, CallerSubmits, localVars, ProgressInv
  <2> QED
    BY <2>2, <2>4, <2>6, <2>7
<1> QED
  BY <1>2, <1>3

\* Joining a batch, created or not, keeps the inductive invariant.
LEMMA AssignStep ==
    ASSUME IInv, NEW g \in Goroutine, AssignBatch(g) PROVE IInv'
<1> USE DEF IInv
<1> DEFINE b == cur[g]
           stored == LoadOrStore(batches, b, newBatch)
           numAssigned == stored[b].numCallers + 1
<1>1. b \in Nat /\ newBatch \in Batch /\ "none" \in TimerStage
  BY DEF TypeOK, newBatch, Batch, Status, TimerStage
<1>2. /\ DOMAIN stored = DOMAIN batches \cup {b}
      /\ stored \in [DOMAIN batches \cup {b} -> Batch]
      /\ \A c \in DOMAIN batches : stored[c] = batches[c]
      /\ b \notin DOMAIN batches => stored[b] = newBatch
  <2>1. batches \in [DOMAIN batches -> Batch]
    BY DEF TypeOK
  <2> QED
    BY <1>1, <2>1 DEF LoadOrStore
<1>3. /\ timer' \in [DOMAIN batches \cup {b} -> TimerStage]
      /\ \A c \in DOMAIN batches : timer'[c] = timer[c]
      /\ b \notin DOMAIN batches => timer'[b] = "none"
  <2>1. DOMAIN timer = DOMAIN batches /\ timer \in [DOMAIN timer -> TimerStage]
    BY DEF TypeOK
  <2>2. timer' = LoadOrStore(timer, b, "none")
    BY DEF AssignBatch
  <2> QED
    BY <1>1, <2>1, <2>2 DEF LoadOrStore
<1>4. /\ batches' = [stored EXCEPT ![b].numCallers = numAssigned]
      /\ pc' = [pc EXCEPT ![g] = IF numAssigned > MaxBatchSize THEN "bump" ELSE "lock"]
      /\ pc[g] = "assign"
      /\ UNCHANGED <<currentBatchID, resultCache, subscribers, published, localVars>>
  BY DEF AssignBatch
<1> HIDE DEF stored
<1>5. /\ batches' \in [DOMAIN batches \cup {b} -> Batch]
      /\ DOMAIN batches' = DOMAIN batches \cup {b}
      /\ \A c \in DOMAIN batches \cup {b} :
              /\ batches'[c].params = stored[c].params
              /\ batches'[c].results = stored[c].results
              /\ batches'[c].errors = stored[c].errors
              /\ batches'[c].done = stored[c].done
              /\ batches'[c].status = stored[c].status
  <2>1. stored[b] \in Batch
    BY <1>2
  <2>2. numAssigned \in Nat
    BY <2>1 DEF Batch
  <2>3. batches'[b] = [stored[b] EXCEPT !.numCallers = numAssigned]
    BY <1>2, <1>4
  <2>4. \A c \in DOMAIN batches \ {b} : batches'[c] = stored[c]
    BY <1>2, <1>4
  <2>5. /\ batches'[b] \in Batch
        /\ batches'[b].params = stored[b].params
        /\ batches'[b].results = stored[b].results
        /\ batches'[b].errors = stored[b].errors
        /\ batches'[b].done = stored[b].done
        /\ batches'[b].status = stored[b].status
    BY <2>1, <2>2, <2>3 DEF Batch
  <2> QED
    BY <1>2, <1>4, <2>4, <2>5
<1>6. TypeOK'
  BY <1>1, <1>3, <1>4, <1>5 DEF TypeOK, localVars, PC
<1>7. ParamsGrow
  <2>1. \A c \in DOMAIN batches : Len(batches[c].params) \in Nat
    BY DEF TypeOK, Batch
  <2> QED
    BY <1>2, <1>5, <2>1 DEF ParamsGrow
<1>8. \A h \in Goroutine : pc'[h] = pc[h] \/ (h = g /\ pc[h] = "assign" /\ pc'[h] \in {"bump", "lock"})
  BY <1>4 DEF TypeOK
<1>9. args' = args /\ thunks' = thunks /\ answers' = answers /\ cur' = cur /\ slot' = slot
  BY <1>4 DEF localVars
<1>10. ProgressInv'
  BY <1>5, <1>8, <1>9 DEF ProgressInv, InDoThunk, SubmitStage
<1>11. ThunkInv'
  BY <1>6, <1>7, <1>9, ThunksKept
<1>12. SlotInv'
  BY <1>2, <1>5, <1>8, <1>9 DEF SlotInv, ProgressInv, SubmitStage, param
<1>13. \A c \in DOMAIN batches :
          /\ batches'[c].params = batches[c].params
          /\ batches'[c].results = batches[c].results
          /\ batches'[c].errors = batches[c].errors
          /\ batches'[c].done = batches[c].done
          /\ batches'[c].status = batches[c].status
  BY <1>2, <1>5
<1>14. b \notin DOMAIN batches =>
          /\ batches'[b].params = <<>> /\ batches'[b].results = <<>>
          /\ batches'[b].status = "Open" /\ ~batches'[b].done
  BY <1>2, <1>5 DEF newBatch
<1>15. ResultInv'
  <2>1. \A c \in DOMAIN batches : Complete(batches[c]) <=> Complete(batches'[c])
    BY <1>13 DEF Complete
  <2>2. \A c \in DOMAIN batches : Aligned(batches'[c])
    BY <1>13 DEF ResultInv, Aligned
  <2>3. b \notin DOMAIN batches => Aligned(batches'[b])
    BY <1>14, SizeAssumption DEF Aligned
  <2>4. \A c \in DOMAIN batches' : batches'[c].done \/ timer'[c] \in {"publish", "close"} => Complete(batches'[c])
    BY <1>3, <1>5, <1>13, <1>14, <2>1 DEF ResultInv
  <2>5. \A h \in Goroutine : pc'[h] \in {"publish", "close"} => Complete(batches'[cur'[h]])
    BY <1>8, <1>9, <2>1 DEF ResultInv, ProgressInv, SubmitStage
  <2> QED
    BY <1>5, <2>2, <2>3, <2>4, <2>5 DEF ResultInv
<1>16. BatchBounded'
  <2>1. b \notin DOMAIN batches => Len(batches'[b].params) <= MaxBatchSize /\ DOMAIN batches'[b].params = {}
    BY <1>14, SizeAssumption
  <2> QED
    BY <1>5, <1>13, <2>1 DEF BatchBounded
<1>17. SubmitOnce'
  BY <1>3, <1>5, <1>8, <1>9, <1>13 DEF SubmitOnce, TimerSubmits, CallerSubmits, ProgressInv, SubmitStage
<1>18. CacheInv' /\ AnswerForOwnParam'
  BY <1>4, <1>9 DEF CacheInv, AnswerForOwnParam
<1> QED
  BY <1>6, <1>10, <1>11, <1>12, <1>15, <1>16, <1>17, <1>18

----------------------------------------------------------------------------
\* DoThunk returning a thunk that names its parameter keeps DoAll's bookkeeping.
LEMMA ReturnFrame ==
    ASSUME IInv, TypeOK', ParamsGrow, NEW g \in Goroutine, NEW t \in Thunk, Return(g, t),
           pc[g] \in InDoThunk,
           UNCHANGED <<args, cur, answers, resultCache>>,
           \A h \in Goroutine \ {g} : slot'[h] = slot[h],
           IF t.hit THEN t.value.param = param(g)
           ELSE /\ t.batch \in DOMAIN batches'
                /\ t.index \in 1..Len(batches'[t.batch].params)
                /\ batches'[t.batch].params[t.index] = param(g)
    PROVE  ProgressInv' /\ ThunkInv' /\ SlotInv' /\ CacheInv' /\ AnswerForOwnParam'
<1> USE DEF IInv
<1>1. /\ \A h \in Goroutine \ {g} : thunks'[h] = thunks[h] /\ pc'[h] = pc[h]
      /\ thunks'[g] = Append(thunks[g], t)
      /\ pc'[g] = IF Len(thunks[g]) + 1 = Len(args[g]) THEN "wait" ELSE "lookup"
  BY DEF Return, TypeOK
<1>2. /\ thunks[g] \in Seq(Thunk) /\ args[g] \in Seq(Param)
      /\ Len(thunks[g]) \in Nat /\ Len(args[g]) \in Nat
      /\ Len(thunks[g]) < Len(args[g]) /\ Len(answers[g]) = 0
  BY DEF TypeOK, ProgressInv, InDoThunk, SubmitStage
<1>3. /\ Len(thunks'[g]) = Len(thunks[g]) + 1
      /\ \A k \in 1..Len(thunks[g]) : thunks'[g][k] = thunks[g][k]
      /\ thunks'[g][Len(thunks[g]) + 1] = t
  BY <1>1, <1>2
<1>4. ProgressInv'
  <2> SUFFICES ASSUME NEW h \in Goroutine
               PROVE  /\ pc'[h] = "start" => Len(thunks'[h]) = 0
                      /\ pc'[h] \in InDoThunk => Len(thunks'[h]) < Len(args[h])
                      /\ pc'[h] \notin {"wait", "returned"} => Len(answers[h]) = 0
                      /\ pc'[h] \in {"wait", "returned"} => Len(thunks'[h]) = Len(args[h])
                      /\ pc'[h] = "wait" => Len(answers[h]) < Len(args[h])
                      /\ Len(thunks'[h]) <= Len(args[h])
                      /\ Len(answers[h]) <= Len(thunks'[h])
                      /\ pc'[h] \in {"lock", "advance"} \cup SubmitStage => cur[h] \in DOMAIN batches'
    BY DEF ProgressInv
  <2>1. CASE h = g
    <3>1. pc'[g] \in {"wait", "lookup"} /\ (pc'[g] = "wait" <=> Len(thunks'[g]) = Len(args[g]))
      BY ONLY <1>1, <1>2, <1>3
    <3>2. Len(thunks'[g]) \in 1..Len(args[g])
      BY ONLY <1>2, <1>3
    <3> QED
      BY ONLY <1>2, <2>1, <3>1, <3>2 DEF InDoThunk, SubmitStage
  <2>2. CASE h # g
    BY <1>1, <2>2 DEF ProgressInv, ParamsGrow
  <2> QED
    BY <2>1, <2>2
<1>5. ThunkInv'
  <2> SUFFICES ASSUME NEW h \in Goroutine, NEW k \in 1..Len(thunks'[h])
               PROVE  ThunkFor(thunks[h][k], args[h][k])'
    BY DEF ThunkInv
  <2>1. CASE h = g /\ k = Len(thunks[g]) + 1
    BY <1>3, <2>1 DEF ThunkFor, param
  <2>2. CASE ~(h = g /\ k = Len(thunks[g]) + 1)
    <3>1. k \in 1..Len(thunks[h]) /\ thunks'[h][k] = thunks[h][k]
      BY <1>1, <1>2, <1>3, <2>2
    <3>2. thunks[h][k] \in Thunk /\ ThunkFor(thunks[h][k], args[h][k])
      <4>1. thunks[h] \in Seq(Thunk)
        BY DEF TypeOK
      <4>2. ThunkFor(thunks[h][k], args[h][k])
        BY <3>1 DEF ThunkInv
      <4> QED
        BY <3>1, <4>1, <4>2
    <3> DEFINE u == thunks[h][k]
               p == args[h][k]
    <3>3. args'[h][k] = p
      BY <1>1
    <3>4. u \in Thunk /\ ThunkFor(u, p)
      BY <3>2
    <3>5. thunks'[h][k] = u
      BY <3>1
    <3> HIDE DEF u, p
    <3>6. IF u.hit THEN u.value.param = p
          ELSE /\ u.batch \in DOMAIN batches'
               /\ u.index \in 1..Len(batches'[u.batch].params)
               /\ batches'[u.batch].params[u.index] = p
      BY <1>1, <3>4, ThunkForGrows
    <3> QED
      BY <3>3, <3>6, <3>5 DEF ThunkFor
  <2> QED
    BY <2>1, <2>2
<1>6. SlotInv'
  <2> SUFFICES ASSUME NEW h \in Goroutine, pc'[h] \in SubmitStage \cup {"advance"}
               PROVE  /\ slot'[h] \in 1..Len(batches'[cur[h]].params)
                      /\ batches'[cur[h]].params[slot'[h]] = param(h)'
    BY DEF SlotInv
  <2>1. h # g
    BY <1>1 DEF SubmitStage
  <2>2. /\ cur[h] \in DOMAIN batches
        /\ slot[h] \in 1..Len(batches[cur[h]].params)
        /\ batches[cur[h]].params[slot[h]] = param(h)
    BY <1>1, <2>1 DEF SlotInv, ProgressInv
  <2>3. param(h)' = param(h) /\ slot'[h] = slot[h]
    BY <1>1, <2>1 DEF param
  <2>4. Len(batches[cur[h]].params) \in Nat /\ Len(batches'[cur[h]].params) \in Nat
    <3>1. batches[cur[h]] \in Batch /\ batches'[cur[h]] \in Batch
      BY <2>2 DEF TypeOK, ParamsGrow
    <3> QED
      BY <3>1 DEF Batch
  <2> QED
    BY <2>2, <2>3, <2>4 DEF ParamsGrow
<1>7. CacheInv' /\ AnswerForOwnParam'
  BY DEF CacheInv, AnswerForOwnParam
<1> QED
  BY <1>4, <1>5, <1>6, <1>7

\* The type of the two locals a returning DoThunk changes.
LEMMA ReturnType ==
    ASSUME IInv, NEW g \in Goroutine, NEW t \in Thunk, Return(g, t)
    PROVE  thunks' \in [Goroutine -> Seq(Thunk)] /\ pc' \in [Goroutine -> PC]
  BY DEF IInv, TypeOK, Return, PC

\* A returning goroutine is not a submitter, so the submitters stay the same.
LEMMA ReturnSubmitters ==
    ASSUME IInv, NEW g \in Goroutine, NEW t, Return(g, t)
    PROVE  \A h \in Goroutine : pc'[h] \in SubmitStage => h # g /\ pc'[h] = pc[h]
  BY DEF IInv, TypeOK, Return, SubmitStage

\* The parameter DoAll is asking for is one of its arguments.
LEMMA ParamType ==
    ASSUME IInv, NEW g \in Goroutine, pc[g] \in InDoThunk
    PROVE  param(g) \in Param
<1>1. /\ args[g] \in Seq(Param) /\ thunks[g] \in Seq(Thunk)
      /\ Len(thunks[g]) < Len(args[g])
  BY DEF IInv, TypeOK, ProgressInv
<1> QED
  BY <1>1 DEF param

\* The cache lookup keeps the inductive invariant.
LEMMA DoThunkStep ==
    ASSUME IInv, NEW g \in Goroutine, DoThunk(g) PROVE IInv'
<1> USE DEF IInv
<1>1. CASE CacheResults /\ param(g) \in DOMAIN resultCache
  <2> DEFINE t == HitThunk(resultCache[param(g)])
  <2>1. /\ Return(g, t) /\ pc[g] = "lookup"
        /\ UNCHANGED <<batcherVars, timer, args, cur, slot, answers>>
    BY <1>1 DEF DoThunk
  <2>2. t \in Thunk /\ t.hit /\ t.value.param = param(g)
    BY <1>1 DEF HitThunk, Thunk, TypeOK, CacheInv
  <2> HIDE DEF t
  <2>3. TypeOK'
    BY <2>1, <2>2, ReturnType DEF TypeOK, batcherVars
  <2>4. ParamsGrow
    BY <2>1 DEF ParamsGrow, batcherVars, TypeOK, Batch
  <2>5. ProgressInv' /\ ThunkInv' /\ SlotInv' /\ CacheInv' /\ AnswerForOwnParam'
    BY <2>1, <2>2, <2>3, <2>4, ReturnFrame DEF batcherVars, InDoThunk
  <2>6. \A h \in Goroutine : pc'[h] \in SubmitStage => h # g /\ pc'[h] = pc[h]
    BY <2>1, ReturnSubmitters
  <2>7. ResultInv' /\ BatchBounded'
    BY <2>1, <2>6 DEF ResultInv, BatchBounded, batcherVars, SubmitStage
  <2>8. SubmitOnce'
    BY <2>1, <2>6 DEF SubmitOnce, TimerSubmits, CallerSubmits, batcherVars
  <2> QED
    BY <2>3, <2>5, <2>7, <2>8
<1>2. CASE ~(CacheResults /\ param(g) \in DOMAIN resultCache)
  <2>1. /\ pc[g] = "lookup" /\ pc' = [pc EXCEPT ![g] = "readID"]
        /\ UNCHANGED <<batcherVars, timer, args, cur, slot, thunks, answers>>
    BY <1>2 DEF DoThunk
  <2>2. currentBatchID' \in Nat /\ cur' \in [Goroutine -> Nat]
    BY <2>1 DEF batcherVars, TypeOK
  <2> QED
    BY <2>1, <2>2, QuietStep DEF batcherVars
<1> QED
  BY <1>1, <1>2

\* Finding the parameter in the batch keeps the inductive invariant.
LEMMA FindParamStep ==
    ASSUME IInv, NEW g \in Goroutine, FindParam(g) PROVE IInv'
<1> USE DEF IInv
<1> DEFINE b == cur[g]
           i == indexOf(batches[b].params, param(g))
           t == BatchThunk(b, i)
<1>1. /\ pc[g] = "lock" /\ i # 0 /\ Return(g, t)
      /\ UNCHANGED <<batcherVars, timer, args, cur, slot, answers>>
  BY DEF FindParam
<1>2. b \in DOMAIN batches /\ b \in Nat /\ batches[b].params \in Seq(Param) /\ param(g) \in Param
  BY <1>1, ParamType DEF ProgressInv, TypeOK, Batch, InDoThunk
<1>3. i \in 1..Len(batches[b].params) /\ batches[b].params[i] = param(g)
  BY <1>1, <1>2, IndexOfFacts
<1>4. t \in Thunk /\ ~t.hit /\ t.batch = b /\ t.index = i
  <2>1. i \in Nat /\ ZeroResult \in Result
    BY <1>2, <1>3 DEF ZeroResult, Result
  <2> QED
    BY <1>2, <2>1 DEF BatchThunk, Thunk
<1> HIDE DEF t, i
<1>5. TypeOK'
  BY <1>1, <1>4, ReturnType DEF TypeOK, batcherVars
<1>6. ParamsGrow
  BY <1>1 DEF ParamsGrow, batcherVars, TypeOK, Batch
<1>7. ProgressInv' /\ ThunkInv' /\ SlotInv' /\ CacheInv' /\ AnswerForOwnParam'
  BY <1>1, <1>2, <1>3, <1>4, <1>5, <1>6, ReturnFrame DEF batcherVars, InDoThunk
<1>8. \A h \in Goroutine : pc'[h] \in SubmitStage => h # g /\ pc'[h] = pc[h]
  BY <1>1, ReturnSubmitters
<1>9. ResultInv' /\ BatchBounded'
  BY <1>1, <1>8 DEF ResultInv, BatchBounded, batcherVars, SubmitStage
<1>10. SubmitOnce'
  BY <1>1, <1>8 DEF SubmitOnce, TimerSubmits, CallerSubmits, batcherVars
<1> QED
  BY <1>5, <1>7, <1>9, <1>10

\* Advancing the batch ID after a submission keeps the inductive invariant.
LEMMA CallerAdvanceStep ==
    ASSUME IInv, NEW g \in Goroutine, CallerAdvance(g) PROVE IInv'
<1> USE DEF IInv
<1> DEFINE b == cur[g]
           t == BatchThunk(b, slot[g])
<1>1. /\ pc[g] = "advance" /\ Return(g, t) /\ CompareAndSwap(b)
      /\ UNCHANGED <<batches, resultCache, subscribers, published, timer, args, cur, slot, answers>>
  BY DEF CallerAdvance
<1>2. /\ b \in DOMAIN batches /\ b \in Nat
      /\ slot[g] \in 1..Len(batches[b].params) /\ batches[b].params[slot[g]] = param(g)
  BY <1>1 DEF ProgressInv, SlotInv, TypeOK
<1>3. t \in Thunk /\ ~t.hit /\ t.batch = b /\ t.index = slot[g]
  <2>1. slot[g] \in Nat /\ ZeroResult \in Result
    BY DEF TypeOK, ZeroResult, Result
  <2> QED
    BY <1>2, <2>1 DEF BatchThunk, Thunk
<1> HIDE DEF t
<1>4. TypeOK'
  <2>1. currentBatchID' \in Nat
    BY <1>1, <1>2 DEF TypeOK, CompareAndSwap
  <2>2. thunks' \in [Goroutine -> Seq(Thunk)] /\ pc' \in [Goroutine -> PC]
    BY <1>1, <1>3, ReturnType
  <2> QED
    BY <1>1, <2>1, <2>2 DEF TypeOK
<1>5. ParamsGrow
  BY <1>1 DEF ParamsGrow, TypeOK, Batch
<1>6. ProgressInv' /\ ThunkInv' /\ SlotInv' /\ CacheInv' /\ AnswerForOwnParam'
  BY <1>1, <1>2, <1>3, <1>4, <1>5, ReturnFrame DEF InDoThunk
<1>7. \A h \in Goroutine : pc'[h] \in SubmitStage => h # g /\ pc'[h] = pc[h]
  BY <1>1, ReturnSubmitters
<1>8. ResultInv' /\ BatchBounded'
  BY <1>1, <1>7 DEF ResultInv, BatchBounded, SubmitStage
<1>9. SubmitOnce'
  BY <1>1, <1>7 DEF SubmitOnce, TimerSubmits, CallerSubmits
<1> QED
  BY <1>4, <1>6, <1>8, <1>9

\* Appending a parameter keeps the inductive invariant: the batch was open, so
\* nobody submits it, it has room, and it has no results yet.
LEMMA AppendParamStep ==
    ASSUME IInv, NEW g \in Goroutine, AppendParam(g) PROVE IInv'
<1> USE DEF IInv
<1> DEFINE b == cur[g]
           old == batches[b].params
           ps == Append(old, param(g))
           full == Len(ps) = MaxBatchSize
           t == BatchThunk(b, Len(ps))
<1>1. /\ pc[g] = "lock" /\ batches[b].status = "Open" /\ indexOf(old, param(g)) = 0
      /\ batches' = [batches EXCEPT ![b].params = ps, ![b].status = IF full THEN "Closed" ELSE "Open"]
      /\ timer' = startTimeout(b, Len(ps))
      /\ slot' = [slot EXCEPT ![g] = Len(ps)]
      /\ IF full THEN pc' = [pc EXCEPT ![g] = "submit"] /\ UNCHANGED thunks ELSE Return(g, t)
      /\ UNCHANGED <<currentBatchID, resultCache, subscribers, published, args, cur, answers>>
  BY DEF AppendParam, isOpen
<1>2. /\ b \in DOMAIN batches /\ b \in Nat /\ batches[b] \in Batch
      /\ old \in Seq(Param) /\ param(g) \in Param
  BY <1>1, ParamType DEF ProgressInv, TypeOK, Batch, InDoThunk
<1>3. /\ ps \in Seq(Param) /\ Len(ps) = Len(old) + 1 /\ Len(old) \in Nat
      /\ ps[Len(ps)] = param(g)
      /\ \A i \in 1..Len(old) : ps[i] = old[i] /\ old[i] # param(g)
  BY <1>1, <1>2, IndexOfFacts
<1>4. /\ Len(batches[b].results) = 0 /\ Len(old) < MaxBatchSize /\ ~batches[b].done
  BY <1>1, <1>2 DEF ResultInv, Aligned
<1>5. ~TimerSubmits(b) /\ \A h \in Goroutine : ~CallerSubmits(h, b)
  BY <1>1, <1>2 DEF SubmitOnce
<1> HIDE DEF ps, full, t
<1>6. /\ DOMAIN batches' = DOMAIN batches
      /\ \A c \in DOMAIN batches \ {b} : batches'[c] = batches[c]
      /\ batches'[b].params = ps
      /\ batches'[b].status = IF full THEN "Closed" ELSE "Open"
      /\ batches'[b].results = batches[b].results
      /\ batches'[b].errors = batches[b].errors
      /\ batches'[b].done = batches[b].done
      /\ batches'[b] \in Batch
  <2>1. batches'[b] = [batches[b] EXCEPT !.params = ps, !.status = IF full THEN "Closed" ELSE "Open"]
    BY <1>1, <1>2 DEF TypeOK
  <2>2. DOMAIN batches' = DOMAIN batches /\ \A c \in DOMAIN batches \ {b} : batches'[c] = batches[c]
    BY <1>1, <1>2 DEF TypeOK
  <2> QED
    BY <1>2, <1>3, <2>1, <2>2 DEF Batch, Status
<1>7. batches' \in [DOMAIN batches -> Batch]
  BY <1>1, <1>2, <1>6 DEF TypeOK
<1>8. /\ timer' \in [DOMAIN batches -> TimerStage]
      /\ \A c \in DOMAIN batches : timer'[c] \in SubmitStage => c # b /\ timer'[c] = timer[c]
  BY <1>1, <1>2, <1>5 DEF startTimeout, TypeOK, TimerStage, SubmitStage, TimerSubmits
<1>9. t \in Thunk /\ ~t.hit /\ t.batch = b /\ t.index = Len(ps)
  <2>1. Len(ps) \in Nat /\ ZeroResult \in Result
    BY <1>3 DEF ZeroResult, Result
  <2> QED
    BY <1>2, <2>1 DEF BatchThunk, Thunk, t
<1>10. /\ thunks' \in [Goroutine -> Seq(Thunk)] /\ pc' \in [Goroutine -> PC]
       /\ \A h \in Goroutine \ {g} : pc'[h] = pc[h] /\ slot'[h] = slot[h]
       /\ pc'[g] \in SubmitStage => full /\ pc'[g] = "submit"
  <2>1. CASE full
    BY <1>1, <2>1 DEF TypeOK, PC, SubmitStage
  <2>2. CASE ~full
    BY <1>1, <1>9, <2>2, ReturnType DEF Return, TypeOK, SubmitStage
  <2> QED
    BY <2>1, <2>2
<1>11. TypeOK'
  <2>1. slot' \in [Goroutine -> Nat]
    BY <1>1, <1>3 DEF TypeOK
  <2> QED
    BY <1>1, <1>6, <1>7, <1>8, <1>10, <2>1 DEF TypeOK
<1>12. ParamsGrow
  <2>1. \A c \in DOMAIN batches : Len(batches[c].params) \in Nat
    BY DEF TypeOK, Batch
  <2> QED
    BY <1>3, <1>6, <2>1 DEF ParamsGrow
<1>13. ProgressInv' /\ ThunkInv' /\ SlotInv' /\ CacheInv' /\ AnswerForOwnParam'
  <2>1. CASE ~full
    <3>1. Return(g, t)
      BY <1>1, <2>1
    <3>2. t.index \in 1..Len(batches'[t.batch].params) /\ batches'[t.batch].params[t.index] = param(g)
      BY <1>3, <1>6, <1>9
    <3> QED
      BY <1>1, <1>2, <1>6, <1>9, <1>10, <1>11, <1>12, <3>1, <3>2, ReturnFrame DEF InDoThunk
  <2>2. CASE full
    <3>1. pc'[g] = "submit" /\ thunks' = thunks
      BY <1>1, <2>2 DEF TypeOK
    <3>2. ProgressInv'
      BY <1>1, <1>6, <1>10, <3>1 DEF ProgressInv, InDoThunk, SubmitStage
    <3>3. ThunkInv'
      BY <1>1, <1>11, <1>12, <3>1, ThunksKept
    <3>4. SlotInv'
      <4> SUFFICES ASSUME NEW h \in Goroutine, pc'[h] \in SubmitStage \cup {"advance"}
                   PROVE  /\ slot'[h] \in 1..Len(batches'[cur[h]].params)
                          /\ batches'[cur[h]].params[slot'[h]] = param(h)
        BY <1>1, <3>1 DEF SlotInv, param
      <4>1. CASE h = g
        BY <1>1, <1>3, <1>6, <4>1 DEF TypeOK
      <4>2. CASE h # g
        <5>1. /\ cur[h] \in DOMAIN batches
              /\ slot[h] \in 1..Len(batches[cur[h]].params)
              /\ batches[cur[h]].params[slot[h]] = param(h)
          BY <1>10, <4>2 DEF SlotInv, ProgressInv
        <5>2. Len(batches[cur[h]].params) \in Nat /\ Len(batches'[cur[h]].params) \in Nat
          <6>1. batches[cur[h]] \in Batch
            BY <5>1 DEF TypeOK
          <6>2. batches'[cur[h]] \in Batch
            BY <1>7, <5>1
          <6>3. batches[cur[h]].params \in Seq(Param) /\ batches'[cur[h]].params \in Seq(Param)
            BY <6>1, <6>2 DEF Batch
          <6> QED
            BY <6>3
        <5> QED
          BY <1>10, <1>12, <4>2, <5>1, <5>2 DEF ParamsGrow
      <4> QED
        BY <4>1, <4>2
    <3>5. CacheInv' /\ AnswerForOwnParam'
      BY <1>1 DEF CacheInv, AnswerForOwnParam
    <3> QED
      BY <3>2, <3>3, <3>4, <3>5
  <2> QED
    BY <2>1, <2>2
<1>14. ResultInv'
  <2>1. \A c \in DOMAIN batches : Aligned(batches'[c])
    <3>1. Aligned(batches'[b])
      BY <1>3, <1>4, <1>6, SizeAssumption DEF Aligned, full
    <3> QED
      BY <1>6, <3>1 DEF ResultInv
  <2>2. \A c \in DOMAIN batches : batches'[c].done \/ timer'[c] \in {"publish", "close"} => Complete(batches'[c])
    BY <1>4, <1>6, <1>8 DEF ResultInv, SubmitStage
  <2>3. \A h \in Goroutine : pc'[h] \in {"publish", "close"} => Complete(batches'[cur'[h]])
    <3> SUFFICES ASSUME NEW h \in Goroutine, pc'[h] \in {"publish", "close"}
                 PROVE  Complete(batches'[cur[h]])
      BY <1>1
    <3>1. h # g /\ pc[h] = pc'[h]
      BY <1>10 DEF SubmitStage
    <3>2. cur[h] # b /\ cur[h] \in DOMAIN batches
      BY <1>5, <3>1 DEF CallerSubmits, SubmitStage, ProgressInv
    <3> QED
      BY <1>6, <3>1, <3>2 DEF ResultInv
  <2> QED
    BY <1>6, <2>1, <2>2, <2>3 DEF ResultInv
<1>15. BatchBounded'
  <2>1. Len(ps) <= MaxBatchSize
    BY <1>3, <1>4, SizeAssumption
  <2>2. \A i, j \in 1..Len(old) : old[i] = old[j] => i = j
    BY <1>2 DEF BatchBounded
  <2>3. \A i, j \in 1..Len(ps) : ps[i] = ps[j] => i = j
    <3> SUFFICES ASSUME NEW i \in 1..Len(ps), NEW j \in 1..Len(ps), ps[i] = ps[j]
                 PROVE  i = j
      OBVIOUS
    <3>1. /\ i \in 1..Len(old) \/ i = Len(ps)
          /\ j \in 1..Len(old) \/ j = Len(ps)
      BY <1>3
    <3>2. CASE i \in 1..Len(old) /\ j \in 1..Len(old)
      BY <1>3, <2>2, <3>2
    <3>3. CASE i = Len(ps) \/ j = Len(ps)
      BY <1>3, <3>1, <3>3
    <3> QED
      BY <3>1, <3>2, <3>3
  <2>4. DOMAIN ps = 1..Len(ps)
    BY <1>3
  <2> QED
    BY <1>6, <2>1, <2>3, <2>4 DEF BatchBounded
<1>16. SubmitOnce'
  <2>1. \A h \in Goroutine : pc'[h] \in SubmitStage => \/ h = g /\ full
                                                       \/ h # g /\ pc[h] \in SubmitStage /\ cur[h] # b
    BY <1>5, <1>10 DEF CallerSubmits
  <2>2. \A h, k \in Goroutine :
           pc'[h] \in SubmitStage /\ pc'[k] \in SubmitStage /\ cur[h] = cur[k] => h = k
    BY <2>1 DEF SubmitOnce
  <2>3. \A h \in Goroutine : pc'[h] \in SubmitStage => timer'[cur[h]] \notin SubmitStage
    BY <1>2, <1>8, <2>1 DEF SubmitOnce, TimerSubmits, ProgressInv
  <2>4. \A c \in DOMAIN batches :
          (timer'[c] \in SubmitStage \/ \E h \in Goroutine : pc'[h] \in SubmitStage /\ cur[h] = c)
             => batches'[c].status = "Closed" /\ ~batches'[c].done
    BY <1>4, <1>6, <1>8, <2>1 DEF SubmitOnce, TimerSubmits, CallerSubmits
  <2> QED
    BY <1>1, <1>6, <2>2, <2>3, <2>4 DEF SubmitOnce, TimerSubmits, CallerSubmits
<1> QED
  BY <1>11, <1>13, <1>14, <1>15, <1>16

\* The start of a DoAll call keeps the inductive invariant.
LEMMA DoAllStep ==
    ASSUME IInv, NEW g \in Goroutine, DoAll(g) PROVE IInv'
<1> USE DEF IInv
<1>1. PICK n \in 1..MaxParams : \E ps \in [1..n -> Param] : args' = [args EXCEPT ![g] = ps]
  BY DEF DoAll
<1>2. PICK ps \in [1..n -> Param] : args' = [args EXCEPT ![g] = ps]
  BY <1>1
<1>3. n \in Nat /\ n > 0
  BY SizeAssumption
<1>4. ps \in Seq(Param) /\ Len(ps) = n
  BY <1>3
<1>5. /\ pc[g] = "start" /\ pc' = [pc EXCEPT ![g] = "lookup"]
      /\ UNCHANGED <<batcherVars, timer, cur, slot, thunks, answers>>
  BY DEF DoAll
<1>6. Len(thunks[g]) = 0 /\ Len(answers[g]) = 0
  BY <1>5 DEF ProgressInv
<1>7. /\ args'[g] = ps /\ pc'[g] = "lookup"
      /\ \A h \in Goroutine \ {g} : args'[h] = args[h] /\ pc'[h] = pc[h]
  BY <1>2, <1>5 DEF TypeOK
<1>8. TypeOK'
  BY <1>2, <1>4, <1>5 DEF TypeOK, batcherVars, PC
<1>9. ProgressInv'
  BY <1>3, <1>4, <1>5, <1>6, <1>7 DEF ProgressInv, batcherVars, InDoThunk, SubmitStage
<1>10. ThunkInv'
  BY <1>5, <1>6, <1>7 DEF ThunkInv, ThunkFor, batcherVars
<1>11. SlotInv'
  BY <1>5, <1>7 DEF SlotInv, param, batcherVars, SubmitStage
<1>12. ResultInv' /\ BatchBounded' /\ CacheInv'
  BY <1>5, <1>7 DEF ResultInv, BatchBounded, CacheInv, batcherVars
<1>13. SubmitOnce'
  BY <1>5, <1>7 DEF SubmitOnce, TimerSubmits, CallerSubmits, batcherVars, SubmitStage
<1>14. AnswerForOwnParam'
  <2>1. DOMAIN answers[g] = {}
    BY <1>6 DEF TypeOK
  <2> QED
    BY <1>5, <1>7, <2>1 DEF AnswerForOwnParam
<1> QED
  BY <1>8, <1>9, <1>10, <1>11, <1>12, <1>13, <1>14

\* Prime keeps the inductive invariant.
LEMMA PrimeStep ==
    ASSUME IInv, NEW p \in Param, Prime(p) PROVE IInv'
<1> USE DEF IInv
<1> DEFINE r == [param |-> p, primed |-> TRUE, batch |-> 0]
<1>1. /\ resultCache' = LoadOrStore(resultCache, p, r)
      /\ UNCHANGED <<currentBatchID, batches, subscribers, published, timer, pc, localVars>>
  BY DEF Prime, cacheWith
<1>2. r \in Result /\ r.param = p
  BY DEF Result
<1> HIDE DEF r
<1>3. /\ DOMAIN resultCache' = DOMAIN resultCache \cup {p}
      /\ resultCache' \in [DOMAIN resultCache \cup {p} -> Result]
      /\ \A x \in DOMAIN resultCache : resultCache'[x] = resultCache[x]
      /\ p \notin DOMAIN resultCache => resultCache'[p] = r
  <2>1. resultCache \in [DOMAIN resultCache -> Result]
    BY DEF TypeOK
  <2> QED
    BY <1>1, <1>2, <2>1 DEF LoadOrStore
<1>4. TypeOK'
  BY <1>1, <1>3 DEF TypeOK, localVars
<1>5. CacheInv'
  BY <1>2, <1>3 DEF CacheInv
<1>6. ProgressInv' /\ ThunkInv' /\ SlotInv'
  BY <1>1 DEF ProgressInv, ThunkInv, ThunkFor, SlotInv, param, localVars
<1>7. ResultInv' /\ BatchBounded' /\ SubmitOnce' /\ AnswerForOwnParam'
  BY <1>1 DEF ResultInv, BatchBounded, SubmitOnce, TimerSubmits, CallerSubmits, AnswerForOwnParam, localVars
<1> QED
  BY <1>4, <1>5, <1>6, <1>7

\* Recording an answer for the goroutine's own parameter, or an error, keeps
\* the inductive invariant.
LEMMA ResolveStep ==
    ASSUME IInv, NEW g \in Goroutine, pc[g] = "wait", NEW a \in Answer,
           Resolve(g, Len(answers[g]) + 1, a),
           ~a.err => a.result.param = args[g][Len(answers[g]) + 1],
           DOMAIN resultCache' \subseteq Param, resultCache' \in [DOMAIN resultCache' -> Result],
           CacheInv',
           UNCHANGED <<currentBatchID, batches, subscribers, published, timer, args, cur, slot, thunks>>
    PROVE  IInv'
<1> USE DEF IInv
<1> DEFINE k == Len(answers[g]) + 1
<1>1. /\ answers'[g] = Append(answers[g], a)
      /\ pc'[g] = IF k = Len(args[g]) THEN "returned" ELSE "wait"
      /\ \A h \in Goroutine \ {g} : answers'[h] = answers[h] /\ pc'[h] = pc[h]
  BY DEF Resolve, TypeOK
<1>2. /\ answers[g] \in Seq(Answer) /\ Len(answers[g]) \in Nat /\ Len(args[g]) \in Nat
      /\ Len(answers[g]) < Len(args[g]) /\ Len(thunks[g]) = Len(args[g])
  BY DEF TypeOK, ProgressInv
<1>3. /\ Len(answers'[g]) = k
      /\ \A j \in 1..Len(answers[g]) : answers'[g][j] = answers[g][j]
      /\ answers'[g][k] = a /\ DOMAIN answers'[g] = 1..k
  BY <1>1, <1>2
<1>4. TypeOK'
  <2>1. answers' \in [Goroutine -> Seq(Answer)] /\ pc' \in [Goroutine -> PC]
    BY DEF Resolve, TypeOK, PC
  <2> QED
    BY <2>1 DEF TypeOK
<1>5. ProgressInv'
  <2> SUFFICES ASSUME NEW h \in Goroutine
               PROVE  /\ pc'[h] = "start" => Len(thunks[h]) = 0
                      /\ pc'[h] \in InDoThunk => Len(thunks[h]) < Len(args[h])
                      /\ pc'[h] \notin {"wait", "returned"} => Len(answers'[h]) = 0
                      /\ pc'[h] \in {"wait", "returned"} => Len(thunks[h]) = Len(args[h])
                      /\ pc'[h] = "wait" => Len(answers'[h]) < Len(args[h])
                      /\ Len(thunks[h]) <= Len(args[h])
                      /\ Len(answers'[h]) <= Len(thunks[h])
                      /\ pc'[h] \in {"lock", "advance"} \cup SubmitStage => cur[h] \in DOMAIN batches
    BY DEF ProgressInv
  <2>1. CASE h = g
    BY <1>1, <1>2, <1>3, <2>1 DEF InDoThunk, SubmitStage
  <2>2. CASE h # g
    BY <1>1, <2>2 DEF ProgressInv
  <2> QED
    BY <2>1, <2>2
<1>6. \A h \in Goroutine : pc'[h] \in SubmitStage \cup {"advance"} => pc'[h] = pc[h] /\ h # g
  BY <1>1 DEF SubmitStage
<1>7. ThunkInv' /\ SlotInv'
  BY <1>6 DEF ThunkInv, ThunkFor, SlotInv, param
<1>8. ResultInv' /\ BatchBounded'
  BY <1>6 DEF ResultInv, BatchBounded, SubmitStage
<1>9. SubmitOnce'
  BY <1>6 DEF SubmitOnce, TimerSubmits, CallerSubmits
<1>10. AnswerForOwnParam'
  <2> SUFFICES ASSUME NEW h \in Goroutine, NEW j \in DOMAIN answers'[h], ~answers'[h][j].err
               PROVE  answers'[h][j].result.param = args[h][j]
    BY DEF AnswerForOwnParam
  <2>1. CASE h = g /\ j = k
    BY <1>3, <2>1
  <2>2. CASE h = g /\ j # k
    <3>1. j \in 1..Len(answers[g])
      BY <1>2, <1>3, <2>2
    <3>2. j \in DOMAIN answers[g] /\ answers'[g][j] = answers[g][j]
      BY <1>2, <1>3, <3>1
    <3> QED
      BY <2>2, <3>2 DEF AnswerForOwnParam
  <2>3. CASE h # g
    BY <1>1, <2>3 DEF AnswerForOwnParam
  <2> QED
    BY <2>1, <2>2, <2>3
<1> QED
  BY <1>4, <1>5, <1>7, <1>8, <1>9, <1>10

\* Calling a thunk with a cached value keeps the inductive invariant.
LEMMA CallHitThunkStep ==
    ASSUME IInv, NEW g \in Goroutine, CallHitThunk(g) PROVE IInv'
<1> USE DEF IInv
<1> DEFINE k == Len(answers[g]) + 1
           t == thunks[g][k]
           a == [result |-> t.value, err |-> FALSE]
<1>1. /\ pc[g] = "wait" /\ t.hit /\ Resolve(g, k, a)
      /\ UNCHANGED <<batcherVars, timer, args, cur, slot, thunks>>
  BY DEF CallHitThunk
<1>2. k \in 1..Len(thunks[g])
  BY <1>1 DEF ProgressInv, TypeOK
<1>3. t \in Thunk /\ ThunkFor(t, args[g][k])
  BY <1>2 DEF TypeOK, ThunkInv
<1>4. a \in Answer /\ ~a.err /\ a.result.param = args[g][k]
  BY <1>1, <1>3 DEF ThunkFor, Thunk, Answer
<1> HIDE DEF a
<1>5. /\ DOMAIN resultCache' \subseteq Param /\ resultCache' \in [DOMAIN resultCache' -> Result]
      /\ CacheInv'
  BY <1>1 DEF batcherVars, TypeOK, CacheInv
<1> QED
  BY <1>1, <1>4, <1>5, ResolveStep DEF batcherVars

\* Calling a thunk whose batch is done keeps the inductive invariant: the batch
\* is complete, so an index without an error has a result, the parameter's own.
LEMMA CallBatchThunkStep ==
    ASSUME IInv, NEW g \in Goroutine, CallBatchThunk(g) PROVE IInv'
<1> USE DEF IInv
<1> DEFINE k == Len(answers[g]) + 1
           t == thunks[g][k]
           b == batches[t.batch]
           err == errorAt(b, t.index)
           result == resultAt(b, t.index)
           a == [result |-> result, err |-> err]
<1>1. /\ pc[g] = "wait" /\ ~t.hit /\ b.done /\ Resolve(g, k, a)
      /\ resultCache' = IF ~err /\ CacheResults
                        THEN LoadOrStore(resultCache, args[g][k], result) ELSE resultCache
      /\ UNCHANGED <<currentBatchID, batches, subscribers, published, timer, args, cur, slot, thunks>>
  BY DEF CallBatchThunk, cacheWith
<1>2. k \in 1..Len(thunks[g]) /\ k \in 1..Len(args[g])
  BY <1>1 DEF ProgressInv, TypeOK
<1>3. args[g][k] \in Param
  BY <1>2 DEF TypeOK
<1>4. /\ t \in Thunk /\ t.batch \in DOMAIN batches
      /\ t.index \in 1..Len(b.params) /\ b.params[t.index] = args[g][k]
  <2>1. t \in Thunk
    BY <1>2 DEF TypeOK
  <2>2. ThunkFor(t, args[g][k])
    BY <1>2 DEF ThunkInv
  <2> QED
    BY <1>1, <2>1, <2>2 DEF ThunkFor
<1>5. /\ b \in Batch /\ Aligned(b) /\ Complete(b)
  BY <1>1, <1>4 DEF TypeOK, ResultInv
<1> HIDE DEF b, t
<1>6. /\ err \in BOOLEAN /\ result \in Result
      /\ ~err => result.param = args[g][k]
  <2>1. /\ b.params \in Seq(Param) /\ b.results \in Seq(Result) /\ b.errors \in Seq(BOOLEAN)
        /\ Len(b.params) \in Nat /\ Len(b.results) \in Nat /\ Len(b.errors) \in Nat
    BY <1>5 DEF Batch
  <2>2. ZeroResult \in Result
    BY DEF ZeroResult, Result
  <2>3. CASE Len(b.errors) = 1 /\ b.errors[1]
    BY <1>4, <2>1, <2>2, <2>3 DEF errorAt, resultAt
  <2>4. CASE Len(b.results) = Len(b.params) /\ Len(b.errors) = Len(b.params)
    <3>1. result = b.results[t.index] /\ result \in Result
      BY <1>4, <2>1, <2>4 DEF resultAt
    <3>2. result.param = args[g][k]
      BY <1>4, <1>5, <2>1, <2>4, <3>1 DEF Aligned
    <3>3. err \in BOOLEAN
      BY <1>4, <2>1, <2>4 DEF errorAt
    <3> QED
      BY <3>1, <3>2, <3>3
  <2> QED
    BY <1>5, <2>3, <2>4 DEF Complete
<1> HIDE DEF err, result
<1>7. a \in Answer /\ (~a.err => a.result.param = args[g][k])
  BY <1>6 DEF Answer
<1>8. /\ DOMAIN resultCache' \subseteq Param /\ resultCache' \in [DOMAIN resultCache' -> Result]
      /\ CacheInv'
  <2>1. /\ DOMAIN resultCache \subseteq Param /\ resultCache \in [DOMAIN resultCache -> Result]
        /\ CacheInv
    BY DEF TypeOK
  <2>2. CASE ~err /\ CacheResults
    BY <1>1, <1>3, <1>6, <2>1, <2>2 DEF LoadOrStore, CacheInv
  <2>3. CASE ~(~err /\ CacheResults)
    <3>1. resultCache' = resultCache
      BY <1>1, <2>3
    <3> QED
      BY <2>1, <3>1 DEF CacheInv
  <2> QED
    BY <2>2, <2>3
<1> HIDE DEF a
<1> QED
  BY <1>1, <1>7, <1>8, ResolveStep

----------------------------------------------------------------------------
\* Every step of the batcher keeps the inductive invariant.
LEMMA NextIInv == IInv /\ [Next]_vars => IInv'
<1> SUFFICES ASSUME IInv, [Next]_vars PROVE IInv'
  OBVIOUS
<1>1. CASE UNCHANGED vars
  <2>1. UNCHANGED <<batcherVars, timer, pc, localVars>>
    BY <1>1 DEF vars
  <2>2. TypeOK' /\ ProgressInv' /\ ThunkInv' /\ SlotInv'
    BY <2>1 DEF IInv, TypeOK, ProgressInv, ThunkInv, ThunkFor, SlotInv, param, batcherVars, localVars
  <2>3. ResultInv' /\ BatchBounded' /\ CacheInv' /\ SubmitOnce' /\ AnswerForOwnParam'
    BY <2>1 DEF IInv, ResultInv, BatchBounded, CacheInv, SubmitOnce, TimerSubmits, CallerSubmits,
       AnswerForOwnParam, batcherVars, localVars
  <2> QED
    BY <2>2, <2>3 DEF IInv
<1>2. CASE \E s \in Subscriber : RegisterResultSubscriber(s)
  BY <1>2, RegisterStep
<1>3. CASE \E p \in Param : Prime(p)
  BY <1>3, PrimeStep
<1>4. CASE \E g \in Goroutine : DoAll(g)
  BY <1>4, DoAllStep
<1>5. ASSUME NEW g \in Goroutine, Caller(g) PROVE IInv'
  BY <1>5, DoThunkStep, ReadBatchIDStep, AssignStep, BumpStep, FindClosedStep, FindParamStep,
     AppendParamStep, CallerBatchFuncStep, CallerPublishStep, CallerCloseStep, CallerAdvanceStep,
     CallHitThunkStep, CallBatchThunkStep DEF Caller
<1>6. ASSUME NEW b \in DOMAIN timer, Timer(b) PROVE IInv'
  BY <1>6, CloseAfterTimeoutStep, TimerBatchFuncStep, TimerPublishStep, TimerCloseStep DEF Timer
<1> QED
  BY <1>1, <1>2, <1>3, <1>4, <1>5, <1>6 DEF Next

\* The inductive invariant holds in every reachable state.
THEOREM Invariance == Spec => []IInv
  BY InitIInv, NextIInv, PTL DEF Spec

\* The batcher's variables keep their types.
THEOREM TypeCorrect == Spec => []TypeOK
<1>1. IInv => TypeOK
  BY DEF IInv
<1> QED
  BY <1>1, Invariance, PTL

\* The batch function never gets more than maxBatchSize parameters, nor one of
\* them twice.
THEOREM BatchesBounded == Spec => []BatchBounded
<1>1. IInv => BatchBounded
  BY DEF IInv
<1> QED
  BY <1>1, Invariance, PTL

\* Every answer without an error was fetched for the parameter it answers.
THEOREM AnswersAreForOwnParam == Spec => []AnswerForOwnParam
<1>1. IInv => AnswerForOwnParam
  BY DEF IInv
<1> QED
  BY <1>1, Invariance, PTL

----------------------------------------------------------------------------
\* Batch b has been published: its done channel is closed, or whoever submitted
\* it is about to close it.
Settled(b) ==
    \/ batches[b].done
    \/ timer[b] = "close"
    \/ \E g \in Goroutine : pc[g] = "close" /\ cur[g] = b

\* Every result of batch b without an error is with every subscriber.
Delivered(b) ==
    \A s \in subscribers : \A i \in DOMAIN batches[b].results :
        ~batches[b].errors[i] => <<s, batches[b].results[i]>> \in published

\* Subscribers register before there is any batch, so a batch that is published
\* is published to all of them.
PublishInv ==
    /\ PublishResults => \A b \in DOMAIN batches : Settled(b) => Delivered(b)
    /\ (\A g \in Goroutine : pc[g] = "start") => DOMAIN batches = {}

\* A step that settles no batch, leaves the results of the settled ones alone and
\* takes nothing back keeps the invariant.
LEMMA SettledFrame ==
    ASSUME PublishInv,
           subscribers' = subscribers, published \subseteq published',
           \A b \in DOMAIN batches' : Settled(b)' =>
               /\ b \in DOMAIN batches /\ Settled(b)
               /\ batches'[b].results = batches[b].results
               /\ batches'[b].errors = batches[b].errors,
           \/ \E g \in Goroutine : pc'[g] # "start"
           \/ (\A g \in Goroutine : pc[g] = "start") /\ DOMAIN batches' = DOMAIN batches
    PROVE  PublishInv'
<1>1. ASSUME PublishResults, NEW b \in DOMAIN batches', Settled(b)'
      PROVE  Delivered(b)'
  <2>1. Delivered(b)
    BY <1>1 DEF PublishInv
  <2> QED
    BY <1>1, <2>1 DEF Delivered
<1>2. (\A g \in Goroutine : pc'[g] = "start") => DOMAIN batches' = {}
  BY DEF PublishInv
<1> QED
  BY <1>1, <1>2 DEF PublishInv

\* The steps that publish settle a batch, all of whose results they deliver.
LEMMA PublishSettles ==
    ASSUME IInv, PublishInv, NEW x \in DOMAIN batches,
           publishToSubscribers(x),
           UNCHANGED <<batches, subscribers>>,
           \E g \in Goroutine : pc'[g] # "start",
           \A b \in DOMAIN batches : Settled(b)' => Settled(b) \/ b = x
    PROVE  PublishInv'
<1>1. published \subseteq published'
  BY DEF publishToSubscribers
<1>2. ASSUME PublishResults, NEW b \in DOMAIN batches', Settled(b)'
      PROVE  Delivered(b)'
  <2>1. CASE Settled(b)
    <3>1. Delivered(b)
      BY <1>2, <2>1 DEF PublishInv
    <3> QED
      BY <1>1, <3>1 DEF Delivered
  <2>2. CASE b = x
    <3>1. batches[x].results \in Seq(Result)
      BY DEF IInv, TypeOK, Batch
    <3>2. DOMAIN batches[x].results = 1..Len(batches[x].results)
      BY <3>1
    <3> QED
      BY <1>2, <2>2, <3>2 DEF Delivered, publishToSubscribers
  <2> QED
    BY <1>2, <2>1, <2>2
<1> QED
  BY <1>2 DEF PublishInv

\* A batch that is being submitted is not settled.
LEMMA SubmittedIsNotSettled ==
    ASSUME IInv, NEW x \in DOMAIN batches
    PROVE  /\ timer[x] \in {"submit", "publish"} => ~Settled(x)
           /\ \A g \in Goroutine : pc[g] \in {"submit", "publish"} /\ cur[g] = x => ~Settled(x)
BY DEF IInv, SubmitOnce, Settled, TimerSubmits, CallerSubmits, SubmitStage

\* Steps that touch no batch's results, done channel or submission.
LEMMA PublishQuiet ==
    ASSUME IInv, PublishInv, UNCHANGED <<batches, subscribers, timer, published>>,
           NEW g \in Goroutine, NEW p, p \notin {"close", "start"},
           pc' = [pc EXCEPT ![g] = p],
           cur' = cur \/ (pc[g] # "close" /\ \E b : cur' = [cur EXCEPT ![g] = b])
    PROVE  PublishInv'
<1>1. pc \in [Goroutine -> PC] /\ cur \in [Goroutine -> Nat]
  BY DEF IInv, TypeOK
<1>2. pc'[g] # "start" /\ \A h \in Goroutine : pc'[h] = "close" => pc[h] = "close" /\ cur'[h] = cur[h]
  BY <1>1
<1>3. \A b \in DOMAIN batches' : Settled(b)' => Settled(b)
  BY <1>2 DEF Settled
<1> QED
  BY <1>2, <1>3, SettledFrame

\* The steps of a goroutine other than those that submit a batch.
LEMMA PublishInvCaller ==
    ASSUME IInv, PublishInv, NEW g \in Goroutine,
           \/ DoAll(g) \/ DoThunk(g) \/ ReadBatchID(g) \/ BumpBatchID(g) \/ FindClosed(g)
           \/ FindParam(g) \/ CallerAdvance(g) \/ CallHitThunk(g) \/ CallBatchThunk(g)
    PROVE  PublishInv'
<1> USE DEF batcherVars, localVars
<1>1. CASE DoAll(g)
  BY <1>1, PublishQuiet DEF DoAll
<1>2. CASE DoThunk(g)
  BY <1>2, PublishQuiet DEF DoThunk, Return
<1>3. CASE ReadBatchID(g)
  BY <1>3, PublishQuiet DEF ReadBatchID
<1>4. CASE BumpBatchID(g)
  BY <1>4, PublishQuiet DEF BumpBatchID
<1>5. CASE FindClosed(g)
  BY <1>5, PublishQuiet DEF FindClosed
<1>6. CASE FindParam(g)
  BY <1>6, PublishQuiet DEF FindParam, Return
<1>7. CASE CallerAdvance(g)
  BY <1>7, PublishQuiet DEF CallerAdvance, Return
<1>8. CASE CallHitThunk(g)
  BY <1>8, PublishQuiet DEF CallHitThunk, Resolve
<1>9. CASE CallBatchThunk(g)
  BY <1>9, PublishQuiet DEF CallBatchThunk, Resolve
<1> QED
  BY <1>1, <1>2, <1>3, <1>4, <1>5, <1>6, <1>7, <1>8, <1>9

\* A batch that is created or counts another caller is not settled by it.
LEMMA PublishInvAssign ==
    ASSUME IInv, PublishInv, NEW g \in Goroutine, AssignBatch(g)
    PROVE  PublishInv'
<1> PICK x : x = cur[g]
  OBVIOUS
<1> PICK stored : stored = LoadOrStore(batches, x, newBatch)
  OBVIOUS
<1>1. /\ batches' = [stored EXCEPT ![x].numCallers = stored[x].numCallers + 1]
      /\ timer' = LoadOrStore(timer, x, "none")
      /\ pc[g] = "assign" /\ UNCHANGED <<subscribers, published, cur>>
      /\ \E p \in {"bump", "lock"} : pc' = [pc EXCEPT ![g] = p]
  BY DEF AssignBatch, localVars
<1>2. /\ pc \in [Goroutine -> PC] /\ cur \in [Goroutine -> Nat]
      /\ batches \in [DOMAIN batches -> Batch] /\ DOMAIN timer = DOMAIN batches
  BY DEF IInv, TypeOK
<1>3. pc'[g] # "start" /\ \A h \in Goroutine : pc'[h] = "close" => pc[h] = "close" /\ cur'[h] = cur[h]
  BY <1>1, <1>2
<1>4. \A h \in Goroutine : pc[h] = "close" => cur[h] \in DOMAIN batches
  BY DEF IInv, ProgressInv, SubmitStage
<1>5. ASSUME NEW b \in DOMAIN batches', Settled(b)'
      PROVE  /\ b \in DOMAIN batches /\ Settled(b)
             /\ batches'[b].results = batches[b].results
             /\ batches'[b].errors = batches[b].errors
  <2>1. DOMAIN stored = DOMAIN batches \cup {x} /\ DOMAIN batches' = DOMAIN stored
    BY <1>1 DEF LoadOrStore
  <2>2. /\ b \in DOMAIN batches => stored[b] = batches[b]
        /\ b \notin DOMAIN batches => stored[b] = newBatch
    BY <2>1, <1>5 DEF LoadOrStore
  <2>3. stored[b] \in Batch
    <3>1. newBatch.params \in Seq(Param) /\ newBatch.results \in Seq(Result)
          /\ newBatch.errors \in Seq(BOOLEAN)
      BY DEF newBatch
    <3>2. newBatch \in Batch
      BY <3>1 DEF newBatch, Batch, Status
    <3> QED
      BY <1>2, <2>2, <3>2
  <2>4. /\ batches'[b].done = stored[b].done
        /\ batches'[b].results = stored[b].results
        /\ batches'[b].errors = stored[b].errors
    BY <1>1, <1>5, <2>1, <2>3 DEF Batch
  <2>5. timer'[b] = "close" => b \in DOMAIN batches /\ timer[b] = "close"
    BY <1>1, <1>2, <1>5, <2>1 DEF LoadOrStore
  <2>6. b \in DOMAIN batches
    <3>1. CASE batches'[b].done
      BY <2>2, <2>4, <3>1 DEF newBatch
    <3> QED
      BY <1>3, <1>4, <1>5, <2>5, <3>1 DEF Settled
  <2>7. Settled(b)
    BY <1>3, <1>5, <2>2, <2>4, <2>5, <2>6 DEF Settled
  <2> QED
    BY <2>2, <2>4, <2>6, <2>7
<1> QED
  BY <1>1, <1>3, <1>5, SettledFrame

\* A parameter that is appended leaves results, errors and done channels alone.
LEMMA PublishInvAppend ==
    ASSUME IInv, PublishInv, NEW g \in Goroutine, AppendParam(g)
    PROVE  PublishInv'
<1> PICK x : x = cur[g]
  OBVIOUS
<1>1. /\ pc \in [Goroutine -> PC] /\ cur \in [Goroutine -> Nat]
      /\ batches \in [DOMAIN batches -> Batch] /\ timer \in [DOMAIN batches -> TimerStage]
  BY DEF IInv, TypeOK
<1>2. PICK ps, st : batches' = [batches EXCEPT ![x].params = ps, ![x].status = st]
  BY DEF AppendParam
<1>3. /\ DOMAIN batches' = DOMAIN batches
      /\ \A b \in DOMAIN batches : /\ batches'[b].done = batches[b].done
                                   /\ batches'[b].results = batches[b].results
                                   /\ batches'[b].errors = batches[b].errors
  BY <1>1, <1>2 DEF Batch
<1>4. \A b \in DOMAIN batches : timer'[b] = "close" => timer[b] = "close"
  BY <1>1 DEF AppendParam, startTimeout
<1>5. /\ UNCHANGED <<subscribers, published, cur>>
      /\ \E p \in {"submit", "wait", "lookup"} : pc' = [pc EXCEPT ![g] = p]
  BY DEF AppendParam, Return
<1>6. pc'[g] # "start" /\ \A h \in Goroutine : pc'[h] = "close" => pc[h] = "close" /\ cur'[h] = cur[h]
  BY <1>1, <1>5
<1>7. \A b \in DOMAIN batches : Settled(b)' => Settled(b)
  BY <1>3, <1>4, <1>6 DEF Settled
<1> QED
  BY <1>3, <1>5, <1>6, <1>7, SettledFrame

\* The batch function only changes a batch that is not settled.
LEMMA BatchFuncFrame ==
    ASSUME IInv, NEW x \in DOMAIN batches, BatchFunc(x)
    PROVE  /\ DOMAIN batches' = DOMAIN batches
           /\ batches'[x].done = batches[x].done
           /\ \A b \in DOMAIN batches \ {x} : batches'[b] = batches[b]
<1>1. batches \in [DOMAIN batches -> Batch]
  BY DEF IInv, TypeOK
<1>2. PICK rs, es : batches' = [batches EXCEPT ![x].results = rs, ![x].errors = es]
  BY DEF BatchFunc
<1> QED
  BY <1>1, <1>2 DEF Batch

\* The goroutine that filled a batch submits it: batch function, publication,
\* done channel.
LEMMA PublishInvCallerSubmits ==
    ASSUME IInv, PublishInv, NEW g \in Goroutine,
           CallerBatchFunc(g) \/ CallerPublish(g) \/ CallerCloseDone(g)
    PROVE  PublishInv'
<1> PICK x : x = cur[g]
  OBVIOUS
<1>1. /\ pc \in [Goroutine -> PC] /\ cur \in [Goroutine -> Nat]
      /\ batches \in [DOMAIN batches -> Batch] /\ timer \in [DOMAIN batches -> TimerStage]
  BY DEF IInv, TypeOK
<1>2. x \in DOMAIN batches
  BY DEF IInv, ProgressInv, SubmitStage, CallerBatchFunc, CallerPublish, CallerCloseDone
<1>3. CASE CallerBatchFunc(g)
  <2>1. pc[g] = "submit" /\ BatchFunc(x) /\ pc' = [pc EXCEPT ![g] = "publish"]
        /\ UNCHANGED <<subscribers, published, timer, cur>>
    BY <1>3 DEF CallerBatchFunc, localVars
  <2>2. ~Settled(x)
    BY <1>2, <2>1, SubmittedIsNotSettled
  <2>3. pc'[g] = "publish" /\ \A h \in Goroutine : pc'[h] = "close" => pc[h] = "close" /\ cur'[h] = cur[h]
    BY <1>1, <2>1
  <2>4. \A b \in DOMAIN batches' : Settled(b)' => Settled(b)
    BY <1>2, <2>1, <2>3, BatchFuncFrame DEF Settled
  <2> QED
    BY <1>2, <2>1, <2>2, <2>3, <2>4, BatchFuncFrame, SettledFrame
<1>4. CASE CallerPublish(g)
  <2>1. publishToSubscribers(x) /\ pc' = [pc EXCEPT ![g] = "close"]
        /\ UNCHANGED <<batches, subscribers, timer, cur>>
    BY <1>4 DEF CallerPublish, localVars
  <2>2. pc'[g] # "start" /\ \A b \in DOMAIN batches : Settled(b)' => Settled(b) \/ b = x
    BY <1>1, <2>1 DEF Settled
  <2> QED
    BY <1>2, <2>1, <2>2, PublishSettles
<1>5. CASE CallerCloseDone(g)
  <2>1. pc[g] = "close" /\ batches' = [batches EXCEPT ![x].done = TRUE]
        /\ pc' = [pc EXCEPT ![g] = "advance"]
        /\ UNCHANGED <<subscribers, published, timer, cur>>
    BY <1>5 DEF CallerCloseDone, CloseDone, localVars
  <2>2. /\ DOMAIN batches' = DOMAIN batches
        /\ \A b \in DOMAIN batches : /\ b # x => batches'[b].done = batches[b].done
                                     /\ batches'[b].results = batches[b].results
                                     /\ batches'[b].errors = batches[b].errors
    BY <1>1, <2>1 DEF Batch
  <2>3. pc'[g] # "start" /\ \A b \in DOMAIN batches : Settled(b)' => Settled(b)
    BY <1>1, <2>1, <2>2 DEF Settled
  <2> QED
    BY <2>1, <2>2, <2>3, SettledFrame
<1> QED
  BY <1>3, <1>4, <1>5

\* The timeout of a batch closes and submits it.
LEMMA PublishInvTimer ==
    ASSUME IInv, PublishInv, NEW x \in DOMAIN timer, Timer(x)
    PROVE  PublishInv'
<1>1. /\ batches \in [DOMAIN batches -> Batch] /\ timer \in [DOMAIN batches -> TimerStage]
      /\ x \in DOMAIN batches
  BY DEF IInv, TypeOK
<1>2. \E g \in Goroutine : pc[g] # "start"
  BY <1>1 DEF PublishInv
<1>3. CASE CloseAfterTimeout(x)
  <2>1. PICK st : /\ batches' = [batches EXCEPT ![x].status = st] \/ batches' = batches
                  /\ \E t \in {"submit", "fired"} : timer' = [timer EXCEPT ![x] = t]
                  /\ UNCHANGED <<subscribers, published, pc, cur>>
    BY <1>3 DEF CloseAfterTimeout, localVars
  <2>2. /\ DOMAIN batches' = DOMAIN batches
        /\ \A b \in DOMAIN batches : /\ batches'[b].done = batches[b].done
                                     /\ batches'[b].results = batches[b].results
                                     /\ batches'[b].errors = batches[b].errors
    <3>1. CASE batches' = [batches EXCEPT ![x].status = st]
      BY <1>1, <3>1 DEF Batch
    <3> QED
      BY <2>1, <3>1
  <2>3. \A b \in DOMAIN batches : Settled(b)' => Settled(b)
    BY <1>1, <2>1, <2>2 DEF Settled
  <2> QED
    BY <1>2, <2>1, <2>2, <2>3, SettledFrame
<1>4. CASE TimerBatchFunc(x)
  <2>1. timer[x] = "submit" /\ BatchFunc(x) /\ timer' = [timer EXCEPT ![x] = "publish"]
        /\ UNCHANGED <<subscribers, published, pc, cur>>
    BY <1>4 DEF TimerBatchFunc, localVars
  <2>2. ~Settled(x)
    BY <1>1, <2>1, SubmittedIsNotSettled
  <2>3. \A b \in DOMAIN batches' : Settled(b)' => Settled(b)
    BY <1>1, <2>1, BatchFuncFrame DEF Settled
  <2> QED
    BY <1>1, <1>2, <2>1, <2>2, <2>3, BatchFuncFrame, SettledFrame
<1>5. CASE TimerPublish(x)
  <2>1. publishToSubscribers(x) /\ timer' = [timer EXCEPT ![x] = "close"]
        /\ UNCHANGED <<batches, subscribers, pc, cur>>
    BY <1>5 DEF TimerPublish, localVars
  <2>2. \A b \in DOMAIN batches : Settled(b)' => Settled(b) \/ b = x
    BY <1>1, <2>1 DEF Settled
  <2> QED
    BY <1>1, <1>2, <2>1, <2>2, PublishSettles
<1>6. CASE TimerCloseDone(x)
  <2>1. timer[x] = "close" /\ batches' = [batches EXCEPT ![x].done = TRUE]
        /\ timer' = [timer EXCEPT ![x] = "fired"]
        /\ UNCHANGED <<subscribers, published, pc, cur>>
    BY <1>6 DEF TimerCloseDone, CloseDone, localVars
  <2>2. /\ DOMAIN batches' = DOMAIN batches
        /\ \A b \in DOMAIN batches : /\ b # x => batches'[b].done = batches[b].done
                                     /\ batches'[b].results = batches[b].results
                                     /\ batches'[b].errors = batches[b].errors
    BY <1>1, <2>1 DEF Batch
  <2>3. \A b \in DOMAIN batches : Settled(b)' => Settled(b)
    BY <1>1, <2>1, <2>2 DEF Settled
  <2> QED
    BY <1>2, <2>1, <2>2, <2>3, SettledFrame
<1> QED
  BY <1>3, <1>4, <1>5, <1>6 DEF Timer

\* Every step keeps the invariant of publication.
LEMMA NextPublishInv == IInv /\ PublishInv /\ [Next]_vars => PublishInv'
<1> SUFFICES ASSUME IInv, PublishInv, [Next]_vars PROVE PublishInv'
  OBVIOUS
<1>1. CASE UNCHANGED vars
  BY <1>1 DEF vars, batcherVars, localVars, PublishInv, Settled, Delivered
<1>2. ASSUME NEW s \in Subscriber, RegisterResultSubscriber(s) PROVE PublishInv'
  BY <1>2 DEF RegisterResultSubscriber, PublishInv
<1>3. ASSUME NEW p \in Param, Prime(p) PROVE PublishInv'
  BY <1>3 DEF Prime, PublishInv, Settled, Delivered, localVars
<1>4. ASSUME NEW g \in Goroutine, DoAll(g) \/ Caller(g) PROVE PublishInv'
  BY <1>4, PublishInvCaller, PublishInvAssign, PublishInvAppend, PublishInvCallerSubmits DEF Caller
<1>5. ASSUME NEW b \in DOMAIN timer, Timer(b) PROVE PublishInv'
  BY <1>5, PublishInvTimer
<1> QED
  BY <1>1, <1>2, <1>3, <1>4, <1>5 DEF Next

\* When the done channel of a batch is closed, every result of it that has no
\* error has been published to every subscriber, whoever submitted the batch.
THEOREM ResultsPublishedFirst == Spec => []PublishedBeforeDone
<1>1. Init => PublishInv
  BY DEF Init, PublishInv
<1>2. PublishInv => PublishedBeforeDone
  BY DEF PublishInv, PublishedBeforeDone, Settled, Delivered
<1> QED
  BY <1>1, <1>2, NextPublishInv, Invariance, PTL DEF Spec

----------------------------------------------------------------------------
(* No batch is stranded.                                                   *)

\* A step that gives parameters only to batches that are served, and takes nobody away
\* from a batch that is not done, strands none.
LEMMA ServedFrame ==
    ASSUME NeverStranded,
           \A b \in DOMAIN batches' : batches'[b].params # <<>> /\ ~batches'[b].done =>
               \/ Served(b)'
               \/ /\ b \in DOMAIN batches /\ batches[b].params # <<>> /\ ~batches[b].done
                  /\ batches'[b].status = batches[b].status /\ timer'[b] = timer[b]
                  /\ \A g \in Goroutine : CallerSubmits(g, b) => CallerSubmits(g, b)'
    PROVE  NeverStranded'
<1> SUFFICES ASSUME NEW b \in DOMAIN batches', batches'[b].params # <<>>, ~batches'[b].done
             PROVE  Served(b)'
  BY DEF NeverStranded, Served
<1>1. CASE Served(b)'
  BY <1>1
<1>2. CASE /\ b \in DOMAIN batches /\ batches[b].params # <<>> /\ ~batches[b].done
           /\ batches'[b].status = batches[b].status /\ timer'[b] = timer[b]
           /\ \A g \in Goroutine : CallerSubmits(g, b) => CallerSubmits(g, b)'
  BY <1>2 DEF NeverStranded, Served, TimerSubmits
<1> QED
  BY <1>1, <1>2

\* Steps that leave batches and timeouts alone and take nobody out of a submission.
LEMMA ServedQuiet ==
    ASSUME IInv, NeverStranded, UNCHANGED <<batches, timer>>,
           NEW g \in Goroutine, NEW p, pc' = [pc EXCEPT ![g] = p],
           pc[g] \in SubmitStage => p \in SubmitStage,
           cur' = cur \/ (pc[g] \notin SubmitStage /\ \E b : cur' = [cur EXCEPT ![g] = b])
    PROVE  NeverStranded'
<1>1. pc \in [Goroutine -> PC] /\ cur \in [Goroutine -> Nat]
  BY DEF IInv, TypeOK
<1>2. \A b : \A h \in Goroutine : CallerSubmits(h, b) => CallerSubmits(h, b)'
  BY <1>1 DEF CallerSubmits
<1> QED
  BY <1>2, ServedFrame

\* The steps of a goroutine that write to no batch.
LEMMA ServedByCaller ==
    ASSUME IInv, NeverStranded, NEW g \in Goroutine,
           \/ DoAll(g) \/ DoThunk(g) \/ ReadBatchID(g) \/ BumpBatchID(g) \/ FindClosed(g)
           \/ FindParam(g) \/ CallerPublish(g) \/ CallerAdvance(g) \/ CallHitThunk(g)
           \/ CallBatchThunk(g)
    PROVE  NeverStranded'
<1> USE DEF batcherVars, localVars, SubmitStage
<1>1. CASE DoAll(g)
  BY <1>1, ServedQuiet DEF DoAll
<1>2. CASE DoThunk(g)
  BY <1>2, ServedQuiet DEF DoThunk, Return
<1>3. CASE ReadBatchID(g)
  BY <1>3, ServedQuiet DEF ReadBatchID
<1>4. CASE BumpBatchID(g)
  BY <1>4, ServedQuiet DEF BumpBatchID
<1>5. CASE FindClosed(g)
  BY <1>5, ServedQuiet DEF FindClosed
<1>6. CASE FindParam(g)
  BY <1>6, ServedQuiet DEF FindParam, Return
<1>7. CASE CallerPublish(g)
  BY <1>7, ServedQuiet DEF CallerPublish
<1>8. CASE CallerAdvance(g)
  BY <1>8, ServedQuiet DEF CallerAdvance, Return
<1>9. CASE CallHitThunk(g)
  BY <1>9, ServedQuiet DEF CallHitThunk, Resolve
<1>10. CASE CallBatchThunk(g)
  BY <1>10, ServedQuiet DEF CallBatchThunk, Resolve
<1> QED
  BY <1>1, <1>2, <1>3, <1>4, <1>5, <1>6, <1>7, <1>8, <1>9, <1>10

\* A batch that is created has no parameters yet; the others only count one more caller.
LEMMA ServedByAssign ==
    ASSUME IInv, NeverStranded, NEW g \in Goroutine, AssignBatch(g)
    PROVE  NeverStranded'
<1> PICK x : x = cur[g]
  OBVIOUS
<1> PICK stored : stored = LoadOrStore(batches, x, newBatch)
  OBVIOUS
<1>1. /\ batches' = [stored EXCEPT ![x].numCallers = stored[x].numCallers + 1]
      /\ timer' = LoadOrStore(timer, x, "none")
      /\ pc[g] = "assign" /\ UNCHANGED cur
      /\ \E p \in {"bump", "lock"} : pc' = [pc EXCEPT ![g] = p]
  BY DEF AssignBatch, localVars
<1>2. /\ pc \in [Goroutine -> PC] /\ cur \in [Goroutine -> Nat]
      /\ batches \in [DOMAIN batches -> Batch] /\ DOMAIN timer = DOMAIN batches
  BY DEF IInv, TypeOK
<1>3. \A b : \A h \in Goroutine : CallerSubmits(h, b) => CallerSubmits(h, b)'
  BY <1>1, <1>2 DEF CallerSubmits, SubmitStage
<1>4. ASSUME NEW b \in DOMAIN batches', batches'[b].params # <<>>
      PROVE  /\ b \in DOMAIN batches /\ batches[b].params # <<>> /\ batches'[b].done = batches[b].done
             /\ batches'[b].status = batches[b].status /\ timer'[b] = timer[b]
  <2>1. DOMAIN stored = DOMAIN batches \cup {x} /\ DOMAIN batches' = DOMAIN stored
    BY <1>1 DEF LoadOrStore
  <2>2. /\ b \in DOMAIN batches => stored[b] = batches[b]
        /\ b \notin DOMAIN batches => stored[b] = newBatch
    BY <2>1, <1>4 DEF LoadOrStore
  <2>3. stored[b] \in Batch
    <3>1. newBatch.params \in Seq(Param) /\ newBatch.results \in Seq(Result)
          /\ newBatch.errors \in Seq(BOOLEAN)
      BY DEF newBatch
    <3>2. newBatch \in Batch
      BY <3>1 DEF newBatch, Batch, Status
    <3> QED
      BY <1>2, <2>2, <3>2
  <2>4. /\ batches'[b].params = stored[b].params /\ batches'[b].done = stored[b].done
        /\ batches'[b].status = stored[b].status
    BY <1>1, <1>4, <2>1, <2>3 DEF Batch
  <2>5. b \in DOMAIN batches
    BY <1>4, <2>2, <2>4 DEF newBatch
  <2>6. timer'[b] = timer[b]
    BY <1>1, <1>2, <2>5 DEF LoadOrStore
  <2> QED
    BY <1>4, <2>2, <2>4, <2>5, <2>6
<1> QED
  BY <1>3, <1>4, ServedFrame

\* Steps that write to one batch, and to its timeout, and move one goroutine.
LEMMA ServedButOne ==
    ASSUME IInv, NeverStranded, NEW x \in DOMAIN batches, DOMAIN batches' = DOMAIN batches,
           \A b \in DOMAIN batches \ {x} : batches'[b] = batches[b] /\ timer'[b] = timer[b],
           \A h \in Goroutine : CallerSubmits(h, x) \/ (pc'[h] = pc[h] /\ cur'[h] = cur[h])
                                \/ pc[h] \notin SubmitStage,
           \/ batches'[x].done \/ Served(x)'
    PROVE  NeverStranded'
<1>1. ASSUME NEW b \in DOMAIN batches \ {x}, NEW h \in Goroutine, CallerSubmits(h, b)
      PROVE  CallerSubmits(h, b)'
  BY <1>1 DEF CallerSubmits
<1> QED
  BY <1>1, ServedFrame

\* The first parameter of a batch wakes its timeout; whoever fills it submits it.
LEMMA ServedByAppend ==
    ASSUME IInv, NeverStranded, NEW g \in Goroutine, AppendParam(g)
    PROVE  NeverStranded'
<1> PICK x : x = cur[g]
  OBVIOUS
<1>1. /\ pc \in [Goroutine -> PC] /\ cur \in [Goroutine -> Nat]
      /\ batches \in [DOMAIN batches -> Batch] /\ timer \in [DOMAIN batches -> TimerStage]
  BY DEF IInv, TypeOK
<1>2. pc[g] = "lock" /\ batches[x].status = "Open" /\ UNCHANGED cur
  BY DEF AppendParam, isOpen
<1>3. x \in DOMAIN batches
  BY <1>2 DEF IInv, ProgressInv
<1> DEFINE ps == Append(batches[x].params, param(g))
           full == Len(ps) = MaxBatchSize
<1>4. /\ batches' = [batches EXCEPT ![x].params = ps, ![x].status = IF full THEN "Closed" ELSE "Open"]
      /\ timer' = startTimeout(x, Len(ps))
      /\ IF full THEN pc' = [pc EXCEPT ![g] = "submit"]
         ELSE \E p \in {"wait", "lookup"} : pc' = [pc EXCEPT ![g] = p]
  BY DEF AppendParam, Return
<1> HIDE DEF ps, full
<1>5. /\ DOMAIN batches' = DOMAIN batches /\ \A b \in DOMAIN batches \ {x} : batches'[b] = batches[b]
      /\ batches'[x].status = IF full THEN "Closed" ELSE "Open"
  BY <1>1, <1>3, <1>4 DEF Batch
<1>6. \A b \in DOMAIN batches \ {x} : timer'[b] = timer[b]
  BY <1>1, <1>4 DEF startTimeout
<1>7. \A h \in Goroutine : (pc'[h] = pc[h] /\ cur'[h] = cur[h]) \/ pc[h] \notin SubmitStage
  BY <1>1, <1>2, <1>4 DEF SubmitStage
<1>8. Served(x)'
  <2>1. CASE full
    <3>1. pc'[g] = "submit" /\ cur'[g] = x
      BY <1>1, <1>2, <1>4, <2>1
    <3> QED
      BY <3>1 DEF Served, CallerSubmits, SubmitStage
  <2>2. CASE ~full
    <3>1. timer'[x] = "sleeping"
      <4>1. CASE Len(ps) = 1
        BY <1>1, <1>3, <1>4, <4>1 DEF startTimeout
      <4>2. CASE Len(ps) # 1
        <5>1. batches[x].params # <<>>
          <6>1. Len(Append(<<>>, param(g))) = 1
            OBVIOUS
          <6> QED
            BY <4>2, <6>1 DEF ps
        <5>2. ~batches[x].done
          BY <1>2, <1>3 DEF IInv, ResultInv, Aligned
        <5>3. Served(x)
          BY <1>3, <5>1, <5>2 DEF NeverStranded, Served
        <5>4. timer[x] = "sleeping"
          BY <1>2, <1>3, <5>3 DEF Served, IInv, SubmitOnce
        <5> QED
          BY <1>4, <4>2, <5>4 DEF startTimeout
      <4> QED
        BY <4>1, <4>2
    <3> QED
      BY <1>5, <2>2, <3>1 DEF Served
  <2> QED
    BY <2>1, <2>2
<1> QED
  BY <1>3, <1>5, <1>6, <1>7, <1>8, ServedButOne

\* Who filled a batch submits it.
LEMMA ServedByCallerSubmits ==
    ASSUME IInv, NeverStranded, NEW g \in Goroutine, CallerBatchFunc(g) \/ CallerCloseDone(g)
    PROVE  NeverStranded'
<1> PICK x : x = cur[g]
  OBVIOUS
<1>1. /\ pc \in [Goroutine -> PC] /\ cur \in [Goroutine -> Nat]
      /\ batches \in [DOMAIN batches -> Batch]
  BY DEF IInv, TypeOK
<1>2. x \in DOMAIN batches
  BY DEF IInv, ProgressInv, SubmitStage, CallerBatchFunc, CallerCloseDone
<1>3. CASE CallerBatchFunc(g)
  <2>1. pc[g] = "submit" /\ BatchFunc(x) /\ pc' = [pc EXCEPT ![g] = "publish"] /\ UNCHANGED <<timer, cur>>
    BY <1>3 DEF CallerBatchFunc, localVars
  <2>2. pc'[g] = "publish" /\ \A h \in Goroutine \ {g} : pc'[h] = pc[h]
    BY <1>1, <2>1
  <2>3. CallerSubmits(g, x) /\ Served(x)'
    BY <2>1, <2>2 DEF CallerSubmits, Served, SubmitStage
  <2> QED
    BY <1>2, <2>1, <2>2, <2>3, BatchFuncFrame, ServedButOne
<1>4. CASE CallerCloseDone(g)
  <2>1. pc[g] = "close" /\ batches' = [batches EXCEPT ![x].done = TRUE]
        /\ pc' = [pc EXCEPT ![g] = "advance"] /\ UNCHANGED <<timer, cur>>
    BY <1>4 DEF CallerCloseDone, CloseDone, localVars
  <2>2. /\ DOMAIN batches' = DOMAIN batches /\ batches'[x].done
        /\ \A b \in DOMAIN batches \ {x} : batches'[b] = batches[b]
    BY <1>1, <1>2, <2>1 DEF Batch
  <2>3. CallerSubmits(g, x) /\ \A h \in Goroutine \ {g} : pc'[h] = pc[h]
    BY <1>1, <2>1 DEF CallerSubmits, SubmitStage
  <2> QED
    BY <1>2, <2>1, <2>2, <2>3, ServedButOne
<1> QED
  BY <1>3, <1>4

\* A timeout finds its batch open and submits it, or finds it closed: then whoever
\* closed it submits it or has done so.
LEMMA ServedByTimer ==
    ASSUME IInv, NeverStranded, NEW x \in DOMAIN timer, Timer(x)
    PROVE  NeverStranded'
<1>1. /\ batches \in [DOMAIN batches -> Batch] /\ timer \in [DOMAIN batches -> TimerStage]
      /\ x \in DOMAIN batches
  BY DEF IInv, TypeOK
<1>2. UNCHANGED <<pc, cur>>
  BY DEF Timer, CloseAfterTimeout, TimerBatchFunc, TimerPublish, TimerCloseDone, localVars
<1>3. CASE CloseAfterTimeout(x) /\ batches[x].status = "Open"
  <2>1. batches' = [batches EXCEPT ![x].status = "Closed"] /\ timer' = [timer EXCEPT ![x] = "submit"]
    BY <1>3 DEF CloseAfterTimeout
  <2>2. Served(x)'
    BY <1>1, <2>1 DEF Served, TimerSubmits, SubmitStage
  <2> QED
    BY <1>1, <1>2, <2>1, <2>2, ServedButOne
<1>4. CASE CloseAfterTimeout(x) /\ batches[x].status # "Open"
  <2>1. timer[x] = "sleeping" /\ timer' = [timer EXCEPT ![x] = "fired"] /\ batches' = batches
    BY <1>4 DEF CloseAfterTimeout
  <2>2. \A b \in DOMAIN batches \ {x} : timer'[b] = timer[b]
    BY <1>1, <2>1
  <2>3. CASE batches[x].params # <<>> /\ ~batches[x].done
    <3>1. \E g \in Goroutine : CallerSubmits(g, x)
      BY <1>1, <1>4, <2>1, <2>3 DEF NeverStranded, Served, TimerSubmits, SubmitStage
    <3>2. Served(x)'
      BY <1>2, <3>1 DEF Served, CallerSubmits
    <3> QED
      BY <1>1, <1>2, <2>1, <2>2, <3>2, ServedButOne
  <2>4. CASE ~(batches[x].params # <<>> /\ ~batches[x].done)
    <3>1. \A b : \A h \in Goroutine : CallerSubmits(h, b) => CallerSubmits(h, b)'
      BY <1>2 DEF CallerSubmits
    <3> QED
      BY <2>1, <2>2, <2>4, <3>1, ServedFrame
  <2> QED
    BY <2>3, <2>4
<1>5. CASE TimerBatchFunc(x) \/ TimerPublish(x)
  <2>1. /\ DOMAIN batches' = DOMAIN batches /\ \A b \in DOMAIN batches \ {x} : batches'[b] = batches[b]
        /\ \E t \in {"publish", "close"} : timer' = [timer EXCEPT ![x] = t]
    BY <1>1, <1>5, BatchFuncFrame DEF TimerBatchFunc, TimerPublish
  <2>2. Served(x)' /\ \A b \in DOMAIN batches \ {x} : timer'[b] = timer[b]
    BY <1>1, <2>1 DEF Served, TimerSubmits, SubmitStage
  <2> QED
    BY <1>1, <1>2, <2>1, <2>2, ServedButOne
<1>6. CASE TimerCloseDone(x)
  <2>1. batches' = [batches EXCEPT ![x].done = TRUE] /\ timer' = [timer EXCEPT ![x] = "fired"]
    BY <1>6 DEF TimerCloseDone, CloseDone
  <2>2. batches'[x].done
    BY <1>1, <2>1 DEF Batch
  <2> QED
    BY <1>1, <1>2, <2>1, <2>2, ServedButOne
<1> QED
  BY <1>3, <1>4, <1>5, <1>6 DEF Timer

\* Every step keeps it.
LEMMA NextNeverStranded == IInv /\ NeverStranded /\ [Next]_vars => NeverStranded'
<1> SUFFICES ASSUME IInv, NeverStranded, [Next]_vars PROVE NeverStranded'
  OBVIOUS
<1>1. CASE UNCHANGED <<batches, timer, pc, cur>>
  BY <1>1 DEF NeverStranded, Served, TimerSubmits, CallerSubmits
<1>2. ASSUME NEW s \in Subscriber, RegisterResultSubscriber(s) PROVE NeverStranded'
  BY <1>1, <1>2 DEF RegisterResultSubscriber, localVars
<1>3. ASSUME NEW p \in Param, Prime(p) PROVE NeverStranded'
  BY <1>1, <1>3 DEF Prime, localVars
<1>4. ASSUME NEW g \in Goroutine, DoAll(g) \/ Caller(g) PROVE NeverStranded'
  BY <1>4, ServedByCaller, ServedByAssign, ServedByAppend, ServedByCallerSubmits DEF Caller
<1>5. ASSUME NEW b \in DOMAIN timer, Timer(b) PROVE NeverStranded'
  BY <1>5, ServedByTimer
<1> QED
  BY <1>1, <1>2, <1>3, <1>4, <1>5 DEF Next, vars, batcherVars, localVars

\* The thunk that a caller waits for names a parameter of its batch.
LEMMA AwaitedAreFilled ==
    ASSUME IInv PROVE AwaitedIsFilled
<1> SUFFICES ASSUME NEW g \in Goroutine, pc[g] = "wait", ~thunks[g][Len(answers[g]) + 1].hit
             PROVE  AwaitedBatch(g) \in DOMAIN batches /\ batches[AwaitedBatch(g)].params # <<>>
  BY DEF AwaitedIsFilled
<1> DEFINE k == Len(answers[g]) + 1
<1>1. Len(answers[g]) \in Nat /\ Len(thunks[g]) \in Nat
  BY DEF IInv, TypeOK
<1>2. k \in 1..Len(thunks[g])
  BY <1>1 DEF IInv, ProgressInv
<1>3. ThunkFor(thunks[g][k], args[g][k])
  BY <1>2 DEF IInv, ThunkInv
<1>4. /\ AwaitedBatch(g) \in DOMAIN batches
      /\ thunks[g][k].index \in 1..Len(batches[AwaitedBatch(g)].params)
  BY <1>3 DEF ThunkFor, AwaitedBatch
<1>5. batches[AwaitedBatch(g)].params # <<>>
  BY <1>4
<1> QED
  BY <1>4, <1>5

\* A batch is submitted exactly once, however its timeout and the callers that fill it
\* interleave: never twice, and one that has parameters has somebody who will close its
\* done channel.  Nobody waits for any other.
THEOREM BatchesAreSubmitted == Spec => []SubmittedExactlyOnce
<1>1. Init => NeverStranded
  BY DEF Init, NeverStranded
<1>2. IInv /\ NeverStranded => SubmittedExactlyOnce
  BY AwaitedAreFilled DEF IInv, SubmittedExactlyOnce
<1> QED
  BY <1>1, <1>2, NextNeverStranded, Invariance, InitIInv, PTL DEF Spec

----------------------------------------------------------------------------
(* The action properties.  A closed batch can only be changed by its       *)
(* submitter, and a submitter's batch is not done (SubmitOnce), so nothing *)
(* that is read without the mutex is written after it was handed out.      *)

\* What one step may do to batch b.
BatchFrozen(b) ==
    /\ batches[b].status = "Closed" =>
          /\ batches'[b].status = "Closed"
          /\ batches'[b].params = batches[b].params
    /\ batches[b].done =>
          /\ batches'[b].done
          /\ batches'[b].results = batches[b].results
          /\ batches'[b].errors = batches[b].errors

\* A caller that is given a batch only counts itself in.
LEMMA FrozenByAssign ==
    ASSUME IInv, NEW g \in Goroutine, AssignBatch(g), NEW b \in DOMAIN batches
    PROVE  BatchFrozen(b)
<1> PICK x : x = cur[g]
  OBVIOUS
<1> PICK stored : stored = LoadOrStore(batches, x, newBatch)
  OBVIOUS
<1>1. batches' = [stored EXCEPT ![x].numCallers = stored[x].numCallers + 1]
  BY DEF AssignBatch
<1>2. stored[b] = batches[b] /\ b \in DOMAIN stored /\ stored[b] \in Batch
  BY DEF LoadOrStore, IInv, TypeOK
<1>3. /\ batches'[b].status = stored[b].status /\ batches'[b].params = stored[b].params
      /\ batches'[b].done = stored[b].done /\ batches'[b].results = stored[b].results
      /\ batches'[b].errors = stored[b].errors
  BY <1>1, <1>2 DEF Batch
<1> QED
  BY <1>2, <1>3 DEF BatchFrozen

\* Parameters are appended under the mutex to a batch that is still open.
LEMMA FrozenByAppend ==
    ASSUME IInv, NEW g \in Goroutine, AppendParam(g), NEW b \in DOMAIN batches
    PROVE  BatchFrozen(b)
<1> PICK x : x = cur[g]
  OBVIOUS
<1>1. batches \in [DOMAIN batches -> Batch]
  BY DEF IInv, TypeOK
<1>2. PICK ps, st : batches' = [batches EXCEPT ![x].params = ps, ![x].status = st]
  BY DEF AppendParam
<1>3. batches[x].status = "Open"
  BY DEF AppendParam, isOpen
<1>4. /\ batches'[b].done = batches[b].done
      /\ batches'[b].results = batches[b].results
      /\ batches'[b].errors = batches[b].errors
      /\ b # x => batches'[b] = batches[b]
  BY <1>1, <1>2 DEF Batch
<1> QED
  BY <1>3, <1>4 DEF BatchFrozen

\* The batch function fills in the results of a batch that is not done.
LEMMA FrozenByBatchFunc ==
    ASSUME IInv, NEW x \in DOMAIN batches, BatchFunc(x), ~batches[x].done,
           NEW b \in DOMAIN batches
    PROVE  BatchFrozen(b)
<1>1. batches \in [DOMAIN batches -> Batch]
  BY DEF IInv, TypeOK
<1>2. PICK rs, es : batches' = [batches EXCEPT ![x].results = rs, ![x].errors = es]
  BY DEF BatchFunc
<1>3. /\ batches'[b].params = batches[b].params
      /\ batches'[b].status = batches[b].status
      /\ b # x => batches'[b] = batches[b]
  BY <1>1, <1>2 DEF Batch
<1> QED
  BY <1>3 DEF BatchFrozen

\* Closing the done channel changes nothing else.
LEMMA FrozenByCloseDone ==
    ASSUME IInv, NEW x \in DOMAIN batches, CloseDone(x), NEW b \in DOMAIN batches
    PROVE  BatchFrozen(b)
<1>1. batches \in [DOMAIN batches -> Batch]
  BY DEF IInv, TypeOK
<1>2. batches' = [batches EXCEPT ![x].done = TRUE]
  BY DEF CloseDone
<1>3. /\ batches'[b].params = batches[b].params
      /\ batches'[b].status = batches[b].status
      /\ batches'[b].results = batches[b].results
      /\ batches'[b].errors = batches[b].errors
  BY <1>1, <1>2 DEF Batch
<1>4. batches[b].done => batches'[b].done
  BY <1>1, <1>2 DEF Batch
<1> QED
  BY <1>3, <1>4 DEF BatchFrozen

\* The timeout closes an open batch, and leaves one that is closed alone.
LEMMA FrozenByTimeout ==
    ASSUME IInv, NEW x \in DOMAIN batches, CloseAfterTimeout(x), NEW b \in DOMAIN batches
    PROVE  BatchFrozen(b)
<1>1. batches \in [DOMAIN batches -> Batch]
  BY DEF IInv, TypeOK
<1>2. CASE batches' = [batches EXCEPT ![x].status = "Closed"]
  <2>1. /\ batches'[b].params = batches[b].params
        /\ batches'[b].done = batches[b].done
        /\ batches'[b].results = batches[b].results
        /\ batches'[b].errors = batches[b].errors
    BY <1>1, <1>2 DEF Batch
  <2>2. batches[b].status = "Closed" => batches'[b].status = "Closed"
    BY <1>1, <1>2 DEF Batch
  <2> QED
    BY <2>1, <2>2 DEF BatchFrozen
<1>3. CASE batches' = batches
  BY <1>3 DEF BatchFrozen
<1> QED
  BY <1>2, <1>3 DEF CloseAfterTimeout

\* Every step leaves every batch frozen as far as it was.
LEMMA NextFrozen ==
    ASSUME IInv, [Next]_vars, NEW b \in DOMAIN batches
    PROVE  BatchFrozen(b)
<1>1. CASE batches' = batches
  BY <1>1 DEF BatchFrozen
<1>2. ASSUME NEW g \in Goroutine, DoAll(g) \/ Caller(g) PROVE BatchFrozen(b)
  <2>1. CASE AssignBatch(g)
    BY <2>1, FrozenByAssign
  <2>2. CASE AppendParam(g)
    BY <2>2, FrozenByAppend
  <2>3. pc[g] \in SubmitStage => cur[g] \in DOMAIN batches
    BY DEF IInv, ProgressInv
  <2>4. CASE CallerBatchFunc(g)
    <3>1. cur[g] \in DOMAIN batches /\ BatchFunc(cur[g]) /\ pc[g] = "submit"
      BY <2>3, <2>4 DEF CallerBatchFunc, SubmitStage
    <3>2. ~batches[cur[g]].done
      BY <3>1 DEF IInv, SubmitOnce, CallerSubmits, SubmitStage
    <3> QED
      BY <3>1, <3>2, FrozenByBatchFunc
  <2>5. CASE CallerCloseDone(g)
    BY <2>3, <2>5, FrozenByCloseDone DEF CallerCloseDone, SubmitStage
  <2>6. CASE DoAll(g) \/ DoThunk(g) \/ ReadBatchID(g) \/ BumpBatchID(g) \/ FindClosed(g) \/ FindParam(g)
    BY <1>1, <2>6 DEF DoAll, DoThunk, ReadBatchID, BumpBatchID, FindClosed, FindParam, batcherVars
  <2>7. CASE CallerPublish(g) \/ CallerAdvance(g) \/ CallHitThunk(g) \/ CallBatchThunk(g)
    BY <1>1, <2>7 DEF CallerPublish, CallerAdvance, CallHitThunk, CallBatchThunk, batcherVars
  <2> QED
    BY <1>2, <2>1, <2>2, <2>4, <2>5, <2>6, <2>7 DEF Caller
<1>3. ASSUME NEW x \in DOMAIN timer, Timer(x) PROVE BatchFrozen(b)
  <2>1. x \in DOMAIN batches
    BY DEF IInv, TypeOK
  <2>2. CASE TimerBatchFunc(x)
    <3>1. BatchFunc(x) /\ timer[x] = "submit"
      BY <2>2 DEF TimerBatchFunc
    <3>2. ~batches[x].done
      BY <2>1, <3>1 DEF IInv, SubmitOnce, TimerSubmits, SubmitStage
    <3> QED
      BY <2>1, <3>1, <3>2, FrozenByBatchFunc
  <2>3. CASE TimerPublish(x)
    BY <1>1, <2>3 DEF TimerPublish
  <2>4. CASE TimerCloseDone(x)
    BY <2>1, <2>4, FrozenByCloseDone DEF TimerCloseDone
  <2> QED
    BY <1>3, <2>1, <2>2, <2>3, <2>4, FrozenByTimeout DEF Timer
<1>4. CASE \E s \in Subscriber : RegisterResultSubscriber(s)
  BY <1>1, <1>4 DEF RegisterResultSubscriber
<1>5. CASE \E p \in Param : Prime(p)
  BY <1>1, <1>5 DEF Prime
<1>6. CASE UNCHANGED vars
  BY <1>1, <1>6 DEF vars, batcherVars
<1> QED
  BY <1>2, <1>3, <1>4, <1>5, <1>6 DEF Next

\* What submitBatch and the thunks read without the mutex does not change any
\* more: a closed batch keeps its parameters and stays closed, and a batch whose
\* done channel is closed keeps its results and errors.
THEOREM ClosedBatchesFrozen == Spec => ClosedIsFrozen
<1>1. IInv /\ [Next]_vars => \A b \in DOMAIN batches : BatchFrozen(b)
  BY NextFrozen
<1>2. IInv /\ [Next]_vars =>
        [\A b \in DOMAIN batches :
          /\ batches[b].status = "Closed" =>
                /\ batches'[b].status = "Closed"
                /\ batches'[b].params = batches[b].params
          /\ batches[b].done =>
                /\ batches'[b].done
                /\ batches'[b].results = batches[b].results
                /\ batches'[b].errors = batches[b].errors]_vars
  BY <1>1 DEF BatchFrozen
<1> QED
  BY <1>2, Invariance, PTL DEF Spec, ClosedIsFrozen

\* What one step may do to the cache.
CacheKept ==
    \A p \in DOMAIN resultCache : p \in DOMAIN resultCache' /\ resultCache'[p] = resultCache[p]

\* Every step keeps what is in the cache: both writers go through LoadOrStore.
LEMMA NextCacheKept == [Next]_vars => CacheKept
<1> SUFFICES ASSUME [Next]_vars PROVE CacheKept
  OBVIOUS
<1>1. CASE resultCache' = resultCache
  BY <1>1 DEF CacheKept
<1>2. ASSUME NEW p, NEW r, resultCache' = cacheWith(p, r) PROVE CacheKept
  BY <1>2 DEF CacheKept, cacheWith, LoadOrStore
<1>3. ASSUME NEW g \in Goroutine, DoAll(g) \/ Caller(g) PROVE CacheKept
  <2>1. CASE CallBatchThunk(g)
    BY <1>1, <1>2, <2>1 DEF CallBatchThunk
  <2>2. CASE DoAll(g) \/ DoThunk(g) \/ ReadBatchID(g) \/ AssignBatch(g) \/ BumpBatchID(g) \/ FindClosed(g)
    BY <1>1, <2>2 DEF DoAll, DoThunk, ReadBatchID, AssignBatch, BumpBatchID, FindClosed, batcherVars
  <2>3. CASE \/ FindParam(g) \/ AppendParam(g) \/ CallerBatchFunc(g) \/ CallerPublish(g)
             \/ CallerCloseDone(g) \/ CallerAdvance(g) \/ CallHitThunk(g)
    BY <1>1, <2>3 DEF FindParam, AppendParam, CallerBatchFunc, CallerPublish, CallerCloseDone,
       CallerAdvance, CallHitThunk, batcherVars
  <2> QED
    BY <1>3, <2>1, <2>2, <2>3 DEF Caller
<1>4. CASE \E b \in DOMAIN timer : Timer(b)
  BY <1>1, <1>4 DEF Timer, CloseAfterTimeout, TimerBatchFunc, TimerPublish, TimerCloseDone
<1>5. CASE \E s \in Subscriber : RegisterResultSubscriber(s)
  BY <1>1, <1>5 DEF RegisterResultSubscriber
<1>6. CASE \E p \in Param : Prime(p)
  BY <1>2, <1>6 DEF Prime
<1>7. CASE UNCHANGED vars
  BY <1>1, <1>7 DEF vars, batcherVars
<1> QED
  BY <1>3, <1>4, <1>5, <1>6, <1>7 DEF Next

\* A cached parameter keeps its first result, whatever is fetched or primed
\* later.
THEOREM CacheKeepsResults == Spec => CacheIsStable
<1>1. [Next]_vars =>
        [\A p \in DOMAIN resultCache :
          p \in DOMAIN resultCache' /\ resultCache'[p] = resultCache[p]]_vars
  BY NextCacheKept DEF CacheKept
<1> QED
  BY <1>1, PTL DEF Spec, CacheIsStable
=============================================================================
