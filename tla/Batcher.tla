------------------------------ MODULE Batcher ------------------------------
(***************************************************************************)
(* The generic request batcher behind every GraphQL dataloader             *)
(* (util/batch/batch.go).  Resolver goroutines ask for one result per      *)
(* parameter; the batcher collects the parameters of concurrent callers    *)
(* into numbered batches, runs the batch function once per batch, when the *)
(* batch is full or when its timeout fires, and lets every caller pick its *)
(* own result out of the batch's result slice.                             *)
(*                                                                         *)
(* One goroutine runs one DoAll call; Do is DoAll with one parameter.  A   *)
(* resolver that loads several times in a row is the same as several       *)
(* goroutines, the later ones starting when the earlier ones returned.     *)
(* The critical section under b.mu is one action: params and status are    *)
(* only read or written under that mutex, until the batch is closed.       *)
(***************************************************************************)
EXTENDS Naturals, Sequences, FiniteSets

CONSTANTS
    Goroutine,       \* callers of DoAll
    Param,           \* comparable parameters (TParam)
    NoParam,         \* the parameter of a zero-valued TResult
    Subscriber,      \* functions passed to RegisterResultSubscriber
    MaxBatchSize,    \* Batcher.maxBatchSize
    MaxParams,       \* longest parameter list of one DoAll call
    CacheResults,    \* Batcher.cacheResults
    PublishResults   \* Batcher.publishResults

ASSUME SizeAssumption == MaxBatchSize \in Nat \ {0} /\ MaxParams \in Nat \ {0}
ASSUME FlagAssumption == CacheResults \in BOOLEAN /\ PublishResults \in BOOLEAN
ASSUME ParamAssumption == NoParam \notin Param

VARIABLES
    currentBatchID,  \* Batcher.currentBatchID
    batches,         \* Batcher.batches: batch ID -> batch
    resultCache,     \* Batcher.resultCache: parameter -> result
    subscribers,     \* Batcher.subscribers
    published,       \* <<subscriber, result>> pairs the batcher delivered
    timer,           \* where closeAfterTimeout of each batch is
    pc,              \* where each goroutine is
    args,            \* the params argument of each goroutine's DoAll
    cur,             \* addParamToBatch's local currentID
    slot,            \* addParamToBatch's local paramIndex
    thunks,          \* the thunks DoAll has collected
    answers          \* the (result, error) pairs DoAll has resolved

batcherVars == <<currentBatchID, batches, resultCache, subscribers, published>>
localVars == <<args, cur, slot, thunks, answers>>
vars == <<batcherVars, timer, pc, localVars>>

----------------------------------------------------------------------------
(* A result remembers the parameter it was fetched for and the batch that  *)
(* fetched it: two fetches of one parameter may see different data.  The   *)
(* source of a result primed by another loader is not a batch ID.          *)

Result == [param : Param \cup {NoParam}, primed : BOOLEAN, batch : Nat]
ZeroResult == [param |-> NoParam, primed |-> FALSE, batch |-> 0]
Answer == [result : Result, err : BOOLEAN]

\* A thunk of DoThunk: a cached value, or a batch and an index in it.
Thunk == [hit : BOOLEAN, value : Result, batch : Nat, index : Nat]
HitThunk(r) == [hit |-> TRUE, value |-> r, batch |-> 0, index |-> 0]
BatchThunk(b, i) == [hit |-> FALSE, value |-> ZeroResult, batch |-> b, index |-> i]

Status == {"Open", "Closed"}
Batch == [params : Seq(Param), results : Seq(Result), errors : Seq(BOOLEAN),
          status : Status, done : BOOLEAN, numCallers : Nat]

\* newBatch: nothing added yet, open, done channel not closed.
newBatch == [params |-> <<>>, results |-> <<>>, errors |-> <<>>,
             status |-> "Open", done |-> FALSE, numCallers |-> 0]

SubmitStage == {"submit", "publish", "close"}
TimerStage == {"none", "sleeping", "fired"} \cup SubmitStage
PC == {"start", "lookup", "readID", "assign", "lock", "bump", "advance",
       "wait", "returned"} \cup SubmitStage

\* Mutant: no search at all.
indexOf_NoDedup(s, x) == 0

\* indexOf, with 0 for Go's -1: sequences start at 1.
indexOf(s, x) ==
    IF \E i \in DOMAIN s : s[i] = x
    THEN CHOOSE i \in DOMAIN s : s[i] = x /\ \A j \in 1..(i - 1) : s[j] # x
    ELSE 0

\* sync.Map.LoadOrStore: an entry that is there stays as it is.
LoadOrStore(m, k, v) ==
    IF k \in DOMAIN m THEN m ELSE [x \in DOMAIN m \cup {k} |-> IF x = k THEN v ELSE m[x]]

----------------------------------------------------------------------------
Init ==
    /\ currentBatchID = 0
    /\ batches = [b \in {} |-> newBatch]
    /\ resultCache = [p \in {} |-> ZeroResult]
    /\ subscribers = {}
    /\ published = {}
    /\ timer = [b \in {} |-> "none"]
    /\ pc = [g \in Goroutine |-> "start"]
    /\ args = [g \in Goroutine |-> <<>>]
    /\ cur = [g \in Goroutine |-> 0]
    /\ slot = [g \in Goroutine |-> 0]
    /\ thunks = [g \in Goroutine |-> <<>>]
    /\ answers = [g \in Goroutine |-> <<>>]

\* RegisterResultSubscriber.  NewLoaders registers every subscriber before it
\* returns the loaders, so before any goroutine can call them.
RegisterResultSubscriber(s) ==
    /\ \A g \in Goroutine : pc[g] = "start"
    /\ subscribers' = subscribers \cup {s}
    /\ UNCHANGED <<currentBatchID, batches, resultCache, published, timer, pc, localVars>>

\* Mutant: Store, which replaces the result that is there.
cacheWith_Store(p, r) == [x \in DOMAIN resultCache \cup {p} |-> IF x = p THEN r ELSE resultCache[x]]

\* The cache after a result has been offered to it.
cacheWith(p, r) == LoadOrStore(resultCache, p, r)

\* Prime: another loader's subscriber stores a result it has seen.
Prime(p) ==
    /\ CacheResults
    /\ resultCache' = cacheWith(p, [param |-> p, primed |-> TRUE, batch |-> 0])
    /\ UNCHANGED <<currentBatchID, batches, subscribers, published, timer, pc, localVars>>

\* DoAll begins: a list of parameters, no thunk yet.
DoAll(g) ==
    /\ pc[g] = "start"
    /\ \E n \in 1..MaxParams : \E ps \in [1..n -> Param] : args' = [args EXCEPT ![g] = ps]
    /\ pc' = [pc EXCEPT ![g] = "lookup"]
    /\ UNCHANGED <<batcherVars, timer, cur, slot, thunks, answers>>

\* The parameter DoAll is asking for: the one after those that have thunks.
param(g) == args[g][Len(thunks[g]) + 1]

\* DoThunk returned thunk t: DoAll asks for its next parameter, or starts to
\* call the thunks.
Return(g, t) ==
    /\ thunks' = [thunks EXCEPT ![g] = Append(@, t)]
    /\ pc' = [pc EXCEPT ![g] = IF Len(thunks[g]) + 1 = Len(args[g]) THEN "wait" ELSE "lookup"]

\* DoThunk: a cached result makes a thunk at once.
DoThunk(g) ==
    /\ pc[g] = "lookup"
    /\ IF CacheResults /\ param(g) \in DOMAIN resultCache
       THEN Return(g, HitThunk(resultCache[param(g)]))
       ELSE pc' = [pc EXCEPT ![g] = "readID"] /\ UNCHANGED thunks
    /\ UNCHANGED <<batcherVars, timer, args, cur, slot, answers>>

\* addParamToBatch reads the current batch ID.
ReadBatchID(g) ==
    /\ pc[g] = "readID"
    /\ cur' = [cur EXCEPT ![g] = currentBatchID]
    /\ pc' = [pc EXCEPT ![g] = "assign"]
    /\ UNCHANGED <<batcherVars, timer, args, slot, thunks, answers>>

\* The batch with that ID, created if nobody has: Load is LoadOrStore's fast
\* path.  A batch is only visible through numCallers, params and status, so the
\* increment of numCallers that follows is part of this step.
AssignBatch(g) ==
    /\ pc[g] = "assign"
    /\ LET b == cur[g]
           stored == LoadOrStore(batches, b, newBatch)
           numAssigned == stored[b].numCallers + 1
       IN  /\ batches' = [stored EXCEPT ![b].numCallers = numAssigned]
           /\ timer' = LoadOrStore(timer, b, "none")
           /\ pc' = [pc EXCEPT ![g] = IF numAssigned > MaxBatchSize THEN "bump" ELSE "lock"]
    /\ UNCHANGED <<currentBatchID, resultCache, subscribers, published, localVars>>

\* CompareAndSwapInt32(&currentBatchID, currentID, currentID+1).
CompareAndSwap(old) ==
    currentBatchID' = IF currentBatchID = old THEN old + 1 ELSE currentBatchID

\* The batch was over-subscribed or closed: move past it and try again.
BumpBatchID(g) ==
    /\ pc[g] = "bump"
    /\ CompareAndSwap(cur[g])
    /\ pc' = [pc EXCEPT ![g] = "readID"]
    /\ UNCHANGED <<batches, resultCache, subscribers, published, timer, localVars>>

\* Mutant: the status is not looked at.
isOpen_Ignored(b) == TRUE

\* addParamToBatch looks at the batch's status once it holds b.mu.
isOpen(b) == batches[b].status = "Open"

\* Mutant: the timeout is only started by a second parameter.
startTimeout_Second(b, n) == IF n = 2 THEN [timer EXCEPT ![b] = "sleeping"] ELSE timer

\* The first parameter of a batch starts its timeout goroutine.
startTimeout(b, n) == IF n = 1 THEN [timer EXCEPT ![b] = "sleeping"] ELSE timer

\* Under b.mu, the batch is closed: a later batch must take the parameter.
FindClosed(g) ==
    /\ pc[g] = "lock"
    /\ ~isOpen(cur[g])
    /\ pc' = [pc EXCEPT ![g] = "bump"]
    /\ UNCHANGED <<batcherVars, timer, localVars>>

\* Under b.mu, the parameter is in the batch: share its index.
FindParam(g) ==
    LET b == cur[g]
        i == indexOf(batches[b].params, param(g))
    IN  /\ pc[g] = "lock"
        /\ isOpen(b)
        /\ i # 0
        /\ Return(g, BatchThunk(b, i))
        /\ UNCHANGED <<batcherVars, timer, args, cur, slot, answers>>

\* Under b.mu, append the parameter; the first one starts the timeout, the one
\* that fills the batch closes it and leaves its goroutine to submit it.
AppendParam(g) ==
    LET b == cur[g]
        ps == Append(batches[b].params, param(g))
        full == Len(ps) = MaxBatchSize
    IN  /\ pc[g] = "lock"
        /\ isOpen(b)
        /\ indexOf(batches[b].params, param(g)) = 0
        /\ batches' = [batches EXCEPT ![b].params = ps,
                                      ![b].status = IF full THEN "Closed" ELSE "Open"]
        /\ timer' = startTimeout(b, Len(ps))
        /\ slot' = [slot EXCEPT ![g] = Len(ps)]
        /\ IF full
           THEN pc' = [pc EXCEPT ![g] = "submit"] /\ UNCHANGED thunks
           ELSE Return(g, BatchThunk(b, Len(ps)))
        /\ UNCHANGED <<currentBatchID, resultCache, subscribers, published, args, cur, answers>>

\* Mutant: the timeout submits without looking at the status.
CloseAfterTimeout_Always(b) ==
    /\ timer[b] = "sleeping"
    /\ batches' = [batches EXCEPT ![b].status = "Closed"]
    /\ timer' = [timer EXCEPT ![b] = "submit"]
    /\ UNCHANGED <<currentBatchID, resultCache, subscribers, published, pc, localVars>>

\* closeAfterTimeout, after its sleep and under b.mu: close an open batch.
CloseAfterTimeout(b) ==
    /\ timer[b] = "sleeping"
    /\ IF batches[b].status = "Open"
       THEN /\ batches' = [batches EXCEPT ![b].status = "Closed"]
            /\ timer' = [timer EXCEPT ![b] = "submit"]
       ELSE /\ timer' = [timer EXCEPT ![b] = "fired"]
            /\ UNCHANGED batches
    /\ UNCHANGED <<currentBatchID, resultCache, subscribers, published, pc, localVars>>

----------------------------------------------------------------------------
(* submitBatch, run by the goroutine that filled the batch or by the       *)
(* batch's timeout.  The batch function is a parameter of the batcher:     *)
(* every loader of the repository returns one result and one error per     *)
(* parameter; DoThunk also accepts a single error for the whole batch,     *)
(* which a publishing batcher could not index.                             *)

\* Mutant: the done channel is closed before the results are published.
BatchFunc_DoneFirst(b) ==
    LET ps == batches[b].params
        fetched == [i \in 1..Len(ps) |-> [param |-> ps[i], primed |-> FALSE, batch |-> b]]
    IN  \E errs \in [1..Len(ps) -> BOOLEAN] :
            batches' = [batches EXCEPT ![b].results = fetched, ![b].errors = errs, ![b].done = TRUE]

\* External: the batch function runs and returns.
BatchFunc(b) ==
    LET ps == batches[b].params
        fetched == [i \in 1..Len(ps) |-> [param |-> ps[i], primed |-> FALSE, batch |-> b]]
    IN  \/ \E errs \in [1..Len(ps) -> BOOLEAN] :
              batches' = [batches EXCEPT ![b].results = fetched, ![b].errors = errs]
        \/ /\ ~PublishResults
           /\ batches' = [batches EXCEPT ![b].results = <<>>, ![b].errors = <<TRUE>>]

\* publishToSubscribers: every result without an error, to every subscriber.
publishToSubscribers(b) ==
    published' = IF PublishResults
                 THEN published \cup
                        {<<s, batches[b].results[i]>> : s \in subscribers,
                            i \in {j \in 1..Len(batches[b].results) : ~batches[b].errors[j]}}
                 ELSE published

CloseDone(b) == batches' = [batches EXCEPT ![b].done = TRUE]

\* submitBatch by the goroutine that filled the batch; then it advances the ID
\* and returns the thunk of the parameter it appended.
CallerBatchFunc(g) ==
    /\ pc[g] = "submit"
    /\ BatchFunc(cur[g])
    /\ pc' = [pc EXCEPT ![g] = "publish"]
    /\ UNCHANGED <<currentBatchID, resultCache, subscribers, published, timer, localVars>>

CallerPublish(g) ==
    /\ pc[g] = "publish"
    /\ publishToSubscribers(cur[g])
    /\ pc' = [pc EXCEPT ![g] = "close"]
    /\ UNCHANGED <<currentBatchID, batches, resultCache, subscribers, timer, localVars>>

CallerCloseDone(g) ==
    /\ pc[g] = "close"
    /\ CloseDone(cur[g])
    /\ pc' = [pc EXCEPT ![g] = "advance"]
    /\ UNCHANGED <<currentBatchID, resultCache, subscribers, published, timer, localVars>>

CallerAdvance(g) ==
    /\ pc[g] = "advance"
    /\ CompareAndSwap(cur[g])
    /\ Return(g, BatchThunk(cur[g], slot[g]))
    /\ UNCHANGED <<batches, resultCache, subscribers, published, timer, args, cur, slot, answers>>

\* submitBatch by closeAfterTimeout.
TimerBatchFunc(b) ==
    /\ timer[b] = "submit"
    /\ BatchFunc(b)
    /\ timer' = [timer EXCEPT ![b] = "publish"]
    /\ UNCHANGED <<currentBatchID, resultCache, subscribers, published, pc, localVars>>

TimerPublish(b) ==
    /\ timer[b] = "publish"
    /\ publishToSubscribers(b)
    /\ timer' = [timer EXCEPT ![b] = "close"]
    /\ UNCHANGED <<currentBatchID, batches, resultCache, subscribers, pc, localVars>>

TimerCloseDone(b) ==
    /\ timer[b] = "close"
    /\ CloseDone(b)
    /\ timer' = [timer EXCEPT ![b] = "fired"]
    /\ UNCHANGED <<currentBatchID, resultCache, subscribers, published, pc, localVars>>

----------------------------------------------------------------------------
\* Mutant: an index that is one too high.
resultAt_Next(b, i) == IF i + 1 <= Len(b.results) THEN b.results[i + 1] ELSE ZeroResult

\* The thunk body: the result at the index, if there is one, and the error at
\* the index, or the only error of the batch.
resultAt(b, i) == IF i <= Len(b.results) THEN b.results[i] ELSE ZeroResult
errorAt(b, i) == IF Len(b.errors) = 1 THEN b.errors[1] ELSE b.errors[i]

\* DoAll records what its k-th thunk returned, and returns after the last one.
Resolve(g, k, answer) ==
    /\ answers' = [answers EXCEPT ![g] = Append(@, answer)]
    /\ pc' = [pc EXCEPT ![g] = IF k = Len(args[g]) THEN "returned" ELSE "wait"]

\* DoAll calls its next thunk, one that holds a cached value.
CallHitThunk(g) ==
    LET k == Len(answers[g]) + 1
        t == thunks[g][k]
    IN  /\ pc[g] = "wait"
        /\ t.hit
        /\ Resolve(g, k, [result |-> t.value, err |-> FALSE])
        /\ UNCHANGED <<batcherVars, timer, args, cur, slot, thunks>>

\* DoAll calls its next thunk, which waits for the done channel of its batch.  A
\* result without an error goes to the cache, unless a result is already there.
CallBatchThunk(g) ==
    LET k == Len(answers[g]) + 1
        t == thunks[g][k]
        b == batches[t.batch]
        err == errorAt(b, t.index)
        result == resultAt(b, t.index)
    IN  /\ pc[g] = "wait"
        /\ ~t.hit
        /\ b.done
        /\ resultCache' = IF ~err /\ CacheResults
                          THEN cacheWith(args[g][k], result) ELSE resultCache
        /\ Resolve(g, k, [result |-> result, err |-> err])
        /\ UNCHANGED <<currentBatchID, batches, subscribers, published, timer, args, cur, slot, thunks>>

----------------------------------------------------------------------------
Caller(g) ==
    \/ DoThunk(g) \/ ReadBatchID(g) \/ AssignBatch(g) \/ BumpBatchID(g)
    \/ FindClosed(g) \/ FindParam(g) \/ AppendParam(g)
    \/ CallerBatchFunc(g) \/ CallerPublish(g) \/ CallerCloseDone(g) \/ CallerAdvance(g)
    \/ CallHitThunk(g) \/ CallBatchThunk(g)

Timer(b) ==
    CloseAfterTimeout(b) \/ TimerBatchFunc(b) \/ TimerPublish(b) \/ TimerCloseDone(b)

Next ==
    \/ \E s \in Subscriber : RegisterResultSubscriber(s)
    \/ \E p \in Param : Prime(p)
    \/ \E g \in Goroutine : DoAll(g) \/ Caller(g)
    \/ \E b \in DOMAIN timer : Timer(b)

Spec == Init /\ [][Next]_vars

\* A goroutine that can run is scheduled, and a sleeping timeout goroutine
\* wakes up; nobody has to call DoAll, Prime or RegisterResultSubscriber.
Fairness ==
    /\ \A g \in Goroutine : WF_vars(Caller(g))
    /\ WF_vars(\E b \in DOMAIN timer : Timer(b))

FairSpec == Spec /\ Fairness

----------------------------------------------------------------------------
(* Properties                                                              *)

TypeOK ==
    /\ currentBatchID \in Nat
    /\ DOMAIN batches \subseteq Nat /\ batches \in [DOMAIN batches -> Batch]
    /\ DOMAIN resultCache \subseteq Param /\ resultCache \in [DOMAIN resultCache -> Result]
    /\ subscribers \subseteq Subscriber
    /\ published \subseteq Subscriber \X Result
    /\ timer \in [DOMAIN batches -> TimerStage]
    /\ pc \in [Goroutine -> PC]
    /\ args \in [Goroutine -> Seq(Param)]
    /\ cur \in [Goroutine -> Nat]
    /\ slot \in [Goroutine -> Nat]
    /\ thunks \in [Goroutine -> Seq(Thunk)]
    /\ answers \in [Goroutine -> Seq(Answer)]

\* Goroutine g, or the timeout of batch b, is between closing b and closing
\* b's done channel.
CallerSubmits(g, b) == pc[g] \in SubmitStage /\ cur[g] = b
TimerSubmits(b) == timer[b] \in SubmitStage

\* A batch is submitted at most once although the caller that fills it and its
\* timeout both may: no two submitters are at work on one batch, a submitter's
\* batch is closed, and its done channel, which panics when it is closed a
\* second time, is still open.
SubmitOnce ==
    /\ \A g, h \in Goroutine :
          pc[g] \in SubmitStage /\ pc[h] \in SubmitStage /\ cur[g] = cur[h] => g = h
    /\ \A g \in Goroutine : pc[g] \in SubmitStage => ~TimerSubmits(cur[g])
    /\ \A b \in DOMAIN batches :
          (TimerSubmits(b) \/ \E g \in Goroutine : CallerSubmits(g, b))
             => batches[b].status = "Closed" /\ ~batches[b].done

\* Somebody will close the done channel of batch b: its timeout, which sleeps and
\* will find it open, or whoever is submitting it.
Served(b) ==
    \/ batches[b].status = "Open" /\ timer[b] = "sleeping"
    \/ TimerSubmits(b)
    \/ \E g \in Goroutine : CallerSubmits(g, b)

\* No batch is left to nobody once it has a parameter, until it is done: some step
\* always brings it nearer to that.
NeverStranded ==
    \A b \in DOMAIN batches : batches[b].params # <<>> /\ ~batches[b].done => Served(b)

\* The batch caller g waits for; it holds g's own parameter, so it is not empty.
AwaitedBatch(g) == thunks[g][Len(answers[g]) + 1].batch
AwaitedIsFilled ==
    \A g \in Goroutine : pc[g] = "wait" /\ ~thunks[g][Len(answers[g]) + 1].hit =>
        AwaitedBatch(g) \in DOMAIN batches /\ batches[AwaitedBatch(g)].params # <<>>

\* Every batch that anybody waits for is submitted once: not twice, and not never.
SubmittedExactlyOnce == SubmitOnce /\ NeverStranded /\ AwaitedIsFilled

\* The batch function never sees more than maxBatchSize parameters, nor one
\* parameter twice, whatever the callers' interleaving.
BatchBounded ==
    \A b \in DOMAIN batches :
        /\ Len(batches[b].params) <= MaxBatchSize
        /\ \A i, j \in DOMAIN batches[b].params :
              batches[b].params[i] = batches[b].params[j] => i = j

\* Every caller gets the result that was fetched for its own parameter: the
\* index addParamToBatch returned still names that parameter when the thunk
\* reads the result slice, in the same batch or through the cache.
AnswerForOwnParam ==
    \A g \in Goroutine : \A k \in DOMAIN answers[g] :
        ~answers[g][k].err => answers[g][k].result.param = args[g][k]

\* When callers are let go, every result of the batch that has no error has
\* been published to every subscriber: a resolver that goes on with what it got
\* finds the loaders that subscribed already primed.
PublishedBeforeDone ==
    PublishResults =>
        \A b \in DOMAIN batches : batches[b].done =>
            \A s \in subscribers : \A i \in DOMAIN batches[b].results :
                ~batches[b].errors[i] => <<s, batches[b].results[i]>> \in published

\* submitBatch reads b.params, and the thunks read b.results and b.errors,
\* without the mutex: a closed batch keeps its parameters, a batch whose done
\* channel is closed keeps its results and errors, and nothing reopens it.
ClosedIsFrozen ==
    [][\A b \in DOMAIN batches :
          /\ batches[b].status = "Closed" =>
                /\ batches'[b].status = "Closed"
                /\ batches'[b].params = batches[b].params
          /\ batches[b].done =>
                /\ batches'[b].done
                /\ batches'[b].results = batches[b].results
                /\ batches'[b].errors = batches[b].errors]_vars

\* Within one batcher a cached parameter keeps its first result: neither a later
\* fetch nor a Prime replaces what another resolver may have been given.
CacheIsStable ==
    [][\A p \in DOMAIN resultCache :
          p \in DOMAIN resultCache' /\ resultCache'[p] = resultCache[p]]_vars

\* Every DoAll call returns: no batch is left behind unsubmitted, even one that
\* was passed over by the batch ID before it was full.
EveryCallReturns ==
    \A g \in Goroutine : pc[g] = "lookup" ~> pc[g] = "returned"
============================================================================
