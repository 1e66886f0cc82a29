--------------------------- MODULE ReturnsProofs ---------------------------
(***************************************************************************)
(* Nobody waits for somebody who will not come, for any number of senders, *)
(* hosts, sources and notifications: senders and the worker of a Retryer,  *)
(* the loop of RetryRequestWithRetry, the race for headers (HeaderRace),   *)
(* and the goroutines of a digest (DigestMail).                            *)
(***************************************************************************)
EXTENDS MCReturns, FiniteSetTheorems, SequenceTheorems, TLAPS

----------------------------------------------------------------------------
(* Retryer: the queue and its worker                                       *)

\* The queue's variables have their types.
QueueType ==
    /\ sendq \in Seq(Sender)
    /\ worker \in [at : {"select", "ask", "sleep", "stopped"}, for : Sender \cup {Nobody}]
    /\ sender \in [Sender -> [stage : Retry!Stage, retryCount : 0..MaxRetries, result : Retry!Result]]
    /\ tokens \in [Host -> 0..Capacity]
    /\ closer \in {"open", "closing", "closed"}
    /\ granted \in [Sender -> Nat] /\ sent \in [Sender -> Nat]

\* Nobody is in the queue twice.
QueueOnce == \A m, n \in 1..Len(sendq) : sendq[m] = sendq[n] => m = n

\* Until it returns a request was sent once for each retry, and who sends it took
\* a token at some time.
SentOK(s) ==
    /\ sender[s].stage # "returned" => sent[s] = sender[s].retryCount
    /\ sent[s] <= sender[s].retryCount + 1
    /\ sender[s].stage = "do" \/ sent[s] > 0 => granted[s] > 0

\* What every step of senders, worker, limiter and closer keeps.
QueueInv == QueueType /\ QueueOnce /\ Retry!OneServed /\ \A s \in Sender : SentOK(s)

\* It holds when nobody has called yet.
LEMMA QueueInit == Retry!RetryAssumption /\ Retry!Init => QueueInv
<1> SUFFICES ASSUME Retry!RetryAssumption, Retry!Init PROVE QueueInv
  OBVIOUS
<1>1. QueueType
  BY DEF QueueType, Retry!Init, Retry!RetryAssumption, Retry!Stage, Retry!Result
<1>2. QueueOnce /\ Retry!OneServed
  BY DEF QueueOnce, Retry!OneServed, Retry!Init
<1>3. \A s \in Sender : SentOK(s)
  BY DEF SentOK, Retry!Init
<1> QED
  BY <1>1, <1>2, <1>3 DEF QueueInv

\* A sender returns: it has a new stage and a result, and the others stay as they are.
LEMMA ReturnFacts ==
    ASSUME QueueType, NEW s \in Sender, NEW r \in Retry!Result,
           sender' = [sender EXCEPT ![s].stage = "returned", ![s].result = r]
    PROVE  /\ sender' \in [Sender -> [stage : Retry!Stage, retryCount : 0..MaxRetries, result : Retry!Result]]
           /\ sender'[s].stage = "returned" /\ sender'[s].retryCount = sender[s].retryCount
           /\ \A t \in Sender \ {s} : sender'[t] = sender[t]
<1> DEFINE Count == 0..MaxRetries
<1>1. sender \in [Sender -> [stage : Retry!Stage, retryCount : Count, result : Retry!Result]]
  BY DEF QueueType
<1>2. "returned" \in Retry!Stage
  BY DEF Retry!Stage
<1> HIDE DEF Count
<1>3. /\ sender' \in [Sender -> [stage : Retry!Stage, retryCount : Count, result : Retry!Result]]
      /\ sender'[s].stage = "returned" /\ sender'[s].retryCount = sender[s].retryCount
      /\ \A t \in Sender \ {s} : sender'[t] = sender[t]
  BY <1>1, <1>2
<1> QED
  BY <1>3 DEF Count

\* A sender joins the end of the queue, or panics if it is closed.
LEMMA SendKeepsQueue ==
    ASSUME QueueInv, NEW s \in Sender, Retry!Send(s) PROVE QueueInv'
<1>1. sender[s].stage \in {"new", "backoff"}
  BY DEF Retry!Send
<1>2. CASE worker.at = "stopped"
  <2>1. sender' = [sender EXCEPT ![s].stage = "panic"] /\ sendq' = sendq
    BY <1>2 DEF Retry!Send, Retry!Goto
  <2>2. worker' = worker /\ tokens' = tokens /\ closer' = closer /\ granted' = granted /\ sent' = sent
    BY DEF Retry!Send
  <2>3. QueueType'
    BY <2>1, <2>2 DEF QueueInv, QueueType, Retry!Stage
  <2>4. QueueOnce'
    BY <2>1 DEF QueueInv, QueueOnce
  <2>5. Retry!OneServed'
    BY <1>1, <2>1, <2>2 DEF QueueInv, QueueType, Retry!OneServed
  <2>6. \A t \in Sender : SentOK(t)'
    BY <1>1, <2>1, <2>2 DEF QueueInv, QueueType, SentOK
  <2> QED
    BY <2>3, <2>4, <2>5, <2>6 DEF QueueInv
<1>3. CASE worker.at # "stopped"
  <2>1. sender' = [sender EXCEPT ![s].stage = "queued"] /\ sendq' = Append(sendq, s)
    BY <1>3 DEF Retry!Send, Retry!Goto
  <2>2. worker' = worker /\ tokens' = tokens /\ closer' = closer /\ granted' = granted /\ sent' = sent
    BY DEF Retry!Send
  <2>4. /\ sendq \in Seq(Sender) /\ Len(sendq) \in Nat /\ Len(sendq') = Len(sendq) + 1
        /\ sendq'[Len(sendq) + 1] = s /\ \A n \in 1..Len(sendq) : sendq'[n] = sendq[n]
    <3>1. sendq \in Seq(Sender)
      BY DEF QueueInv, QueueType
    <3> QED
      BY <2>1, <3>1, AppendProperties, LenProperties
  <2>3. QueueType'
    <3>1. sendq' \in Seq(Sender)
      BY <2>1, <2>4, AppendProperties
    <3>2. sender' \in [Sender -> [stage : Retry!Stage, retryCount : 0..MaxRetries, result : Retry!Result]]
      BY <2>1 DEF QueueInv, QueueType, Retry!Stage
    <3> QED
      BY <2>2, <3>1, <3>2 DEF QueueInv, QueueType
  <2>5. \A n \in 1..Len(sendq) : sendq[n] # s
    BY <1>1 DEF QueueInv, Retry!OneServed
  <2>6. QueueOnce'
    BY <2>4, <2>5 DEF QueueInv, QueueOnce
  <2>7. Retry!OneServed'
    <3>1. {t \in Sender : sender'[t].stage = "waiting"} = {t \in Sender : sender[t].stage = "waiting"}
      BY <1>1, <2>1 DEF QueueInv, QueueType
    <3>2. ASSUME NEW t \in Sender
          PROVE  (sender'[t].stage = "queued") <=> (\E n \in 1..Len(sendq') : sendq'[n] = t)
      <4>1. CASE t = s
        <5>1. sender'[t].stage = "queued"
          BY <2>1, <4>1 DEF QueueInv, QueueType
        <5>2. Len(sendq) + 1 \in 1..Len(sendq')
          BY <2>4
        <5> QED
          BY <2>4, <4>1, <5>1, <5>2
      <4>2. CASE t # s
        <5>1. (sender[t].stage = "queued") <=> (\E n \in 1..Len(sendq) : sendq[n] = t)
          BY DEF QueueInv, Retry!OneServed
        <5>2. sender'[t].stage = sender[t].stage
          BY <2>1, <4>2 DEF QueueInv, QueueType
        <5>3. (\E n \in 1..Len(sendq') : sendq'[n] = t) <=> (\E n \in 1..Len(sendq) : sendq[n] = t)
          <6> DEFINE N == Len(sendq)
          <6>1. \A n \in 1..(N + 1) : n \in 1..N \/ n = N + 1
            BY <2>4
          <6>2. N + 1 \in 1..(N + 1) /\ \A n \in 1..N : n \in 1..(N + 1)
            BY <2>4
          <6> HIDE DEF N
          <6> QED
            BY <2>4, <4>2, <6>1, <6>2 DEF N
        <5> QED
          BY <5>1, <5>2, <5>3
      <4> QED
        BY <4>1, <4>2
    <3> QED
      BY <2>2, <3>1, <3>2 DEF QueueInv, Retry!OneServed
  <2>8. \A t \in Sender : SentOK(t)'
    BY <1>1, <2>1, <2>2 DEF QueueInv, QueueType, SentOK
  <2> QED
    BY <2>3, <2>6, <2>7, <2>8 DEF QueueInv
<1> QED
  BY <1>2, <1>3

\* An answered or limited request: the sender leaves "do".
LEMMA DoKeepsQueue ==
    ASSUME Retry!RetryAssumption, QueueInv, NEW s \in Sender, Retry!DoAnswered(s) \/ Retry!DoLimited(s)
    PROVE  QueueInv'
<1>1. /\ sender[s].stage = "do" /\ sent' = [sent EXCEPT ![s] = @ + 1]
      /\ sendq' = sendq /\ worker' = worker /\ tokens' = tokens /\ closer' = closer /\ granted' = granted
  BY DEF Retry!DoAnswered, Retry!DoLimited
<1>2. \/ /\ \E result \in {"response", "error", "outOfRetries"} :
                sender' = [sender EXCEPT ![s].stage = "returned", ![s].result = result]
      \/ /\ sender[s].retryCount < MaxRetries
         /\ sender' = [sender EXCEPT ![s].stage = "backoff", ![s].retryCount = @ + 1]
  BY DEF Retry!DoAnswered, Retry!DoLimited, Retry!Return, Retry!mayRetry
<1>3. MaxRetries \in Nat
  BY DEF Retry!RetryAssumption
<1>4. QueueType'
  <2>1. sender' \in [Sender -> [stage : Retry!Stage, retryCount : 0..MaxRetries, result : Retry!Result]]
    <3>1. CASE sender[s].retryCount < MaxRetries
               /\ sender' = [sender EXCEPT ![s].stage = "backoff", ![s].retryCount = @ + 1]
      <4>1. sender[s].retryCount + 1 \in 0..MaxRetries
        BY <1>3, <3>1 DEF QueueInv, QueueType
      <4> QED
        BY <3>1, <4>1 DEF QueueInv, QueueType, Retry!Stage
    <3>2. CASE \E result \in {"response", "error", "outOfRetries"} :
                  sender' = [sender EXCEPT ![s].stage = "returned", ![s].result = result]
      BY <3>2, ReturnFacts DEF QueueInv, Retry!Result
    <3> QED
      BY <1>2, <3>1, <3>2
  <2>2. sent' \in [Sender -> Nat]
    BY <1>1 DEF QueueInv, QueueType
  <2> QED
    BY <1>1, <2>1, <2>2 DEF QueueInv, QueueType
<1>5. QueueOnce'
  BY <1>1 DEF QueueInv, QueueOnce
<1>6. \A t \in Sender : /\ sender'[t].stage = "waiting" <=> sender[t].stage = "waiting"
                        /\ sender'[t].stage = "queued" <=> sender[t].stage = "queued"
  <2> SUFFICES ASSUME NEW t \in Sender
               PROVE  /\ sender'[t].stage = "waiting" <=> sender[t].stage = "waiting"
                      /\ sender'[t].stage = "queued" <=> sender[t].stage = "queued"
    OBVIOUS
  <2>1. CASE t # s
    <3>1. sender'[t] = sender[t]
      BY <1>2, <2>1 DEF QueueInv, QueueType
    <3> QED
      BY <3>1
  <2>2. CASE t = s
    <3>1. sender'[s].stage \in {"returned", "backoff"}
      BY <1>2 DEF QueueInv, QueueType
    <3> QED
      BY <1>1, <2>2, <3>1
  <2> QED
    BY <2>1, <2>2
<1>7. Retry!OneServed'
  BY <1>1, <1>6 DEF QueueInv, Retry!OneServed
<1>8. \A t \in Sender : SentOK(t)'
  <2> SUFFICES ASSUME NEW t \in Sender PROVE SentOK(t)'
    OBVIOUS
  <2>1. CASE t = s
    <3>1. sent[s] = sender[s].retryCount /\ granted[s] > 0 /\ sender[s].retryCount \in Nat
      BY <1>1, <1>3 DEF QueueInv, QueueType, SentOK
    <3>2. sent'[s] = sent[s] + 1
      BY <1>1 DEF QueueInv, QueueType
    <3>3. \/ sender'[s].stage = "returned" /\ sender'[s].retryCount = sender[s].retryCount
          \/ sender'[s].stage = "backoff" /\ sender'[s].retryCount = sender[s].retryCount + 1
      BY <1>2 DEF QueueInv, QueueType
    <3> QED
      BY <1>1, <2>1, <3>1, <3>2, <3>3 DEF SentOK
  <2>2. CASE t # s
    <3>1. sender'[t] = sender[t] /\ sent'[t] = sent[t] /\ granted'[t] = granted[t]
      BY <1>1, <1>2, <2>2 DEF QueueInv, QueueType
    <3> QED
      BY <3>1 DEF QueueInv, SentOK
  <2> QED
    BY <2>1, <2>2
<1> QED
  BY <1>4, <1>5, <1>7, <1>8 DEF QueueInv

\* The worker takes the first of the queue, who then waits for it and for nobody else.
LEMMA ReceiveKeepsQueue ==
    ASSUME Retry!RetryAssumption, QueueInv, Retry!Receive PROVE QueueInv'
<1> DEFINE s == Head(sendq)
           N == Len(sendq)
<1>1. /\ worker.at = "select" /\ sendq # <<>> /\ worker' = [at |-> "ask", for |-> s]
      /\ sendq' = Tail(sendq) /\ sender' = [sender EXCEPT ![s].stage = "waiting"]
      /\ tokens' = tokens /\ closer' = closer /\ granted' = granted /\ sent' = sent
  BY DEF Retry!Receive, Retry!Goto
<1>2. /\ sendq \in Seq(Sender) /\ N \in Nat /\ N > 0 /\ s = sendq[1] /\ s \in Sender
      /\ sendq' \in Seq(Sender) /\ Len(sendq') = N - 1 /\ \A n \in 1..(N - 1) : sendq'[n] = sendq[n + 1]
  <2>1. sendq \in Seq(Sender) /\ sendq # <<>>
    BY <1>1 DEF QueueInv, QueueType
  <2> QED
    BY <1>1, <2>1, HeadTailProperties, LenProperties, EmptySeq
<1>3. s # Nobody
  BY <1>2 DEF Retry!RetryAssumption
<1> HIDE DEF s, N
<1>4. sender[s].stage = "queued"
  <2>1. 1 \in 1..N /\ sendq[1] = s
    BY <1>2
  <2> QED
    BY <1>2, <2>1 DEF QueueInv, Retry!OneServed, N
<1>5. \A t \in Sender : sender[t].stage # "waiting"
  BY <1>1 DEF QueueInv, Retry!OneServed
<1>6. \A n \in 1..(N - 1) : n + 1 \in 1..N /\ sendq'[n] = sendq[n + 1] /\ sendq[n + 1] # s
  <2> SUFFICES ASSUME NEW n \in 1..(N - 1) PROVE n + 1 \in 1..N /\ sendq'[n] = sendq[n + 1] /\ sendq[n + 1] # s
    OBVIOUS
  <2>1. n + 1 \in 1..N /\ n + 1 # 1 /\ 1 \in 1..N
    BY <1>2
  <2>2. sendq[n + 1] # sendq[1]
    BY <2>1 DEF QueueInv, QueueOnce, N
  <2> QED
    BY <1>2, <2>1, <2>2
<1>7. QueueType'
  <2>1. sender' \in [Sender -> [stage : Retry!Stage, retryCount : 0..MaxRetries, result : Retry!Result]]
    <3>1. sender \in [Sender -> [stage : Retry!Stage, retryCount : 0..MaxRetries, result : Retry!Result]]
      BY DEF QueueInv, QueueType
    <3>2. "waiting" \in Retry!Stage
      BY DEF Retry!Stage
    <3> QED
      BY <1>1, <1>2, <3>1, <3>2
  <2>2. worker' \in [at : {"select", "ask", "sleep", "stopped"}, for : Sender \cup {Nobody}]
    BY <1>1, <1>2
  <2> QED
    BY <1>1, <1>2, <2>1, <2>2 DEF QueueInv, QueueType
<1>8. QueueOnce'
  <2> SUFFICES ASSUME NEW m \in 1..(N - 1), NEW n \in 1..(N - 1), sendq'[m] = sendq'[n] PROVE m = n
    BY <1>2 DEF QueueOnce
  <2>1. sendq[m + 1] = sendq[n + 1] /\ m + 1 \in 1..N /\ n + 1 \in 1..N
    BY <1>6
  <2>2. m + 1 = n + 1
    BY <2>1 DEF QueueInv, QueueOnce, N
  <2> QED
    BY <1>2, <2>2
<1>9. Retry!OneServed'
  <2>1. \A t \in Sender : sender'[t].stage = IF t = s THEN "waiting" ELSE sender[t].stage
    BY <1>1, <1>2 DEF QueueInv, QueueType
  <2>2. {t \in Sender : sender'[t].stage = "waiting"} = {worker'.for} \ {Nobody}
    BY <1>1, <1>2, <1>3, <1>5, <2>1
  <2>3. ASSUME NEW t \in Sender
        PROVE  (sender'[t].stage = "queued") <=> (\E n \in 1..Len(sendq') : sendq'[n] = t)
    <3>1. CASE t = s
      <4>1. \A n \in 1..(N - 1) : sendq'[n] # t
        BY <1>6, <3>1
      <4> QED
        BY <1>2, <2>1, <3>1, <4>1
    <3>2. CASE t # s
      <4>1. sender'[t].stage = "queued" <=> \E n \in 1..N : sendq[n] = t
        BY <2>1, <3>2 DEF QueueInv, Retry!OneServed, N
      <4>2. ASSUME NEW n \in 1..N, sendq[n] = t PROVE \E k \in 1..(N - 1) : sendq'[k] = t
        <5>1. n # 1
          BY <1>2, <3>2, <4>2
        <5>2. n - 1 \in 1..(N - 1) /\ (n - 1) + 1 = n
          BY <1>2, <5>1
        <5>3. sendq'[n - 1] = sendq[(n - 1) + 1]
          BY <1>6, <5>2
        <5> QED
          BY <4>2, <5>2, <5>3
      <4>3. ASSUME NEW n \in 1..(N - 1), sendq'[n] = t PROVE \E k \in 1..N : sendq[k] = t
        BY <1>6, <4>3
      <4> QED
        BY <1>2, <4>1, <4>2, <4>3
    <3> QED
      BY <3>1, <3>2
  <2> QED
    BY <1>1, <1>3, <2>2, <2>3 DEF Retry!OneServed
<1>10. \A t \in Sender : SentOK(t)'
  <2>1. \A t \in Sender : /\ sender'[t].retryCount = sender[t].retryCount
                          /\ t # s => sender'[t].stage = sender[t].stage
    BY <1>1, <1>2 DEF QueueInv, QueueType
  <2>2. sender'[s].stage = "waiting"
    BY <1>1, <1>2 DEF QueueInv, QueueType
  <2> QED
    BY <1>1, <1>4, <2>1, <2>2 DEF QueueInv, SentOK
<1> QED
  BY <1>7, <1>8, <1>9, <1>10 DEF QueueInv

\* The worker answers sender s and turns to the next: whatever stage s goes to, it
\* does not wait any more.
LEMMA AnswerKeepsQueue ==
    ASSUME Retry!RetryAssumption, QueueInv, NEW s \in Sender, worker.at = "ask", worker.for = s,
           worker' = [at |-> "select", for |-> Nobody], sendq' = sendq, closer' = closer, sent' = sent,
           sender' \in [Sender -> [stage : Retry!Stage, retryCount : 0..MaxRetries, result : Retry!Result]],
           \A t \in Sender \ {s} : sender'[t] = sender[t] /\ granted'[t] = granted[t],
           tokens' \in [Host -> 0..Capacity], granted' \in [Sender -> Nat], granted'[s] >= granted[s],
           sender'[s].stage \in {"do", "returned"}, sender'[s].retryCount = sender[s].retryCount,
           sender'[s].stage = "do" => granted'[s] > 0
    PROVE  QueueInv'
<1>1. s # Nobody
  BY DEF Retry!RetryAssumption
<1>2. QueueType'
  BY DEF QueueInv, QueueType
<1>3. QueueOnce'
  BY DEF QueueInv, QueueOnce
<1>4. sender[s].stage = "waiting" /\ \A t \in Sender \ {s} : sender[t].stage # "waiting"
  BY <1>1 DEF QueueInv, Retry!OneServed
<1>5. {t \in Sender : sender'[t].stage = "waiting"} = {worker'.for} \ {Nobody}
  BY <1>4
<1>6. \A t \in Sender : sender'[t].stage = "queued" <=> sender[t].stage = "queued"
  BY <1>4
<1>7. Retry!OneServed'
  BY <1>5, <1>6 DEF QueueInv, Retry!OneServed
<1>8. SentOK(s)'
  <2>1. /\ sent[s] = sender[s].retryCount /\ sent[s] \in Nat /\ sender[s].retryCount \in Nat
        /\ granted[s] \in Nat /\ granted'[s] \in Nat
    BY <1>4 DEF QueueInv, QueueType, SentOK, Retry!RetryAssumption
  <2>2. sent[s] > 0 => granted[s] > 0
    BY DEF QueueInv, SentOK
  <2> QED
    BY <2>1, <2>2 DEF SentOK
<1>9. \A t \in Sender \ {s} : SentOK(t)'
  BY DEF QueueInv, SentOK
<1> QED
  BY <1>2, <1>3, <1>7, <1>8, <1>9 DEF QueueInv

\* The worker is busy with somebody when it asks the limiter.
LEMMA AskedFor ==
    ASSUME QueueInv, worker.at = "ask"
    PROVE  worker.for \in Sender /\ sender[worker.for].stage = "waiting"
  BY DEF QueueInv, QueueType, Retry!OneServed

\* The limiter has a token for the one the worker is busy with.
LEMMA AskGrantedKeepsQueue ==
    ASSUME Retry!RetryAssumption, QueueInv, Retry!AskGranted PROVE QueueInv'
<1> DEFINE s == worker.for
           h == HostOf[s]
<1>1. /\ worker.at = "ask" /\ tokens[h] > 0 /\ tokens' = [tokens EXCEPT ![h] = @ - 1]
      /\ granted' = [granted EXCEPT ![s] = @ + 1] /\ sender' = [sender EXCEPT ![s].stage = "do"]
      /\ worker' = [at |-> "select", for |-> Nobody]
      /\ sendq' = sendq /\ closer' = closer /\ sent' = sent
  BY DEF Retry!AskGranted, Retry!Goto, Retry!Idle
<1>2. s \in Sender /\ h \in Host
  BY <1>1, AskedFor DEF Retry!RetryAssumption
<1> HIDE DEF h
<1>3. tokens' \in [Host -> 0..Capacity]
  <2>1. tokens[h] \in 0..Capacity /\ Capacity \in Nat
    BY <1>2 DEF QueueInv, QueueType, Retry!RetryAssumption
  <2>2. tokens[h] - 1 \in 0..Capacity
    BY <1>1, <2>1
  <2> QED
    BY <1>1, <2>2 DEF QueueInv, QueueType
<1> HIDE DEF s
<1>4. granted' \in [Sender -> Nat] /\ granted'[s] > 0 /\ granted'[s] >= granted[s]
  BY <1>1, <1>2 DEF QueueInv, QueueType
<1>5. /\ sender' \in [Sender -> [stage : Retry!Stage, retryCount : 0..MaxRetries, result : Retry!Result]]
      /\ sender'[s].stage = "do" /\ sender'[s].retryCount = sender[s].retryCount
      /\ \A t \in Sender \ {s} : sender'[t] = sender[t] /\ granted'[t] = granted[t]
  BY <1>1, <1>2 DEF QueueInv, QueueType, Retry!Stage
<1> QED
  BY <1>1, <1>2, <1>3, <1>4, <1>5, AnswerKeepsQueue DEF s

\* The limiter fails: the sender returns, or sends all the same if it is a retry.
LEMMA AskFailsKeepsQueue ==
    ASSUME Retry!RetryAssumption, QueueInv, Retry!AskFails PROVE QueueInv'
<1> DEFINE s == worker.for
<1>1. /\ worker.at = "ask" /\ worker' = [at |-> "select", for |-> Nobody]
      /\ sendq' = sendq /\ tokens' = tokens /\ closer' = closer /\ granted' = granted /\ sent' = sent
  BY DEF Retry!AskFails, Retry!Idle
<1>2. s \in Sender /\ sender[s].stage = "waiting"
  BY <1>1, AskedFor
<1>3. IF sender[s].retryCount = 0
      THEN sender' = [sender EXCEPT ![s].stage = "returned", ![s].result = "error"]
      ELSE sender' = [sender EXCEPT ![s].stage = "do"]
  BY DEF Retry!AskFails, Retry!Refuse, Retry!Return, Retry!Goto
<1> HIDE DEF s
<1>4. sender[s].retryCount # 0 => granted[s] > 0
  <2>1. sent[s] = sender[s].retryCount /\ sent[s] \in Nat
    BY <1>2 DEF QueueInv, QueueType, SentOK
  <2> QED
    BY <1>2, <2>1 DEF QueueInv, SentOK
<1>5. /\ sender' \in [Sender -> [stage : Retry!Stage, retryCount : 0..MaxRetries, result : Retry!Result]]
      /\ sender'[s].stage \in {"do", "returned"} /\ sender'[s].retryCount = sender[s].retryCount
      /\ sender'[s].stage = "do" => granted'[s] > 0
      /\ \A t \in Sender \ {s} : sender'[t] = sender[t] /\ granted'[t] = granted[t]
  <2>1. CASE sender[s].retryCount = 0
    <3>1. sender' = [sender EXCEPT ![s].stage = "returned", ![s].result = "error"] /\ "error" \in Retry!Result
      BY <1>3, <2>1 DEF Retry!Result
    <3>2. /\ sender' \in [Sender -> [stage : Retry!Stage, retryCount : 0..MaxRetries, result : Retry!Result]]
          /\ sender'[s].stage = "returned" /\ sender'[s].retryCount = sender[s].retryCount
          /\ \A t \in Sender \ {s} : sender'[t] = sender[t]
      BY <1>2, <3>1, ReturnFacts DEF QueueInv
    <3> QED
      BY <1>1, <3>2
  <2>2. CASE sender[s].retryCount # 0
    <3>1. sender' = [sender EXCEPT ![s].stage = "do"]
      BY <1>3, <2>2
    <3>2. /\ sender' \in [Sender -> [stage : Retry!Stage, retryCount : 0..MaxRetries, result : Retry!Result]]
          /\ sender'[s].stage = "do" /\ sender'[s].retryCount = sender[s].retryCount
          /\ \A t \in Sender \ {s} : sender'[t] = sender[t]
      BY <1>2, <3>1 DEF QueueInv, QueueType, Retry!Stage
    <3>3. granted' = granted /\ granted[s] > 0
      BY <1>1, <1>4, <2>2
    <3> QED
      BY <3>2, <3>3
  <2> QED
    BY <2>1, <2>2
<1>6. granted'[s] >= granted[s] /\ granted' \in [Sender -> Nat] /\ tokens' \in [Host -> 0..Capacity]
  BY <1>1, <1>2 DEF QueueInv, QueueType
<1> QED
  BY <1>1, <1>2, <1>5, <1>6, AnswerKeepsQueue DEF s

\* The worker goes to sleep, wakes up, or is asked to stop, and buckets refill:
\* no sender moves.
LEMMA WorkerMoves ==
    ASSUME QueueInv, sendq' = sendq, sender' = sender, granted' = granted, sent' = sent,
           worker'.for = worker.for,
           worker'.at = worker.at \/ (worker.at \in {"ask", "sleep"} /\ worker'.at \in {"ask", "sleep"}),
           worker' \in [at : {"select", "ask", "sleep", "stopped"}, for : Sender \cup {Nobody}],
           tokens' \in [Host -> 0..Capacity], closer' \in {"open", "closing", "closed"}
    PROVE  QueueInv'
<1>1. QueueType'
  BY DEF QueueInv, QueueType
<1>2. QueueOnce' /\ \A s \in Sender : SentOK(s)'
  BY DEF QueueInv, QueueOnce, SentOK
<1>3. Retry!OneServed'
  BY DEF QueueInv, Retry!OneServed
<1> QED
  BY <1>1, <1>2, <1>3 DEF QueueInv

\* The steps that move no sender.
LEMMA QuietKeepsQueue ==
    ASSUME Retry!RetryAssumption, QueueInv,
           Retry!AskLimited \/ Retry!Wake \/ Retry!Close \/ \E h \in Host : Retry!Refill(h)
    PROVE  QueueInv'
<1>1. CASE Retry!AskLimited
  <2>1. /\ worker.at = "ask" /\ worker' = [worker EXCEPT !.at = "sleep"]
        /\ sendq' = sendq /\ sender' = sender /\ tokens' = tokens /\ closer' = closer
        /\ granted' = granted /\ sent' = sent
    BY <1>1 DEF Retry!AskLimited
  <2>2. /\ worker' \in [at : {"select", "ask", "sleep", "stopped"}, for : Sender \cup {Nobody}]
        /\ worker'.at = "sleep" /\ worker'.for = worker.for
    BY <2>1 DEF QueueInv, QueueType
  <2>3. tokens \in [Host -> 0..Capacity] /\ closer \in {"open", "closing", "closed"}
    BY DEF QueueInv, QueueType
  <2> QED
    BY <2>1, <2>2, <2>3, WorkerMoves
<1>2. CASE Retry!Wake
  <2>1. /\ worker.at = "sleep" /\ worker' = [worker EXCEPT !.at = "ask"]
        /\ sendq' = sendq /\ sender' = sender /\ tokens' = tokens /\ closer' = closer
        /\ granted' = granted /\ sent' = sent
    BY <1>2 DEF Retry!Wake
  <2>2. /\ worker' \in [at : {"select", "ask", "sleep", "stopped"}, for : Sender \cup {Nobody}]
        /\ worker'.at = "ask" /\ worker'.for = worker.for
    BY <2>1 DEF QueueInv, QueueType
  <2>3. tokens \in [Host -> 0..Capacity] /\ closer \in {"open", "closing", "closed"}
    BY DEF QueueInv, QueueType
  <2> QED
    BY <2>1, <2>2, <2>3, WorkerMoves
<1>3. CASE Retry!Close
  <2>1. /\ closer' = "closing" /\ worker' = worker
        /\ sendq' = sendq /\ sender' = sender /\ tokens' = tokens /\ granted' = granted /\ sent' = sent
    BY <1>3 DEF Retry!Close
  <2>2. /\ tokens \in [Host -> 0..Capacity]
        /\ worker \in [at : {"select", "ask", "sleep", "stopped"}, for : Sender \cup {Nobody}]
    BY DEF QueueInv, QueueType
  <2> QED
    BY <2>1, <2>2, WorkerMoves
<1>4. ASSUME NEW h \in Host, Retry!Refill(h) PROVE QueueInv'
  <2>1. /\ tokens[h] < Capacity /\ tokens' = [tokens EXCEPT ![h] = @ + 1]
        /\ closer' = closer /\ worker' = worker
        /\ sendq' = sendq /\ sender' = sender /\ granted' = granted /\ sent' = sent
    BY <1>4 DEF Retry!Refill
  <2>2. tokens' \in [Host -> 0..Capacity]
    <3>1. tokens[h] \in 0..Capacity /\ Capacity \in Nat
      BY DEF QueueInv, QueueType, Retry!RetryAssumption
    <3>2. tokens[h] + 1 \in 0..Capacity
      BY <2>1, <3>1
    <3> QED
      BY <2>1, <3>2 DEF QueueInv, QueueType
  <2>3. /\ closer \in {"open", "closing", "closed"}
        /\ worker \in [at : {"select", "ask", "sleep", "stopped"}, for : Sender \cup {Nobody}]
    BY DEF QueueInv, QueueType
  <2> QED
    BY <2>1, <2>2, <2>3, WorkerMoves
<1> QED
  BY <1>1, <1>2, <1>3, <1>4

\* Whoever is blocked on the queue panics when it is closed; the worker has nobody.
LEMMA StopKeepsQueue ==
    ASSUME QueueInv, Retry!Stop PROVE QueueInv'
<1>1. /\ worker.at = "select" /\ worker' = [at |-> "stopped", for |-> Nobody] /\ sendq' = <<>>
      /\ sender' = [s \in Sender |-> IF sender[s].stage = "queued"
                                     THEN [sender[s] EXCEPT !.stage = "panic"] ELSE sender[s]]
      /\ closer' = "closed" /\ tokens' = tokens /\ granted' = granted /\ sent' = sent
  BY DEF Retry!Stop
<1>2. \A s \in Sender :
          /\ sender'[s] \in [stage : Retry!Stage, retryCount : 0..MaxRetries, result : Retry!Result]
          /\ sender'[s].retryCount = sender[s].retryCount
          /\ sender'[s].stage = IF sender[s].stage = "queued" THEN "panic" ELSE sender[s].stage
  <2> SUFFICES ASSUME NEW s \in Sender
               PROVE  /\ sender'[s] \in [stage : Retry!Stage, retryCount : 0..MaxRetries, result : Retry!Result]
                      /\ sender'[s].retryCount = sender[s].retryCount
                      /\ sender'[s].stage = IF sender[s].stage = "queued" THEN "panic" ELSE sender[s].stage
    OBVIOUS
  <2>1. sender[s] \in [stage : Retry!Stage, retryCount : 0..MaxRetries, result : Retry!Result]
    BY DEF QueueInv, QueueType
  <2> QED
    BY <1>1, <2>1 DEF Retry!Stage
<1>3. QueueType'
  <2>1. sender' \in [Sender -> [stage : Retry!Stage, retryCount : 0..MaxRetries, result : Retry!Result]]
    BY <1>1, <1>2
  <2>2. worker' \in [at : {"select", "ask", "sleep", "stopped"}, for : Sender \cup {Nobody}]
    BY <1>1
  <2>3. sendq' \in Seq(Sender)
    BY <1>1
  <2> QED
    BY <1>1, <2>1, <2>2, <2>3 DEF QueueInv, QueueType
<1>4. QueueOnce'
  BY <1>1 DEF QueueOnce
<1>5. \A s \in Sender : sender[s].stage # "waiting"
  BY <1>1 DEF QueueInv, Retry!OneServed
<1>6. Retry!OneServed'
  <2>1. \A s \in Sender : sender'[s].stage # "waiting" /\ sender'[s].stage # "queued"
    BY <1>2, <1>5
  <2>2. worker'.for = Nobody /\ worker'.at = "stopped" /\ Len(sendq') = 0
    BY <1>1
  <2> QED
    BY <2>1, <2>2 DEF Retry!OneServed
<1>7. \A s \in Sender : SentOK(s)'
  BY <1>1, <1>2 DEF QueueInv, SentOK
<1> QED
  BY <1>3, <1>4, <1>6, <1>7 DEF QueueInv

\* Every step of the queue.
LEMMA QueueSteps ==
    ASSUME Retry!RetryAssumption, QueueInv, Retry!QueueNext PROVE QueueInv'
  BY SendKeepsQueue, DoKeepsQueue, ReceiveKeepsQueue, AskGrantedKeepsQueue, AskFailsKeepsQueue,
     QuietKeepsQueue, StopKeepsQueue DEF Retry!QueueNext, Retry!Worker, Retry!SenderStep

\* A queue that is left alone stays as it is.
LEMMA QueueIdle ==
    ASSUME QueueInv, UNCHANGED <<sendq, worker, sender, tokens, closer, granted, sent>> PROVE QueueInv'
  BY DEF QueueInv, QueueType, QueueOnce, Retry!OneServed, SentOK

\* What the invariant says of senders and worker.
LEMMA QueueServes ==
    ASSUME Retry!RetryAssumption, QueueInv PROVE Retry!OneServed /\ Retry!SendsBounded
<1>1. Retry!OneServed
  BY DEF QueueInv
<1>2. Retry!SendsBounded
  <2> SUFFICES ASSUME NEW s \in Sender
               PROVE  /\ sent[s] <= MaxRetries + 1 /\ sent[s] <= sender[s].retryCount + 1
                      /\ sent[s] > 0 => granted[s] > 0
    BY DEF Retry!SendsBounded
  <2>1. SentOK(s)
    BY DEF QueueInv
  <2>2. sent[s] \in Nat /\ MaxRetries \in Nat /\ sender[s].retryCount \in 0..MaxRetries
    BY DEF QueueInv, QueueType, Retry!RetryAssumption
  <2> QED
    BY <2>1, <2>2 DEF SentOK
<1> QED
  BY <1>1, <1>2

----------------------------------------------------------------------------
(* RetryRequestWithRetry: the loop and its sleeps                          *)

\* Powers of two are natural numbers: 2^n is how many subsets 1..n has.
LEMMA PowersOfTwo == \A n \in Nat : 2^n \in Nat
<1> SUFFICES ASSUME NEW n \in Nat PROVE 2^n \in Nat
  OBVIOUS
<1>1. IsFiniteSet(1..n) /\ Cardinality(1..n) = n
  BY FS_Interval
<1>2. IsFiniteSet(SUBSET (1..n)) /\ Cardinality(SUBSET (1..n)) = 2^Cardinality(1..n)
  BY <1>1, FS_SUBSET
<1>3. Cardinality(SUBSET (1..n)) \in Nat
  BY <1>2, FS_CardinalityType
<1> QED
  BY <1>1, <1>2, <1>3

\* A loop has its types and never slept longer than MaxWait, and one that waits for
\* the service has a round left; in the behaviours of the other models it has not
\* started.
LoopInv ==
    /\ loop \in [LoopCaller -> [i : 0..LoopRetries, result : RetryLoop!LoopResult, slept : Nat]]
    /\ RetryLoop!SleepAtMostMax
    /\ \A c \in LoopCaller : loop[c].result = "asking" => loop[c].i < LoopRetries
    /\ part # "loop" => loop = [c \in LoopCaller |-> [i |-> 0, result |-> "none", slept |-> MinWait]]

\* The sleep of a round is a number that MaxWait bounds.
LEMMA WaitBounded ==
    ASSUME RetryLoop!RetryAssumption, NEW n \in Nat, NEW jitter \in RetryLoop!Jitter(MaxWait)
    PROVE  /\ RetryLoop!WaitTime(MinWait, MaxWait, n, jitter) \in Nat
           /\ RetryLoop!WaitTime(MinWait, MaxWait, n, jitter) <= MaxWait
<1>1. MinWait \in Nat /\ MaxWait \in Nat
  BY DEF RetryLoop!RetryAssumption
<1>2. jitter \in Nat
  BY <1>1 DEF RetryLoop!Jitter
<1> DEFINE iterWait == MinWait + 2^n + jitter
<1>3. iterWait \in Nat
  BY <1>1, <1>2, PowersOfTwo
<1>4. RetryLoop!WaitTime(MinWait, MaxWait, n, jitter)
          = IF n = 0 THEN 0 ELSE IF iterWait < MaxWait THEN iterWait ELSE MaxWait
  BY DEF RetryLoop!WaitTime
<1> HIDE DEF iterWait
<1> QED
  BY <1>1, <1>3, <1>4

\* It holds before the first round.
LEMMA LoopInit == RetryLoop!RetryAssumption /\ Retry!Init => LoopInv
  BY DEF LoopInv, RetryLoop!RetryAssumption, Retry!Init, RetryLoop!Result, RetryLoop!LoopResult, RetryLoop!SleepAtMostMax

\* A caller's request, the service's answer, or the caller's giving up.
LEMMA LoopSteps ==
    ASSUME RetryLoop!RetryAssumption, LoopInv, part = "loop", part' = part, RetryLoop!LoopNext
    PROVE  LoopInv'
<1>1. PICK c \in LoopCaller : RetryLoop!Ask(c) \/ RetryLoop!Answered(c) \/ RetryLoop!GiveUp(c)
  BY DEF RetryLoop!LoopNext
<1> DEFINE Round == 0..LoopRetries
           Row == [i : Round, result : RetryLoop!LoopResult, slept : Nat]
           Kept == /\ loop' \in [LoopCaller -> Row] /\ loop'[c].slept <= MaxWait
                   /\ loop'[c].result = "asking" => loop'[c].i < LoopRetries
                   /\ \A d \in LoopCaller \ {c} : loop'[d] = loop[d]
<1>2. /\ loop \in [LoopCaller -> Row] /\ \A d \in LoopCaller : loop[d].slept <= MaxWait
      /\ \A d \in LoopCaller : loop[d].result = "asking" => loop[d].i < LoopRetries
  BY DEF LoopInv, RetryLoop!SleepAtMostMax
<1>3. SUFFICES Kept
  BY <1>2 DEF LoopInv, RetryLoop!SleepAtMostMax
<1>4. ASSUME NEW result \in RetryLoop!LoopResult, result = "asking" => loop[c].i < LoopRetries,
             loop' = [loop EXCEPT ![c].result = result]
      PROVE  Kept
  <2> HIDE DEF Round
  <2> QED
    BY <1>2, <1>4
<1>5. ASSUME NEW jitter \in RetryLoop!Jitter(MaxWait), loop[c].i < LoopRetries,
             loop' = [loop EXCEPT ![c].i = @ + 1,
                                  ![c].result = "none",
                                  ![c].slept = RetryLoop!WaitTime(MinWait, MaxWait, loop[c].i, jitter)]
      PROVE  Kept
  <2> DEFINE wait == RetryLoop!WaitTime(MinWait, MaxWait, loop[c].i, jitter)
             j == loop[c].i + 1
  <2>1. LoopRetries \in Nat /\ loop[c].i \in 0..LoopRetries
    BY <1>2 DEF RetryLoop!RetryAssumption
  <2>2. wait \in Nat /\ wait <= MaxWait
    BY <2>1, WaitBounded
  <2>3. j \in Round
    BY <1>5, <2>1
  <2>4. "none" \in RetryLoop!LoopResult
    BY DEF RetryLoop!LoopResult, RetryLoop!Result
  <2>5. loop' = [loop EXCEPT ![c].i = j, ![c].result = "none", ![c].slept = wait]
    BY <1>2, <1>5
  <2> HIDE DEF Round, wait, j
  <2> QED
    BY <1>2, <2>2, <2>3, <2>4, <2>5
<1>6. CASE RetryLoop!Ask(c)
  BY <1>4, <1>6 DEF RetryLoop!Ask, RetryLoop!LoopResult
<1>7. CASE RetryLoop!Answered(c)
  <2>1. loop[c].i < LoopRetries
    BY <1>2, <1>7 DEF RetryLoop!Answered
  <2>2. CASE \E result \in {"response", "error"} : loop' = [loop EXCEPT ![c].result = result]
    BY <1>4, <2>2 DEF RetryLoop!LoopResult, RetryLoop!Result
  <2> QED
    BY <1>5, <1>7, <2>1, <2>2 DEF RetryLoop!Answered
<1>8. CASE RetryLoop!GiveUp(c)
  BY <1>4, <1>8 DEF RetryLoop!GiveUp, RetryLoop!LoopResult, RetryLoop!Result
<1> QED
  BY <1>1, <1>6, <1>7, <1>8

\* A loop that is left alone stays as it is.
LEMMA LoopIdle ==
    ASSUME LoopInv, UNCHANGED <<part, loop>> PROVE LoopInv'
  BY DEF LoopInv, RetryLoop!SleepAtMostMax

----------------------------------------------------------------------------
(* HeaderRace: the answers that have been heard                            *)

\* The instances' own copies of the FiniteSets module say the same as ours.
LEMMA HeadersCount ==
    (\A S : Headers!IsFiniteSet(S) <=> IsFiniteSet(S)) /\ \A S : Headers!Cardinality(S) = Cardinality(S)
<1>1. \A S : Headers!IsFiniteSet(S) <=> IsFiniteSet(S)
  BY Zenon DEF IsFiniteSet, Headers!IsFiniteSet
<1>2. \A S : Headers!Cardinality(S) = Cardinality(S)
  BY Zenon DEF Cardinality, Headers!Cardinality
<1> QED
  BY <1>1, <1>2

\* The requests that have been heard or have left.
EndedFetches == {f \in Fetch : fetch[f] = "ended"}

\* While the receiver waits the loop goes on, nobody was told to leave, and unless
\* the context has ended every request that is gone was counted, twice.
RaceInv ==
    /\ fetch \in [Fetch -> {"running", "ok", "err", "ended"}]
    /\ fetchCtx \in {"live", "done"} /\ i \in Nat
    /\ receiver = "waiting" => ~closed /\ i < Cardinality(Fetch)
    /\ receiver = "waiting" /\ fetchCtx = "live" => i = 2 * Cardinality(EndedFetches)

\* One more request is gone.
LEMMA RequestEnds ==
    ASSUME Headers!RaceAssumption, RaceInv, NEW f \in Fetch, fetch[f] # "ended",
           fetch' = [fetch EXCEPT ![f] = "ended"]
    PROVE  /\ fetch' \in [Fetch -> {"running", "ok", "err", "ended"}]
           /\ Cardinality(EndedFetches') = Cardinality(EndedFetches) + 1
           /\ Cardinality(EndedFetches) \in Nat
<1>1. fetch' \in [Fetch -> {"running", "ok", "err", "ended"}] /\ EndedFetches' = EndedFetches \cup {f}
  BY DEF RaceInv, EndedFetches
<1>2. f \notin EndedFetches /\ IsFiniteSet(EndedFetches)
  BY FS_Subset, HeadersCount DEF EndedFetches, Headers!RaceAssumption
<1> QED
  BY <1>1, <1>2, FS_AddElement, FS_CardinalityType

\* It holds when the requests start: there is at least one.
LEMMA RaceInit ==
    ASSUME Headers!RaceAssumption, Headers!Init PROVE RaceInv
<1>1. EndedFetches = {} /\ fetch = [f \in Fetch |-> "running"]
  BY DEF Headers!Init, EndedFetches
<1>2. IsFiniteSet(Fetch) /\ Fetch # {}
  BY HeadersCount DEF Headers!RaceAssumption
<1>3. Cardinality(Fetch) \in Nat /\ Cardinality(Fetch) # 0
  BY <1>2, FS_CardinalityType, FS_EmptySet
<1> QED
  BY <1>1, <1>3, FS_EmptySet DEF Headers!Init, RaceInv

\* Every step of the race.
LEMMA RaceSteps ==
    ASSUME Headers!RaceAssumption, RaceInv, Headers!Next PROVE RaceInv'
<1>1. CASE Headers!Cancel
  BY <1>1 DEF Headers!Cancel, RaceInv, EndedFetches
<1>2. ASSUME NEW f \in Fetch, Headers!Answer(f) PROVE RaceInv'
  <2>1. /\ fetch[f] = "running" /\ \E got \in {"ok", "err"} : fetch' = [fetch EXCEPT ![f] = got]
        /\ UNCHANGED <<fetchCtx, closed, i, receiver>>
    BY <1>2 DEF Headers!Answer
  <2>2. fetch' \in [Fetch -> {"running", "ok", "err", "ended"}] /\ EndedFetches' = EndedFetches
    BY <2>1 DEF RaceInv, EndedFetches
  <2> QED
    BY <2>1, <2>2 DEF RaceInv
<1>3. ASSUME NEW f \in Fetch, Headers!GiveUp(f) PROVE RaceInv'
  <2>1. /\ fetch[f] # "ended" /\ fetch' = [fetch EXCEPT ![f] = "ended"]
        /\ fetchCtx = "done" \/ closed
        /\ UNCHANGED <<fetchCtx, closed, i, receiver>>
    BY <1>3 DEF Headers!GiveUp
  <2>2. fetch' \in [Fetch -> {"running", "ok", "err", "ended"}]
    BY <2>1, RequestEnds
  <2> QED
    BY <2>1, <2>2 DEF RaceInv
<1>4. ASSUME NEW f \in Fetch, Headers!ReceiveResult(f) PROVE RaceInv'
  <2>1. /\ fetch[f] # "ended" /\ fetch' = [fetch EXCEPT ![f] = "ended"] /\ receiver' = "returned"
        /\ UNCHANGED <<fetchCtx, i>>
    BY <1>4 DEF Headers!ReceiveResult
  <2>2. fetch' \in [Fetch -> {"running", "ok", "err", "ended"}]
    BY <2>1, RequestEnds
  <2> QED
    BY <2>1, <2>2 DEF RaceInv
<1>5. ASSUME NEW f \in Fetch, Headers!ReceiveError(f) PROVE RaceInv'
  <2>1. /\ fetch[f] # "ended" /\ receiver = "waiting" /\ fetch' = [fetch EXCEPT ![f] = "ended"] /\ i' = i + 2
        /\ UNCHANGED <<fetchCtx, closed>>
        /\ \/ i' < Cardinality(Fetch) /\ receiver' = receiver
           \/ receiver' = "returned"
    BY <1>5, HeadersCount DEF Headers!ReceiveError, Headers!more
  <2>2. /\ fetch' \in [Fetch -> {"running", "ok", "err", "ended"}]
        /\ Cardinality(EndedFetches') = Cardinality(EndedFetches) + 1 /\ Cardinality(EndedFetches) \in Nat
    BY <2>1, RequestEnds
  <2> QED
    BY <2>1, <2>2 DEF RaceInv
<1> QED
  BY <1>1, <1>2, <1>3, <1>4, <1>5 DEF Headers!Next, Headers!Served

\* A race that is left alone stays as it is.
LEMMA RaceIdle ==
    ASSUME RaceInv, UNCHANGED headerVars PROVE RaceInv'
  BY DEF RaceInv, EndedFetches, headerVars

\* If all were gone, the loop would have counted past their number.
LEMMA RaceIsAnswered ==
    ASSUME Headers!RaceAssumption, RaceInv PROVE Headers!SomebodyAnswers
<1> SUFFICES ASSUME receiver = "waiting", fetchCtx = "live", \A f \in Fetch : fetch[f] = "ended"
             PROVE  FALSE
  BY DEF Headers!SomebodyAnswers
<1>1. EndedFetches = Fetch
  BY DEF EndedFetches
<1>2. Cardinality(Fetch) \in Nat
  BY HeadersCount, FS_CardinalityType DEF Headers!RaceAssumption
<1> QED
  BY <1>1, <1>2 DEF RaceInv

----------------------------------------------------------------------------
(* DigestMail: the goroutines that have been heard                         *)

\* The same for the digest's copy.
LEMMA MailCounts == (\A S : Mail!IsFiniteSet(S) <=> IsFiniteSet(S)) /\ \A S : Mail!Cardinality(S) = Cardinality(S)
<1>1. \A S : Mail!IsFiniteSet(S) <=> IsFiniteSet(S)
  BY Zenon DEF IsFiniteSet, Mail!IsFiniteSet
<1>2. \A S : Mail!Cardinality(S) = Cardinality(S)
  BY Zenon DEF Cardinality, Mail!Cardinality
<1> QED
  BY <1>1, <1>2

\* The goroutines that have sent, and were heard.
HeardConverters == {n \in Notification : converter[n] = "ended"}

\* The loop counts the goroutines it has heard.
CollectInv ==
    /\ converter \in [Notification -> {"working", "errChan", "notifTemplates", "ended"}]
    /\ received = Cardinality(HeardConverters)

\* It holds when the goroutines start.
LEMMA CollectInit ==
    ASSUME Mail!Init PROVE CollectInv
<1>1. HeardConverters = {} /\ received = 0
  BY DEF Mail!Init, HeardConverters
<1> QED
  BY <1>1, FS_EmptySet DEF Mail!Init, CollectInv

\* Every step of goroutines and handler.
LEMMA CollectSteps ==
    ASSUME Mail!DigestMailAssumption, CollectInv, Mail!Next PROVE CollectInv'
<1>1. CASE UNCHANGED <<converter, received>>
  BY <1>1 DEF CollectInv, HeardConverters
<1>2. ASSUME NEW n \in Notification, NEW channel \in {"errChan", "notifTemplates"},
             converter[n] = "working", converter' = [converter EXCEPT ![n] = channel], received' = received
      PROVE  CollectInv'
  <2>1. /\ converter' \in [Notification -> {"working", "errChan", "notifTemplates", "ended"}]
        /\ HeardConverters' = HeardConverters
    BY <1>2 DEF CollectInv, HeardConverters
  <2> QED
    BY <1>2, <2>1 DEF CollectInv
<1>3. ASSUME NEW n \in Notification, converter[n] # "ended",
             converter' = [converter EXCEPT ![n] = "ended"], received' = received + 1
      PROVE  CollectInv'
  <2>1. /\ converter' \in [Notification -> {"working", "errChan", "notifTemplates", "ended"}]
        /\ HeardConverters' = HeardConverters \cup {n}
    BY <1>3 DEF CollectInv, HeardConverters
  <2>2. n \notin HeardConverters /\ IsFiniteSet(HeardConverters)
    BY <1>3, FS_Subset, MailCounts DEF HeardConverters, Mail!DigestMailAssumption
  <2> QED
    BY <1>3, <2>1, <2>2, FS_AddElement DEF CollectInv
<1>4. CASE Mail!Collected \/ Mail!Send
  BY <1>1, <1>4 DEF Mail!Collected, Mail!Send
<1>5. ASSUME NEW n \in Notification, Mail!Convert(n) \/ Mail!ReceiveError(n) \/ Mail!ReceiveTemplate(n)
      PROVE  CollectInv'
  BY <1>2, <1>3, <1>5 DEF Mail!Convert, Mail!Converted, Mail!ReceiveError, Mail!ReceiveTemplate
<1> QED
  BY <1>4, <1>5 DEF Mail!Next

\* A mail that is left alone stays as it is.
LEMMA CollectIdle ==
    ASSUME CollectInv, UNCHANGED mailVars PROVE CollectInv'
  BY DEF CollectInv, HeardConverters, mailVars

\* If all had been heard, the loop would have ended by its count.
LEMMA CollectIsSent ==
    ASSUME Mail!DigestMailAssumption, CollectInv PROVE Mail!SomebodySends
<1> SUFFICES ASSUME Mail!More, \A n \in Notification : converter[n] = "ended"
             PROVE  FALSE
  BY DEF Mail!SomebodySends
<1>1. HeardConverters = Notification
  BY DEF HeardConverters
<1>2. Cardinality(Notification) \in Nat
  BY MailCounts, FS_CardinalityType DEF Mail!DigestMailAssumption
<1> QED
  BY <1>1, <1>2, MailCounts DEF CollectInv, Mail!More

----------------------------------------------------------------------------
(* All of them                                                             *)

\* The inductive invariant of the four.
WaitInv == QueueInv /\ LoopInv /\ RaceInv /\ CollectInv

\* It holds at the start, whichever model a behaviour follows.
LEMMA WaitInit ==
    ASSUME Retry!RetryAssumption, RetryLoop!RetryAssumption, Headers!RaceAssumption, Init
    PROVE  WaitInv
<1>1. Retry!Init /\ Headers!Init /\ Mail!Init
  BY DEF Init
<1> QED
  BY <1>1, QueueInit, LoopInit, RaceInit, CollectInit DEF WaitInv

\* Each step is one of one model, and leaves the variables of the others alone.
LEMMA WaitStep ==
    ASSUME Retry!RetryAssumption, RetryLoop!RetryAssumption, Headers!RaceAssumption,
           Mail!DigestMailAssumption, WaitInv, [Next]_vars
    PROVE  WaitInv'
<1>1. CASE UNCHANGED <<part, retryVars, headerVars, mailVars>>
  BY <1>1, QueueIdle, LoopIdle, RaceIdle, CollectIdle DEF WaitInv, retryVars
<1>2. CASE part = "retry" /\ Retry!QueueNext /\ UNCHANGED <<part, headerVars, mailVars>>
  <2>1. UNCHANGED loop
    BY <1>2 DEF Retry!QueueNext, Retry!Worker, Retry!SenderStep, Retry!Send, Retry!DoAnswered,
        Retry!DoLimited, Retry!Receive, Retry!AskGranted, Retry!AskLimited, Retry!AskFails,
        Retry!Wake, Retry!Stop, Retry!Refill, Retry!Close
  <2> QED
    BY <1>2, <2>1, QueueSteps, LoopIdle, RaceIdle, CollectIdle DEF WaitInv
<1>3. CASE part = "loop" /\ RetryLoop!LoopNext /\ UNCHANGED <<part, headerVars, mailVars>>
  <2>1. UNCHANGED <<sendq, worker, sender, tokens, closer, granted, sent>>
    BY <1>3 DEF RetryLoop!LoopNext, RetryLoop!Ask, RetryLoop!Answered, RetryLoop!GiveUp
  <2> QED
    BY <1>3, <2>1, LoopSteps, QueueIdle, RaceIdle, CollectIdle DEF WaitInv
<1>4. CASE Headers!Next /\ UNCHANGED <<part, retryVars, mailVars>>
  BY <1>4, RaceSteps, QueueIdle, LoopIdle, CollectIdle DEF WaitInv, retryVars
<1>5. CASE Mail!Next /\ UNCHANGED <<part, retryVars, headerVars>>
  BY <1>5, CollectSteps, QueueIdle, LoopIdle, RaceIdle DEF WaitInv, retryVars
<1> QED
  BY <1>1, <1>2, <1>3, <1>4, <1>5 DEF Next, vars

\* What it says of whoever waits.
LEMMA WaitersHave ==
    ASSUME Retry!RetryAssumption, RetryLoop!RetryAssumption, Headers!RaceAssumption,
           Mail!DigestMailAssumption, WaitInv
    PROVE  WaitersAreServed
<1>1. ASSUME part = "retry" PROVE Retry!TypeOK
  <2>1. loop = [c \in LoopCaller |-> [i |-> 0, result |-> "none", slept |-> MinWait]]
    BY <1>1 DEF WaitInv, LoopInv
  <2>2. loop \in [LoopCaller -> [i : 0..MaxRetries, result : Retry!LoopResult, slept : Nat]]
    BY <2>1 DEF Retry!RetryAssumption, Retry!LoopResult, Retry!Result
  <2> QED
    BY <2>2 DEF WaitInv, QueueInv, QueueType, Retry!TypeOK
<1>2. Retry!OneServed /\ Retry!SendsBounded
  BY QueueServes DEF WaitInv
<1>3. RetryLoop!SleepAtMostMax
  BY DEF WaitInv, LoopInv
<1>4. Headers!SomebodyAnswers /\ Mail!SomebodySends
  BY RaceIsAnswered, CollectIsSent DEF WaitInv
<1> QED
  BY <1>1, <1>2, <1>3, <1>4 DEF WaitersAreServed

\* For any number of senders, hosts, retries, sources and notifications, whoever waits
\* for an answer has somebody who is about to give it, no request is sent more often
\* than it may be retried and no retry loop sleeps longer than its maximum.
THEOREM NobodyWaitsInVain ==
    ASSUME Retry!RetryAssumption, RetryLoop!RetryAssumption, Headers!RaceAssumption,
           Mail!DigestMailAssumption
    PROVE  Spec => []WaitersAreServed
<1>1. Init => WaitInv
  BY WaitInit
<1>2. WaitInv /\ [Next]_vars => WaitInv'
  BY WaitStep
<1>3. WaitInv => WaitersAreServed
  BY WaitersHave
<1> QED
  BY <1>1, <1>2, <1>3, PTL DEF Spec
=============================================================================
