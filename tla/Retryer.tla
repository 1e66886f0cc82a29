------------------------------ MODULE Retryer ------------------------------
(***************************************************************************)
(* util/retry: HTTP requests that wait for a rate limiter before they are  *)
(* sent, and again each time the service answers 429.  Senders put their   *)
(* request on the channel q; one worker takes it off, asks the limiter for *)
(* the request's host until a token is free, and answers on the request's  *)
(* done channel.  q has no buffer: `sendq` are the senders blocked on it,  *)
(* oldest first, as the runtime keeps them.                                *)
(*                                                                         *)
(* The limiter is a bucket of tokens for each host, which fills up by      *)
(* Refill; sleeping and the service are external, and the service may      *)
(* never answer a client without a timeout.  RetryRequestWithRetry, the    *)
(* loop that uses no limiter, is the second part of the module.            *)
(***************************************************************************)
EXTENDS Naturals, Sequences

CONSTANTS
    Sender,       \* goroutines that call DoRetry
    Host, HostOf, \* the host of each sender's request
    Caller,       \* goroutines that call RetryRequestWithRetry
    Nobody,
    MaxRetries, MinWait, MaxWait,
    Capacity,     \* tokens of a host's bucket
    MayClose      \* whether somebody closes the retryer

RetryAssumption ==
    /\ MaxRetries \in Nat \ {0} /\ MinWait \in Nat /\ MaxWait \in Nat /\ MinWait <= MaxWait
    /\ Capacity \in Nat \ {0} /\ HostOf \in [Sender -> Host]
    /\ Nobody \notin Sender /\ MayClose \in BOOLEAN

VARIABLES
    sendq,      \* senders blocked on q
    worker,     \* what enqueue is doing, and for whom
    sender,     \* each sender's stage, its retryCount and its result
    tokens,     \* the limiter: free tokens of each host
    closer,     \* the function New returns
    granted,    \* history: tokens taken for each sender
    sent,       \* history: HTTP requests of each sender
    loop        \* each caller of RetryRequestWithRetry: its attempt, its result (or
                \* "asking", while it waits for the service) and its last sleep

vars == <<sendq, worker, sender, tokens, closer, granted, sent, loop>>

Stage == {"new", "queued", "waiting", "do", "backoff", "returned", "panic"}
Result == {"none", "response", "error", "outOfRetries"}
LoopResult == Result \cup {"asking"}

TypeOK ==
    /\ sendq \in Seq(Sender)
    /\ worker \in [at : {"select", "ask", "sleep", "stopped"}, for : Sender \cup {Nobody}]
    /\ sender \in [Sender -> [stage : Stage, retryCount : 0..MaxRetries, result : Result]]
    /\ tokens \in [Host -> 0..Capacity]
    /\ closer \in {"open", "closing", "closed"}
    /\ granted \in [Sender -> Nat] /\ sent \in [Sender -> Nat]
    /\ loop \in [Caller -> [i : 0..MaxRetries, result : LoopResult, slept : Nat]]

Init ==
    /\ sendq = <<>>
    /\ worker = [at |-> "select", for |-> Nobody]
    /\ sender = [s \in Sender |-> [stage |-> "new", retryCount |-> 0, result |-> "none"]]
    /\ tokens = [h \in Host |-> Capacity]
    /\ closer = "open"
    /\ granted = [s \in Sender |-> 0] /\ sent = [s \in Sender |-> 0]
    /\ loop = [c \in Caller |-> [i |-> 0, result |-> "none", slept |-> MinWait]]

Goto(s, stage) == sender' = [sender EXCEPT ![s].stage = stage]
Return(s, result) ==
    sender' = [sender EXCEPT ![s].stage = "returned", ![s].result = result]

----------------------------------------------------------------------------
(* Senders                                                                 *)

\* wait: r.q <- p, by DoRetry and again by do.  Sending on a closed channel
\* panics.
Send(s) ==
    /\ sender[s].stage \in {"new", "backoff"}
    /\ IF worker.at = "stopped"
       THEN Goto(s, "panic") /\ UNCHANGED sendq
       ELSE Goto(s, "queued") /\ sendq' = Append(sendq, s)
    /\ UNCHANGED <<worker, tokens, closer, granted, sent, loop>>

mayRetry(s) == sender[s].retryCount < MaxRetries

\* do: the service answers, or the call fails.
DoAnswered(s) ==
    /\ sender[s].stage = "do"
    /\ sent' = [sent EXCEPT ![s] = @ + 1]
    /\ \E result \in {"response", "error"} : Return(s, result)
    /\ UNCHANGED <<sendq, worker, tokens, closer, granted, loop>>

\* do: the service answers 429.  After the backoff the request is put on the
\* queue again, unless it was tried too often.
DoLimited(s) ==
    /\ sender[s].stage = "do"
    /\ sent' = [sent EXCEPT ![s] = @ + 1]
    /\ IF mayRetry(s)
       THEN sender' = [sender EXCEPT ![s].stage = "backoff", ![s].retryCount = @ + 1]
       ELSE Return(s, "outOfRetries")
    /\ UNCHANGED <<sendq, worker, tokens, closer, granted, loop>>

----------------------------------------------------------------------------
(* The worker                                                              *)

Receive ==
    /\ worker.at = "select" /\ sendq # <<>>
    /\ worker' = [at |-> "ask", for |-> Head(sendq)]
    /\ sendq' = Tail(sendq)
    /\ Goto(Head(sendq), "waiting")
    /\ UNCHANGED <<tokens, closer, granted, sent, loop>>

Idle == [at |-> "select", for |-> Nobody]

\* ForKey has a token: the sender's done channel is closed.
AskGranted ==
    LET s == worker.for IN
    /\ worker.at = "ask" /\ tokens[HostOf[s]] > 0
    /\ tokens' = [tokens EXCEPT ![HostOf[s]] = @ - 1]
    /\ granted' = [granted EXCEPT ![s] = @ + 1]
    /\ Goto(s, "do")
    /\ worker' = Idle
    /\ UNCHANGED <<sendq, closer, sent, loop>>

\* ForKey has none: the worker sleeps until one is refilled.
AskLimited ==
    /\ worker.at = "ask" /\ tokens[HostOf[worker.for]] = 0
    /\ worker' = [worker EXCEPT !.at = "sleep"]
    /\ UNCHANGED <<sendq, sender, tokens, closer, granted, sent, loop>>

Wake ==
    /\ worker.at = "sleep" /\ tokens[HostOf[worker.for]] > 0
    /\ worker' = [worker EXCEPT !.at = "ask"]
    /\ UNCHANGED <<sendq, sender, tokens, closer, granted, sent, loop>>

\* What a sender does with an error on its done channel: DoRetry returns it;
\* do, on a retry, does not look at it and sends the request.
Refuse(s) == IF sender[s].retryCount = 0 THEN Return(s, "error") ELSE Goto(s, "do")

\* Mutant: the worker goes on to the next request without an answer.
AskFails_NoAnswer ==
    /\ worker.at = "ask"
    /\ worker' = Idle
    /\ UNCHANGED <<sendq, sender, tokens, closer, granted, sent, loop>>

\* The request's context is done, or the limiter fails: the error is sent on
\* the done channel.
AskFails ==
    /\ worker.at = "ask"
    /\ Refuse(worker.for)
    /\ worker' = Idle
    /\ UNCHANGED <<sendq, tokens, closer, granted, sent, loop>>

Refill(h) ==
    /\ tokens[h] < Capacity
    /\ tokens' = [tokens EXCEPT ![h] = @ + 1]
    /\ UNCHANGED <<sendq, worker, sender, closer, granted, sent, loop>>

----------------------------------------------------------------------------
(* Closing                                                                 *)

Close ==
    /\ MayClose /\ closer = "open"
    /\ closer' = "closing"
    /\ UNCHANGED <<sendq, worker, sender, tokens, granted, sent, loop>>

\* The worker receives from closing and closes q.  Senders blocked on q panic;
\* the loop over q finds nothing, because q has no buffer.
Stop ==
    /\ worker.at = "select" /\ closer = "closing"
    /\ worker' = [at |-> "stopped", for |-> Nobody]
    /\ sender' = [s \in Sender |->
                    IF sender[s].stage = "queued" THEN [sender[s] EXCEPT !.stage = "panic"]
                                                  ELSE sender[s]]
    /\ sendq' = <<>>
    /\ closer' = "closed"
    /\ UNCHANGED <<tokens, granted, sent, loop>>

----------------------------------------------------------------------------
(* RetryRequestWithRetry                                                   *)

\* The jitter is up to a tenth of maxWait.
Jitter(maxWait) == 0..(maxWait \div 10)

WaitTime(minWait, maxWait, i, jitter) ==
    LET iterWait == minWait + 2^i + jitter IN
    IF i = 0 THEN 0 ELSE IF iterWait < maxWait THEN iterWait ELSE maxWait

\* One round: the request is sent.
Ask(c) ==
    /\ loop[c].result = "none" /\ loop[c].i < MaxRetries
    /\ loop' = [loop EXCEPT ![c].result = "asking"]
    /\ UNCHANGED <<sendq, worker, sender, tokens, closer, granted, sent>>

\* The service answers, or it answers 429 and the caller sleeps.
Answered(c) ==
    /\ loop[c].result = "asking"
    /\ \/ \E result \in {"response", "error"} : loop' = [loop EXCEPT ![c].result = result]
       \/ \E jitter \in Jitter(MaxWait) :
            loop' = [loop EXCEPT ![c].i = @ + 1,
                                 ![c].result = "none",
                                 ![c].slept = WaitTime(MinWait, MaxWait, loop[c].i, jitter)]
    /\ UNCHANGED <<sendq, worker, sender, tokens, closer, granted, sent>>

GiveUp(c) ==
    /\ loop[c].result = "none" /\ loop[c].i = MaxRetries
    /\ loop' = [loop EXCEPT ![c].result = "outOfRetries"]
    /\ UNCHANGED <<sendq, worker, sender, tokens, closer, granted, sent>>

----------------------------------------------------------------------------
Worker == Receive \/ AskGranted \/ AskLimited \/ AskFails \/ Wake \/ Stop
SenderStep(s) == Send(s) \/ DoAnswered(s) \/ DoLimited(s)

QueueNext ==
    \/ Worker
    \/ \E s \in Sender : SenderStep(s)
    \/ \E h \in Host : Refill(h)
    \/ Close
LoopNext == \E c \in Caller : Ask(c) \/ Answered(c) \/ GiveUp(c)

Next == QueueNext \/ LoopNext

Spec == Init /\ [][Next]_vars

----------------------------------------------------------------------------
\* The worker holds a request exactly while its sender waits on the done
\* channel, and the senders in the queue are those blocked on q: nobody waits
\* for an answer that no one is working on, and the worker never sends to a
\* done channel that nobody reads.
OneServed ==
    /\ {s \in Sender : sender[s].stage = "waiting"} = {worker.for} \ {Nobody}
    /\ \A s \in Sender : (sender[s].stage = "queued") <=>
                         (\E n \in 1..Len(sendq) : sendq[n] = s)
    /\ worker.at \in {"ask", "sleep"} <=> worker.for # Nobody

\* A request is sent at most MaxRetries + 1 times, each time after it was on
\* the queue, and its first sending took a token.
SendsBounded ==
    \A s \in Sender :
        /\ sent[s] <= MaxRetries + 1
        /\ sent[s] <= sender[s].retryCount + 1
        /\ sent[s] > 0 => granted[s] > 0

\* No loop sleeps longer than MaxWait in one round.
SleepAtMostMax == \A c \in Caller : loop[c].slept <= MaxWait

\* Every call of RetryRequestWithRetry comes back, unless the service never answers
\* one of its requests.
LoopReturns ==
    \A c \in Caller : \/ <>(loop[c].result \in Result \ {"none"})
                       \/ <>[](loop[c].result = "asking")

\* Every call of DoRetry comes back or panics, unless the service never answers one
\* of its own requests: one that is never answered holds up nobody else's.
EverySenderReturns ==
    \A s \in Sender :
        \/ (sender[s].stage = "queued") ~> (sender[s].stage \in {"returned", "panic"})
        \/ <>[](sender[s].stage = "do")

\* The function that closes the retryer returns.
CloseReturns == (closer = "closing") ~> (closer = "closed")

\* What the comment of Retryer says: it checks the limiter before sending a
\* request and waits while the limit is exceeded, so every sending has a token.
SentWithToken == \A s \in Sender : sent[s] <= granted[s]

\* What the closing worker logs: buffered requests are flushed, with the error
\* that the retryer is closing; no sender panics.
NoSenderPanics == \A s \in Sender : sender[s].stage # "panic"

\* What the comment of Retry.MinWait says: the least sleep of an iteration.
SleepAtLeastMin == \A c \in Caller : loop[c].slept >= MinWait
=============================================================================
