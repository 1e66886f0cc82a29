----------------------------- MODULE MCReturns -----------------------------
(***************************************************************************)
(* What waits in the system (the batcher, which has a run of its own, set  *)
(* aside), under one question: does it come back?  The models do not       *)
(* interact; part says which of them a behaviour follows, and the          *)
(* variables of the others keep their initial values.                      *)
(***************************************************************************)
EXTENDS Naturals, Sequences, FiniteSets

CONSTANTS
    Sender, Host, HostOf, LoopCaller, Nobody,          \* Retryer
    MaxRetries, LoopRetries, MinWait, MaxWait, Capacity,
    Gateway, Fetch, Task,                              \* UriReader, HeaderRace, Throttle
    Message, m2, Subscription, s2, u1, u2, None,       \* Subscriptions
    Job, Notification, ResultLimit                     \* Digest, DigestMail

VARIABLES
    part,
    sendq, worker, sender, tokens, closer, granted, sent, loop,
    kind, again, ctx, caller, answer, reading, reader, race, raceCtx, run, waiter, failed,
    fetch, fetchCtx, closed, i, receiver, found, succeeded,
    ttl, task,
    channels, message, forwarder, client, delivered,
    eligible, sending, job,
    converter, data, received, stage

retryVars == <<sendq, worker, sender, tokens, closer, granted, sent, loop>>
uriVars ==
    <<kind, again, ctx, caller, answer, reading, reader, race, raceCtx, run, waiter, failed>>
headerVars == <<fetch, fetchCtx, closed, i, receiver, found, succeeded>>
lockVars == <<ttl, task>>
feedVars == <<channels, message, forwarder, client, delivered>>
mailingVars == <<eligible, sending, job>>
mailVars == <<converter, data, received, stage>>
vars == <<part, retryVars, uriVars, headerVars, lockVars, feedVars,
          mailingVars, mailVars>>

Retry == INSTANCE Retryer WITH Caller <- LoopCaller, MayClose <- TRUE
\* The loop has a number of rounds of its own.
RetryLoop ==
    INSTANCE Retryer WITH
        Caller <- LoopCaller, MaxRetries <- LoopRetries, MayClose <- TRUE
Uri ==
    INSTANCE UriReader WITH RecurseRawReturns <- TRUE, worker <- reading
Headers ==
    INSTANCE HeaderRace WITH Cancellable <- TRUE, ctx <- fetchCtx, answer <- found
Lock == INSTANCE Throttle WITH Expiry <- 3, pc <- task
\* A subscription of each of two users and a message for each.
Feed ==
    INSTANCE Subscriptions WITH
        User <- {u1, u2},
        UserOf <- [s \in Subscription |-> IF s = s2 THEN u2 ELSE u1],
        OwnerOf <- [m \in Message |-> IF m = m2 THEN u2 ELSE u1]
Mailing == INSTANCE Digest WITH UserCount <- 3, EmailsAtATime <- 2
Mail == INSTANCE DigestMail WITH sender <- converter

ASSUME /\ Retry!RetryAssumption /\ RetryLoop!RetryAssumption
       /\ Uri!UriAssumption /\ Headers!RaceAssumption /\ Lock!ExpiryAssumption
       /\ Feed!SubscriptionAssumption
       /\ Mailing!DigestAssumption /\ Mail!DigestMailAssumption

Init ==
    /\ part \in {"retry", "loop", "uri", "headers", "lock", "feed", "mailing", "mail"}
    /\ Retry!Init
    /\ Uri!Init /\ (part # "uri" => kind = "ipfs")
    /\ Headers!Init /\ Lock!Init /\ Feed!Init
    /\ Mailing!Init /\ (part # "mailing" => eligible = {})
    /\ Mail!Init

Next ==
    /\ UNCHANGED part
    /\ \/ /\ part = "retry" /\ Retry!QueueNext
          /\ UNCHANGED <<uriVars, headerVars, lockVars, feedVars, mailingVars, mailVars>>
       \/ /\ part = "loop" /\ RetryLoop!LoopNext
          /\ UNCHANGED <<uriVars, headerVars, lockVars, feedVars, mailingVars, mailVars>>
       \/ /\ part = "uri" /\ Uri!Next
          /\ UNCHANGED <<retryVars, headerVars, lockVars, feedVars, mailingVars, mailVars>>
       \/ /\ part = "headers" /\ Headers!Next
          /\ UNCHANGED <<retryVars, uriVars, lockVars, feedVars, mailingVars, mailVars>>
       \/ /\ part = "lock" /\ Lock!Next
          /\ UNCHANGED <<retryVars, uriVars, headerVars, feedVars, mailingVars, mailVars>>
       \/ /\ part = "feed" /\ Feed!Next
          /\ UNCHANGED <<retryVars, uriVars, headerVars, lockVars, mailingVars, mailVars>>
       \/ /\ part = "mailing" /\ Mailing!Next
          /\ UNCHANGED <<retryVars, uriVars, headerVars, lockVars, feedVars, mailVars>>
       \/ /\ part = "mail" /\ Mail!Next
          /\ UNCHANGED <<retryVars, uriVars, headerVars, lockVars, feedVars, mailingVars>>

Spec == Init /\ [][Next]_vars

\* Two senders share a host, a third has its own.
MCHostOf == [s \in Sender |-> IF s = "s3" THEN "h2" ELSE "h1"]

(***************************************************************************)
(* What the scheduling of the code guarantees, in the behaviours that      *)
(* follow a model: the Go runtime runs every goroutine that can run and    *)
(* timers fire.  Nobody has to call anything.                              *)
(***************************************************************************)
\* Buckets refill.  The worker's select serves a closing that is always among
\* its ready cases in the end, although requests are ready too.  The service need
\* not answer: the clients have no timeout.
RetryFairness ==
    /\ WF_retryVars(part = "retry" /\ Retry!Worker)
    /\ SF_retryVars(part = "retry" /\ Retry!Stop)
    /\ \A s \in Sender : WF_retryVars(part = "retry" /\ Retry!Send(s))
    /\ \A h \in Host : WF_retryVars(part = "retry" /\ Retry!Refill(h))
    /\ \A c \in LoopCaller :
         WF_retryVars(part = "loop" /\ (RetryLoop!Ask(c) \/ RetryLoop!GiveUp(c)))

\* Neither a gateway nor a server need answer, and the context need not end.  The
\* body of a gateway's answer ends, because that client has a timeout; that of
\* another server need not, as long as the context lives.
ReadFairness ==
    /\ WF_uriVars(part = "uri" /\ ~Uri!ReadsServer /\ Uri!Caller)
    /\ WF_uriVars(part = "uri" /\ Uri!Timeout)
    /\ \A f \in Fetch : WF_headerVars(part = "headers" /\ Headers!Served(f))

\* Time passes; a task may stop anywhere.
LockFairness == WF_lockVars(part = "lock" /\ Lock!Tick)

\* Pub/Sub delivers; clients may stall.
FeedFairness ==
    /\ \A m \in Message : WF_feedVars(part = "feed" /\ Feed!Receive(m))
    /\ \A m \in Message : WF_feedVars(part = "feed" /\ Feed!TimeOut(m))
    /\ \A s \in Subscription : WF_feedVars(part = "feed" /\ Feed!Forward(s))

\* Queries return.
DigestFairness ==
    /\ \A j \in Job : WF_mailingVars(part = "mailing" /\ Mailing!Progress(j))
    /\ WF_mailVars(part = "mail" /\ Mail!Next)

FairSpec ==
    /\ Spec
    /\ RetryFairness /\ ReadFairness /\ LockFairness
    /\ FeedFairness /\ DigestFairness

----------------------------------------------------------------------------
\* Nobody waits for somebody who will not come: a sender that waits for its
\* answer is the one the worker is busy with, or blocked on the queue that the
\* worker empties; a race for headers that still waits has a request that has not
\* been heard; and so does the loop that collects a digest.  And no request is
\* sent too often, no loop sleeps longer than its maximum.
WaitersAreServed ==
    /\ part = "retry" => Retry!TypeOK
    /\ Retry!OneServed /\ Retry!SendsBounded /\ RetryLoop!SleepAtMostMax
    /\ Headers!SomebodyAnswers /\ Mail!SomebodySends

\* What nobody else can hold up comes back, although servers may never answer.
\* DoRetry waits for the service's answers to its own requests only, although one
\* worker serves all, and so does RetryRequestWithRetry; the function that closes the
\* retryer returns.  GetDataFromURIAsReader returns unless it is reading from a
\* server that does not send the rest.  While its context lives firstNonError
\* returns with the last answer, or with one good answer whatever the other servers
\* do, and then leaves no request behind that is answered.
RequestsReturn ==
    /\ part = "retry" => Retry!EverySenderReturns /\ Retry!CloseReturns
    /\ part = "loop" => RetryLoop!LoopReturns
    /\ part = "uri" => Uri!CallReturns
    /\ part = "headers" =>
         Headers!ReturnsWhenAnswered /\ Headers!OneGoodAnswerReturns /\ Headers!LosersEnd

\* The throttle's key is absent again and again, although tasks crash while they
\* hold it and others set it again.
NeverLockedForever == part = "lock" => Lock!NeverLockedForever

\* A slow or gone subscriber holds up no receiver: every message is acknowledged.
EveryMessageAcked == part = "feed" => Feed!EveryMessageAcked

\* A digest job that has started to page ends, whoever signs up meanwhile, and
\* the mail of one user does not wait for a goroutine that will never send.
DigestEnds ==
    /\ part = "mailing" => Mailing!JobEnds
    /\ part = "mail" => Mail!Returns
=============================================================================
