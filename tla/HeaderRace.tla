----------------------------- MODULE HeaderRace -----------------------------
(***************************************************************************)
(* firstNonError of service/rpc, the race behind GetIPFSHeaders and        *)
(* GetHTTPHeaders (a HEAD and a GET request) and GetIPFSResponse (three    *)
(* sources).  Each fetch runs to its end before its goroutine selects      *)
(* between the context, the done channel and the send: the operands of a   *)
(* select are evaluated first.  The receiver counts i up twice per answer. *)
(* The HTTP clients have no timeout: a server may never answer.            *)
(***************************************************************************)
EXTENDS Naturals, FiniteSets

CONSTANTS
    Fetch,        \* the functions that race
    Cancellable   \* whether the caller's context may end
RaceAssumption == IsFiniteSet(Fetch) /\ Fetch # {} /\ Cancellable \in BOOLEAN

VARIABLES
    fetch,      \* Fetch -> "running", "ok", "err" (it has that answer) or "ended"
    ctx,        \* "live" or "done"
    closed,     \* the done channel is closed
    i,          \* the loop variable
    receiver,   \* "waiting" or "returned"
    answer,     \* "none", "ok" or "err"
    succeeded   \* the fetches that had a result without an error
vars == <<fetch, ctx, closed, i, receiver, answer, succeeded>>

Init ==
    /\ fetch = [f \in Fetch |-> "running"]
    /\ ctx = "live" /\ closed = FALSE /\ i = 0
    /\ receiver = "waiting" /\ answer = "none" /\ succeeded = {}

Cancel ==
    /\ Cancellable /\ ctx = "live"
    /\ ctx' = "done"
    /\ UNCHANGED <<fetch, closed, i, receiver, answer, succeeded>>

\* External: a request is answered, or fails.  It may do neither.
Answer(f) ==
    /\ fetch[f] = "running"
    /\ \/ fetch' = [fetch EXCEPT ![f] = "ok"] /\ succeeded' = succeeded \cup {f}
       \/ fetch' = [fetch EXCEPT ![f] = "err"] /\ UNCHANGED succeeded
    /\ UNCHANGED <<ctx, closed, i, receiver, answer>>

\* Mutant: the goroutine's select does not watch the done channel.
GiveUp_NotDone(f) ==
    /\ fetch[f] \in {"ok", "err"}
    /\ ctx = "done"
    /\ fetch' = [fetch EXCEPT ![f] = "ended"]
    /\ UNCHANGED <<ctx, closed, i, receiver, answer, succeeded>>

\* The goroutine's select takes the context or the done channel.
GiveUp(f) ==
    /\ fetch[f] \in {"ok", "err"}
    /\ ctx = "done" \/ closed
    /\ fetch' = [fetch EXCEPT ![f] = "ended"]
    /\ UNCHANGED <<ctx, closed, i, receiver, answer, succeeded>>

\* A result without an error is received: close(done) and return it.
ReceiveResult(f) ==
    /\ fetch[f] = "ok" /\ receiver = "waiting"
    /\ fetch' = [fetch EXCEPT ![f] = "ended"]
    /\ closed' = TRUE /\ receiver' = "returned" /\ answer' = "ok"
    /\ UNCHANGED <<ctx, i, succeeded>>

\* Mutant: the loop only ends with a result.
more_Always(n) == TRUE

\* The loop goes round again.
more(n) == n < Cardinality(Fetch)

\* An error is received: i++ in the body and i++ of the loop.
ReceiveError(f) ==
    /\ fetch[f] = "err" /\ receiver = "waiting"
    /\ fetch' = [fetch EXCEPT ![f] = "ended"]
    /\ i' = i + 2
    /\ IF more(i + 2)
       THEN UNCHANGED <<receiver, answer>>
       ELSE receiver' = "returned" /\ answer' = "err"
    /\ UNCHANGED <<ctx, closed, succeeded>>

\* What happens to an answer.
Served(f) == GiveUp(f) \/ ReceiveResult(f) \/ ReceiveError(f)
Next == Cancel \/ \E f \in Fetch : Answer(f) \/ Served(f)

Spec == Init /\ [][Next]_vars

----------------------------------------------------------------------------
(* Properties                                                              *)

\* The receiver waits only as long as somebody has not been heard, unless the
\* context has ended: the loop ends with the last answer at the latest.
SomebodyAnswers ==
    receiver = "waiting" /\ ctx = "live" => \E f \in Fetch : fetch[f] # "ended"

\* The race returns unless a server never answers or the context ends: it never
\* waits for more answers than there are requests.  (Once the context is done every
\* goroutine may leave without sending, and the receiver, which does not watch it,
\* waits for ever.)
ReturnsWhenAnswered ==
    <>(receiver = "returned" \/ ctx = "done") \/ <>[](\E f \in Fetch : fetch[f] = "running")

\* One good answer is enough, although the other servers never answer.
OneGoodAnswerReturns ==
    \A f \in Fetch : (fetch[f] = "ok") ~> (receiver = "returned" \/ ctx = "done")

\* A race that found a result leaves nobody behind that has been answered: the
\* answers that come in later find the done channel closed.
LosersEnd ==
    \A f \in Fetch : (answer = "ok" /\ fetch[f] # "running") ~> (fetch[f] = "ended")

\* The headers are returned when one of the requests got them: an error is the
\* answer only if no request has succeeded by the time all have been answered.
\* Stated for the comment of GetIPFSHeaders; the double count breaks it.
HeadersReturned ==
    (\A f \in Fetch : fetch[f] # "running") /\ answer = "err" => succeeded = {}
=============================================================================
