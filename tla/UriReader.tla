----------------------------- MODULE UriReader -----------------------------
(***************************************************************************)
(* GetDataFromURIAsReader of service/rpc with ipfs.GetResponse, which      *)
(* races several gateways through util.FirstNonErrorWithValue.  The caller *)
(* waits for a goroutine of its own (here the worker), for a timeout and   *)
(* for its context; the worker of an IPFS URI waits for the race, whose    *)
(* goroutines hand over a value or, all having failed, the pool's error.   *)
(* All channels are unbuffered: a send happens together with its receive,  *)
(* and whoever sends to a call that has returned is left behind.           *)
(*                                                                         *)
(* The clients of the gateways have a timeout; defaultHTTPClient and       *)
(* http.DefaultClient have none, so that a server may never answer, or     *)
(* never send the rest of a body that the caller is reading.               *)
(***************************************************************************)
EXTENDS Naturals, FiniteSets

CONSTANTS
    Gateway,           \* the functions GetResponse passes to the race
    RecurseRawReturns  \* the caller's recurseRawReturns
UriAssumption == Gateway # {} /\ RecurseRawReturns \in BOOLEAN

\* What the worker's switch does with a URI: read it from itself (JSON, SVG and
\* base64 data), one HTTP request (HTTP and Arweave), the race (IPFS and its API),
\* or the race and then the URI's own gateway.
Kind == {"inline", "http", "ipfs", "ipfsAPI", "ipfsGateway"}

VARIABLES
    kind,      \* the kind of the URI of the current call
    again,     \* the call is the recursive one
    ctx,       \* the caller's context: "live" or "done"
    caller,    \* "select", "headers", "copy", or "returned"
    answer,    \* what the call returned
    worker,    \* "start", "http", "race", "sendErr", "sendReader" or "ended"
    reader,    \* where the reader reads from: "none", "memory", "gateway", "server"
    race,      \* "off", "select" or "returned": FirstNonErrorWithValue
    raceCtx,   \* the context the gateways are asked with
    run,       \* Gateway -> "off", "running", "sendVal" or "ended"
    waiter,    \* the goroutine around wp.Wait: "off", "waiting", "sendErr", "ended"
    failed     \* the sources that have answered with an error
vars == <<kind, again, ctx, caller, answer, worker, reader, race, raceCtx, run, waiter, failed>>

Own == "own"   \* the URI itself: a request to it, or its own data

Init ==
    /\ kind \in Kind /\ again = FALSE /\ ctx = "live"
    /\ caller = "select" /\ answer = "none" /\ worker = "start" /\ reader = "none"
    /\ race = "off" /\ raceCtx = "live" /\ run = [g \in Gateway |-> "off"] /\ waiter = "off"
    /\ failed = {}

\* The caller's context ends: a deadline or a cancelled request.
Cancel ==
    /\ ctx = "live" /\ caller # "returned"
    /\ ctx' = "done" /\ raceCtx' = "done"
    /\ UNCHANGED <<kind, again, caller, answer, worker, reader, race, run, waiter, failed>>

----------------------------------------------------------------------------
(* FirstNonErrorWithValue(ctx, false, nil, ...)                            *)

StartRace ==
    /\ worker = "start" /\ kind \in {"ipfs", "ipfsAPI", "ipfsGateway"}
    /\ worker' = "race" /\ race' = "select" /\ waiter' = "waiting"
    /\ run' = [g \in Gateway |-> "running"]
    /\ UNCHANGED <<kind, again, ctx, caller, answer, reader, raceCtx, failed>>

\* Mutant: a value does not keep the pool waiting, as with a buffered channel.
waits_Values == {"running"}

\* wp.Wait returns when no function of the pool runs or still sends its value.
waits == {"running", "sendVal"}

\* External: a gateway answers, well or with an error.
GatewayAnswers(g) ==
    /\ run[g] = "running"
    /\ \/ run' = [run EXCEPT ![g] = "sendVal"] /\ UNCHANGED failed
       \/ run' = [run EXCEPT ![g] = "ended"] /\ failed' = failed \cup {g}
    /\ UNCHANGED <<kind, again, ctx, caller, answer, worker, reader, race, raceCtx, waiter>>

PoolDone ==
    /\ waiter = "waiting" /\ \A g \in Gateway : run[g] \notin waits
    /\ waiter' = "sendErr"
    /\ UNCHANGED <<kind, again, ctx, caller, answer, worker, reader, race, raceCtx, run, failed>>

\* GetResponse's argument: the body is read after the race has returned.
autoCancel == FALSE

\* The race returns, and its deferred cancel runs if it made its own context.
RaceReturns(w) ==
    /\ race = "select"
    /\ race' = "returned" /\ worker' = w
    /\ raceCtx' = IF autoCancel THEN "done" ELSE raceCtx

TakeValue(g) ==
    /\ run[g] = "sendVal"
    /\ RaceReturns("sendReader")
    /\ run' = [run EXCEPT ![g] = "ended"]
    /\ reader' = "gateway"
    /\ UNCHANGED <<kind, again, ctx, caller, answer, waiter, failed>>

\* The worker after a failed race: a gateway URI is fetched from its own gateway.
afterFailure == IF kind = "ipfsGateway" THEN "http" ELSE "sendErr"

TakePoolError ==
    /\ waiter = "sendErr"
    /\ RaceReturns(afterFailure)
    /\ waiter' = "ended"
    /\ UNCHANGED <<kind, again, ctx, caller, answer, reader, run, failed>>

TakeContextError ==
    /\ raceCtx = "done"
    /\ RaceReturns(afterFailure)
    /\ UNCHANGED <<kind, again, ctx, caller, answer, reader, run, waiter, failed>>

----------------------------------------------------------------------------
(* The worker's switch and its sends                                       *)

\* The URI's own data is decoded, or it cannot be.
StartInline ==
    /\ worker = "start" /\ kind = "inline"
    /\ \/ worker' = "sendReader" /\ reader' = "memory" /\ UNCHANGED failed
       \/ worker' = "sendErr" /\ failed' = failed \cup {Own} /\ UNCHANGED reader
    /\ UNCHANGED <<kind, again, ctx, caller, answer, race, raceCtx, run, waiter>>

\* url.Parse refuses the URI of an IPFS API before any gateway is asked.
ParseFails ==
    /\ worker = "start" /\ kind = "ipfsAPI"
    /\ worker' = "sendErr" /\ failed' = failed \cup {Own}
    /\ UNCHANGED <<kind, again, ctx, caller, answer, reader, race, raceCtx, run, waiter>>

StartHTTP ==
    /\ worker = "start" /\ kind = "http"
    /\ worker' = "http"
    /\ UNCHANGED <<kind, again, ctx, caller, answer, reader, race, raceCtx, run, waiter, failed>>

\* External: the server answers, or the request fails.  It may do neither.
HTTPAnswers ==
    /\ worker = "http"
    /\ \/ worker' = "sendReader" /\ reader' = "server" /\ UNCHANGED failed
       \/ worker' = "sendErr" /\ failed' = failed \cup {Own} /\ UNCHANGED reader
    /\ UNCHANGED <<kind, again, ctx, caller, answer, race, raceCtx, run, waiter>>

----------------------------------------------------------------------------
(* The caller                                                              *)

Returns(a) == caller' = "returned" /\ answer' = a

ReceiveError ==
    /\ caller = "select" /\ worker = "sendErr"
    /\ Returns("error") /\ worker' = "ended"
    /\ UNCHANGED <<kind, again, ctx, reader, race, raceCtx, run, waiter, failed>>

ReceiveReader ==
    /\ caller = "select" /\ worker = "sendReader"
    /\ caller' = "headers" /\ worker' = "ended"
    /\ UNCHANGED <<kind, again, ctx, answer, reader, race, raceCtx, run, waiter, failed>>

ContextDone ==
    /\ caller = "select" /\ ctx = "done"
    /\ Returns("context")
    /\ UNCHANGED <<kind, again, ctx, worker, reader, race, raceCtx, run, waiter, failed>>

Timeout ==
    /\ caller = "select"
    /\ Returns("timeout")
    /\ UNCHANGED <<kind, again, ctx, worker, reader, race, raceCtx, run, waiter, failed>>

\* Mutant: the recursive call passes its own argument on.
recurse_Again == RecurseRawReturns

\* The recursive call passes recurseRawReturns = false.
recurse == RecurseRawReturns /\ ~again

\* Headers peeks at the data.  Data that is itself a raw URI is read to its end.
Headers ==
    /\ caller = "headers"
    /\ \/ Returns("reader")
       \/ Returns("unreadable")
       \/ recurse /\ caller' = "copy" /\ UNCHANGED answer
    /\ UNCHANGED <<kind, again, ctx, worker, reader, race, raceCtx, run, waiter, failed>>

\* The copy is made and the call repeated with the data as its URI, or it failed.
Copy ==
    /\ caller = "copy"
    /\ \/ /\ Returns("unreadable")
          /\ UNCHANGED <<kind, again, worker, failed>>
       \/ /\ kind' = "inline" /\ again' = TRUE /\ failed' = {}
          /\ caller' = "select" /\ worker' = "start" /\ UNCHANGED answer
    /\ UNCHANGED <<ctx, reader, race, raceCtx, run, waiter>>

\* Nothing makes the caller go on when it reads from a server that does not send:
\* Headers and Copy are outside the select with the timeout, and only the end of
\* the context ends the request.
ReadsServer == caller \in {"headers", "copy"} /\ reader = "server" /\ ctx = "live"

Caller == ReceiveError \/ ReceiveReader \/ ContextDone \/ Headers \/ Copy

Next ==
    \/ Cancel
    \/ StartRace \/ PoolDone \/ TakePoolError \/ TakeContextError
    \/ \E g \in Gateway : GatewayAnswers(g) \/ TakeValue(g)
    \/ StartInline \/ ParseFails \/ StartHTTP \/ HTTPAnswers
    \/ Caller \/ Timeout

Spec == Init /\ [][Next]_vars

----------------------------------------------------------------------------
\* The places the data could have come from; a URI that does not parse names none.
Sources ==
    CASE kind = "ipfs" -> Gateway
      [] kind = "ipfsAPI" -> IF Own \in failed THEN {Own} ELSE Gateway
      [] kind = "ipfsGateway" -> Gateway \cup {Own}
      [] OTHER -> {Own}

\* One answer is enough: the call reports an error of the data's sources only when
\* every one of them has failed, so a gateway that answers well is never hidden
\* by the failures of the others, however their answers interleave (unless the
\* caller gave up and its context ended the race).
ErrorMeansAllFailed == answer = "error" /\ ctx = "live" => Sources \subseteq failed

\* A reader that is returned can be read: unless the caller ended its own context,
\* the one its request runs under is alive when the caller begins to read.
ReaderIsAlive == answer = "reader" /\ ctx = "live" => raceCtx = "live"

\* What the call answers is no worse than what its sources did.
GoodAnswerWins == ErrorMeansAllFailed /\ ReaderIsAlive

\* The call returns, also when no gateway and no server ever answers and when the
\* data it gets is a raw URI again, unless it reads for ever from a server that
\* does not send the rest, in a context that does not end.
CallReturns == <>(caller = "returned") \/ <>[]ReadsServer
=============================================================================
