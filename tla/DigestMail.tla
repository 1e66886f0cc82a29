----------------------------- MODULE DigestMail -----------------------------
(***************************************************************************)
(* sendNotificationEmailToUser of emails/send.go for one user: a goroutine *)
(* for each recent notification turns it into template data and sends the  *)
(* data or its error on an unbuffered channel; the handler receives one of *)
(* them for each notification, or stops early at ResultLimit.              *)
(***************************************************************************)
EXTENDS Naturals, FiniteSets

CONSTANTS Notification, ResultLimit
DigestMailAssumption ==
    IsFiniteSet(Notification) /\ ResultLimit \in Nat \ {0}

VARIABLES
    sender,     \* each notification's goroutine: the channel it is blocked on, or ended
    data,       \* data.Notifications
    received,   \* i, the turns of the loop
    stage       \* where the handler is

vars == <<sender, data, received, stage>>

Init ==
    /\ sender = [n \in Notification |-> "working"]
    /\ data = {} /\ received = 0 /\ stage = "collect"

----------------------------------------------------------------------------
\* NotificationToUserFacingData fails or succeeds.
Converted == {"errChan", "notifTemplates"}

Convert(n) ==
    /\ sender[n] = "working"
    /\ \E channel \in Converted : sender' = [sender EXCEPT ![n] = channel]
    /\ UNCHANGED <<data, received, stage>>

More == stage = "collect" /\ received < Cardinality(Notification)

ReceiveError(n) ==
    /\ More /\ sender[n] = "errChan"
    /\ sender' = [sender EXCEPT ![n] = "ended"]
    /\ received' = received + 1 /\ UNCHANGED <<data, stage>>

Full(templates) == Cardinality(templates) >= ResultLimit

ReceiveTemplate(n) ==
    /\ More /\ sender[n] = "notifTemplates"
    /\ sender' = [sender EXCEPT ![n] = "ended"]
    /\ data' = data \cup {n}
    /\ received' = received + 1
    /\ stage' = IF Full(data') THEN "send" ELSE stage

\* The loop ends by its count.
Collected ==
    /\ stage = "collect" /\ ~More
    /\ stage' = IF data = {} THEN "nothing" ELSE "send"
    /\ UNCHANGED <<sender, data, received>>

\* The mail is sent (or, outside of production, logged), or Sendgrid fails.
Send ==
    /\ stage = "send" /\ stage' \in {"mailed", "failed"}
    /\ UNCHANGED <<sender, data, received>>

Next ==
    \/ Collected \/ Send
    \/ \E n \in Notification : Convert(n) \/ ReceiveError(n) \/ ReceiveTemplate(n)

Spec == Init /\ [][Next]_vars

----------------------------------------------------------------------------
Returned == stage \in {"mailed", "failed", "nothing"}

\* The handler only waits while there is a goroutine that has not sent.
SomebodySends == More => \E n \in Notification : sender[n] # "ended"

\* The handler does not wait for a goroutine that will never send: it returns.
Returns == <>Returned

\* The mail has at most ResultLimit notifications, and it leaves out one that
\* could be converted only when it is full.
FullOrComplete ==
    stage # "collect" =>
        /\ Cardinality(data) <= ResultLimit
        /\ Full(data) \/ \A n \in Notification : sender[n] = "ended"

\* Goroutines that have not been heard when the handler returns block for
\* ever; there are none unless the mail is full, and then at most the
\* notifications beyond ResultLimit.
LeakBound ==
    Returned => Cardinality({n \in Notification : sender[n] # "ended"})
                    <= IF Cardinality(data) < ResultLimit THEN 0
                       ELSE Cardinality(Notification) - ResultLimit
=============================================================================
