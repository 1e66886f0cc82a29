--------------------------- MODULE Unsubscriptions ---------------------------
(***************************************************************************)
(* A user's email unsubscriptions (emails/subscriptions.go): the record in *)
(* the users table and the suppression groups at Sendgrid.  A handler      *)
(* computes the new record from the one it read, starts a goroutine for    *)
(* each Sendgrid call, writes the whole record, and waits for the          *)
(* goroutines, whose errors it only logs.  The record is the set of types  *)
(* that are unsubscribed.  service/emails/emails.go is the API server's    *)
(* client of the service.                                                  *)
(***************************************************************************)
EXTENDS Naturals

CONSTANT Request

VARIABLES
    record,     \* users.email_unsubscriptions
    suppressed, \* the groups at Sendgrid that have the user's address
    handler,    \* each request: its stage, its new record and its calls under way
    reply,      \* what the API server's last call of the service was answered
    clean       \* history: no overlap and no error since the two last agreed

vars == <<record, suppressed, handler, reply, clean>>

emailTypes == {"all", "notifications"}

Call == [type : emailTypes, unsubscribe : BOOLEAN]
Idle == [stage |-> "idle", unsubs |-> {}, calls |-> {}]

\* The variables' types; a request that is not being served has no goroutine.
TypeOK ==
    /\ record \subseteq emailTypes /\ suppressed \subseteq emailTypes
    /\ handler \in [Request -> [stage : {"idle", "write", "wait", "answered"},
                                unsubs : SUBSET emailTypes, calls : SUBSET Call]]
    /\ \A r \in Request : handler[r].stage = "idle" => handler[r].calls = {}
    /\ reply \in {"none", "ok", "not found"} /\ clean \in BOOLEAN

Init ==
    /\ record = {} /\ suppressed = {} /\ handler = [r \in Request |-> Idle]
    /\ reply = "none" /\ clean = TRUE

----------------------------------------------------------------------------
(* The handlers                                                            *)

Alone == \A r \in Request : handler[r] = Idle

Start(r, unsubs, calls) ==
    handler' = [handler EXCEPT ![r] = [stage |-> "write", unsubs |-> unsubs, calls |-> calls]]

\* Mutant: the loop skips the notifications group.
updates_AllOnly(unsubs) == {[type |-> "all", unsubscribe |-> "all" \in unsubs]}

\* updateSubscriptions: a call for every type, one way or the other.
updates(unsubs) == {[type |-> t, unsubscribe |-> t \in unsubs] : t \in emailTypes}

updateSubscriptions(r, unsubs) ==
    /\ handler[r] = Idle /\ Start(r, unsubs, updates(unsubs))
    /\ clean' = Alone
    /\ UNCHANGED <<record, suppressed, reply>>

\* unsubscribe and resubscribe: the record as it is now, with the types of the
\* request set or cleared; the token has been checked.
unsubscribe(r, types) ==
    /\ handler[r] = Idle
    /\ Start(r, record \cup types, {[type |-> t, unsubscribe |-> TRUE] : t \in types})
    /\ clean' = (clean /\ Alone)
    /\ UNCHANGED <<record, suppressed, reply>>

resubscribe(r, types) ==
    /\ handler[r] = Idle
    /\ Start(r, record \ types, {[type |-> t, unsubscribe |-> FALSE] : t \in types})
    /\ clean' = (clean /\ Alone)
    /\ UNCHANGED <<record, suppressed, reply>>

\* UpdateUserEmailUnsubscriptions.
UpdateUserEmailUnsubscriptions(r) ==
    /\ handler[r].stage = "write"
    /\ record' = handler[r].unsubs
    /\ handler' = [handler EXCEPT ![r].stage = "wait"]
    /\ UNCHANGED <<suppressed, reply, clean>>

\* The statement fails, or a later type of the request is not supported: the
\* handler answers with an error and its goroutines go on.
AnswerError(r) ==
    /\ handler[r].stage = "write"
    /\ handler' = IF handler[r].calls = {} THEN [handler EXCEPT ![r] = Idle]
                  ELSE [handler EXCEPT ![r].stage = "answered", ![r].unsubs = {}]
    /\ clean' = FALSE
    /\ UNCHANGED <<record, suppressed, reply>>

\* A goroutine's Sendgrid request takes effect or does not; what it reports is
\* logged.  The last one of an answered request ends it.
SendgridCall(r, call) ==
    /\ call \in handler[r].calls
    /\ handler' = IF handler[r].stage = "answered" /\ handler[r].calls = {call}
                  THEN [handler EXCEPT ![r] = Idle]
                  ELSE [handler EXCEPT ![r].calls = @ \ {call}]
    /\ \/ /\ suppressed' = IF call.unsubscribe THEN suppressed \cup {call.type}
                                               ELSE suppressed \ {call.type}
          /\ UNCHANGED clean
       \/ suppressed' = suppressed /\ clean' = FALSE
    /\ UNCHANGED <<record, reply>>

\* errGroup.Wait returns.
Waited(r) == handler[r].calls = {}

AnswerOK(r) ==
    /\ handler[r].stage = "wait" /\ Waited(r)
    /\ handler' = [handler EXCEPT ![r].stage = "idle", ![r].unsubs = {}]
    /\ UNCHANGED <<record, suppressed, reply, clean>>

----------------------------------------------------------------------------
(* The API server's calls                                                  *)

\* The routes of the service.
Routes == {"send/notifications", "send/process/add-to-mailing-list",
           "send/verification", "subscriptions", "unsubscribe", "resubscribe",
           "verify", "preverify", "notifications/send", "notifications/announcement"}

\* The paths that service/emails/emails.go calls: VerifyEmail, PreverifyEmail,
\* UnsubscribeByJWT, UpdateUnsubscriptionsByUserID (the settings of
\* UpdateUserEmailNotificationSettings), RequestVerificationEmail.
ClientPaths == {"verify", "preverify", "unsubscribe", "unsubscriptions", "send/verification"}

\* A call whose path is a route is served; what it does is up to its handler.
ClientCalls(path) ==
    /\ reply' = IF path \in Routes THEN "ok" ELSE "not found"
    /\ UNCHANGED <<record, suppressed, handler, clean>>

Next ==
    \/ \E r \in Request :
        \/ \E types \in SUBSET emailTypes :
            updateSubscriptions(r, types) \/ unsubscribe(r, types) \/ resubscribe(r, types)
        \/ UpdateUserEmailUnsubscriptions(r) \/ AnswerError(r) \/ AnswerOK(r)
        \/ \E call \in Call : SendgridCall(r, call)
    \/ \E path \in ClientPaths : ClientCalls(path)

Spec == Init /\ [][Next]_vars

----------------------------------------------------------------------------
\* When every request is answered, the record and Sendgrid's groups agree,
\* unless handlers overlapped (each writes the whole record as it read it) or
\* a step failed.  A full update that runs alone makes them agree again, in
\* whatever state it finds them.
AgreeWhenClean == Alone /\ clean => record = suppressed

\* A user's update of the email settings updates the unsubscriptions: the
\* call of the service finds a handler.
SettingsAreServed == reply # "not found"
=============================================================================
