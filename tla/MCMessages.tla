----------------------------- MODULE MCMessages -----------------------------
(***************************************************************************)
(* What the system sends to people: notifications and their delivery to    *)
(* subscriptions, the devices that are registered for them, and emails.    *)
(* The models do not interact; part says which of them a behaviour         *)
(* follows, and the variables of the others do not change.                 *)
(***************************************************************************)
EXTENDS Naturals, Sequences, FiniteSets, TLC

CONSTANTS
    User,                                         \* of notifications and emails
    Event, External, Owner, Nobody,               \* Notifications
    Day, Offset, StartTime, MaxTime, MayFail, FailingTime,
    Member, Message, Subscription, OwnerOf, UserOf,   \* Subscriptions
    Device, Caller, NoUser, NoToken, MaxRows,     \* PushTokens
    Address, Request, None,                       \* EmailVerification, Unsubscriptions
    Job, UserCount, EmailsAtATime,                \* Digest
    Notification, ResultLimit                     \* DigestMail

VARIABLES
    part,
    now, events, notifs, lock, pc, local, orderly, lapsed,
    channels, message, forwarder, client, delivered,
    rows, call,
    row, inbox, request, tasks, listed, confirmed,
    record, suppressed, handler, reply, clean,
    eligible, sending, job,
    sender, data, received, stage

viewVars == <<now, events, notifs, lock, pc, local, orderly, lapsed>>
feedVars == <<channels, message, forwarder, client, delivered>>
deviceVars == <<rows, call>>
verifyVars == <<row, inbox, request, tasks, listed, confirmed>>
unsubVars == <<record, suppressed, handler, reply, clean>>
mailingVars == <<eligible, sending, job>>
mailVars == <<sender, data, received, stage>>
vars == <<part, viewVars, feedVars, deviceVars, verifyVars, unsubVars, mailingVars, mailVars>>

Views == INSTANCE Notifications WITH Viewer <- User
\* Views with locks that are not obtained and statements that fail.
FailingViews == INSTANCE Notifications WITH Viewer <- User, MaxTime <- FailingTime, MayFail <- TRUE
Feed == INSTANCE Subscriptions WITH User <- Member
Devices == INSTANCE PushTokens WITH User <- Member, Token <- Device, Call <- Caller
Verification == INSTANCE EmailVerification
Unsubscribing == INSTANCE Unsubscriptions
Mailing == INSTANCE Digest
Mail == INSTANCE DigestMail

ASSUME /\ Views!TimeAssumption /\ FailingViews!TimeAssumption /\ Views!NamesAssumption
       /\ Feed!SubscriptionAssumption /\ Devices!PushTokensAssumption
       /\ Verification!NoneAssumption
       /\ Mailing!DigestAssumption /\ Mail!DigestMailAssumption

Init ==
    /\ part \in {"views", "failing", "feed", "devices", "verification", "unsubscribing",
                 "mailing", "mail"}
    /\ Views!Init /\ Feed!Init /\ Devices!Init /\ Verification!Init /\ Unsubscribing!Init
    /\ Mailing!Init /\ (part # "mailing" => eligible = {})
    /\ Mail!Init

Next ==
    /\ UNCHANGED part
    /\ \/ /\ part = "views" /\ Views!Next
          /\ UNCHANGED <<feedVars, deviceVars, verifyVars, unsubVars, mailingVars, mailVars>>
       \/ /\ part = "failing" /\ FailingViews!Next
          /\ UNCHANGED <<feedVars, deviceVars, verifyVars, unsubVars, mailingVars, mailVars>>
       \/ /\ part = "feed" /\ Feed!Next
          /\ UNCHANGED <<viewVars, deviceVars, verifyVars, unsubVars, mailingVars, mailVars>>
       \/ /\ part = "devices" /\ Devices!Next
          /\ UNCHANGED <<viewVars, feedVars, verifyVars, unsubVars, mailingVars, mailVars>>
       \/ /\ part = "verification" /\ Verification!Next
          /\ UNCHANGED <<viewVars, feedVars, deviceVars, unsubVars, mailingVars, mailVars>>
       \/ /\ part = "unsubscribing" /\ Unsubscribing!Next
          /\ UNCHANGED <<viewVars, feedVars, deviceVars, verifyVars, mailingVars, mailVars>>
       \/ /\ part = "mailing" /\ Mailing!Next
          /\ UNCHANGED <<viewVars, feedVars, deviceVars, verifyVars, unsubVars, mailVars>>
       \/ /\ part = "mail" /\ Mail!Next
          /\ UNCHANGED <<viewVars, feedVars, deviceVars, verifyVars, unsubVars, mailingVars>>

Spec == Init /\ [][Next]_vars

Symmetry ==
    Permutations(Event) \cup Permutations(User) \cup Permutations(Address)

\* Two subscriptions of one user and one of another, and three messages alike.
MCUserOf == "s1" :> "x1" @@ "s2" :> "x1" @@ "s3" :> "x2"
MCOwnerOf == "m1" :> "x1" @@ "m2" :> "x1" @@ "m3" :> "x2"

----------------------------------------------------------------------------
\* Notifications are grouped as the handler's SELECT and its lock allow, in a process
\* of any zone and with failures: rows inserted under the lock are a day apart, and no
\* viewer shows up in two notifications, unless a beginning of a week, as the code
\* computes it, lies between them.
GroupedByWindow == Views!TypeOK /\ Views!GroupedByWindow

\* The amount shown is the number of viewers, but for a row that is as one event
\* inserted it; also when the lock is not obtained and statements fail.
AmountIsViewers == Views!AmountIsViewers

\* A client only gets notifications of the user that subscribed, and each
\* notification reaches one client, whichever channels were replaced meanwhile.
DeliveredToOwner == Feed!TypeOK /\ Feed!DeliveredToOwner

\* A device stops getting a user's notifications only because that user asked for
\* it: DeletePushTokenByPushToken deletes no row of another user, whatever was
\* registered and deleted since it looked the token up.
OnlyOwnerRemoves == Devices!OnlyOwnerRemoves

\* An address is a user's verified one only if that user confirmed it, also when
\* it changes between verifyEmail's read and its statement; and Sendgrid's lists
\* hold only addresses that some user has confirmed.
OnlyConfirmed == Verification!OnlyConfirmed

\* The record of unsubscriptions and Sendgrid's groups agree unless handlers
\* overlapped or a step failed, and a full update alone makes them agree again.
AgreeWhenClean == Unsubscribing!TypeOK /\ Unsubscribing!AgreeWhenClean

\* A digest job handles no user twice and skips nobody who is eligible in all of
\* its queries.  The mail of a user leaves out a notification that could be
\* converted only when it is full, and only then goroutines are left behind.
DigestIsComplete ==
    /\ Mailing!TypeOK /\ Mailing!AtMostOncePerJob /\ Mailing!NobodySkipped
    /\ Mail!FullOrComplete /\ Mail!LeakBound
=============================================================================
