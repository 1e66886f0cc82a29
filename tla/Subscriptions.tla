--------------------------- MODULE Subscriptions ---------------------------
(***************************************************************************)
(* How a stored notification reaches a client that subscribed over GraphQL *)
(* (service/notifications receivers, the subscription resolvers).  A       *)
(* process has one unbuffered channel for each user, shared by all of the  *)
(* user's subscriptions; every subscription has a goroutine that takes     *)
(* from the channel and hands on to its client if the client is waiting at *)
(* that moment.  Pub/Sub starts a receiver for each message, which offers  *)
(* it on the channel for notificationTimeout and acknowledges it whatever  *)
(* happens.  New and updated notifications have separate, equal machinery; *)
(* this is one of the two.                                                 *)
(***************************************************************************)
EXTENDS Naturals, FiniteSets

CONSTANTS Message, Subscription, User, OwnerOf, UserOf, None

SubscriptionAssumption ==
    /\ OwnerOf \in [Message -> User] /\ UserOf \in [Subscription -> User]
    /\ None \notin Subscription

VARIABLES
    channels,   \* UserNewNotifications: user -> channel, named by its first subscription
    message,    \* each message: its receiver's stage and the channel it offers it on
    forwarder,  \* each subscription: its goroutine's stage, channel and message
    client,     \* each subscription's client
    delivered   \* history: which messages each client got

vars == <<channels, message, forwarder, client, delivered>>

NoMessage == [stage |-> "published", channel |-> None]
NotSubscribed == [stage |-> "none", channel |-> None, message |-> None]

TypeOK ==
    /\ channels \in [User -> Subscription \cup {None}]
    /\ message \in [Message -> [stage : {"published", "sending", "acked"},
                                channel : Subscription \cup {None}]]
    /\ forwarder \in [Subscription -> [stage : {"none", "range", "forward", "ended"},
                                       channel : Subscription \cup {None},
                                       message : Message \cup {None}]]
    /\ client \in [Subscription -> {"away", "waiting", "busy"}]
    /\ delivered \in [Subscription -> SUBSET Message]

Init ==
    /\ channels = [u \in User |-> None]
    /\ message = [m \in Message |-> NoMessage]
    /\ forwarder = [s \in Subscription |-> NotSubscribed]
    /\ client = [s \in Subscription |-> "away"]
    /\ delivered = [s \in Subscription |-> {}]

----------------------------------------------------------------------------
(* Subscriptions and clients                                               *)

\* Mutant: the map is looked up by the subscription, not by its user.
channelFor_Any(s) ==
    IF \E u \in User : channels[u] # None
    THEN channels[CHOOSE u \in User : channels[u] # None] ELSE s

\* GetNewNotificationsForUser: the user's channel, or a new one.
channelFor(s) == IF channels[UserOf[s]] # None THEN channels[UserOf[s]] ELSE s

\* resolveNewNotificationSubscription.
Subscribe(s) ==
    /\ forwarder[s].stage = "none"
    /\ channels' = [channels EXCEPT ![UserOf[s]] = channelFor(s)]
    /\ forwarder' = [forwarder EXCEPT ![s].stage = "range", ![s].channel = channelFor(s)]
    /\ client' = [client EXCEPT ![s] = "waiting"]
    /\ UNCHANGED <<message, delivered>>

\* The websocket writes a notification, waits for the next, or closes.  The
\* goroutine that fills the subscription is not told.
ClientMoves(s) ==
    /\ forwarder[s].stage # "none"
    /\ \E state \in {"away", "waiting", "busy"} :
        /\ client[s] # "away" /\ state # client[s]
        /\ client' = [client EXCEPT ![s] = state]
    /\ UNCHANGED <<channels, message, forwarder, delivered>>

Unsubscribe(u) == channels' = [channels EXCEPT ![u] = None]

\* The goroutine converts the notification and sends it, unless the client is
\* not waiting: then it is dropped and the user is unsubscribed.
Forward(s) ==
    /\ forwarder[s].stage = "forward"
    /\ IF client[s] = "waiting"
       THEN /\ delivered' = [delivered EXCEPT ![s] = @ \cup {forwarder[s].message}]
            /\ client' = [client EXCEPT ![s] = "busy"]
            /\ UNCHANGED channels
       ELSE Unsubscribe(UserOf[s]) /\ UNCHANGED <<delivered, client>>
    /\ forwarder' = [forwarder EXCEPT ![s].stage = "range", ![s].message = None]
    /\ UNCHANGED message

\* notificationToModel failed: the goroutine ends, the channel stays.
ForwardFails(s) ==
    /\ forwarder[s].stage = "forward"
    /\ forwarder' = [forwarder EXCEPT ![s].stage = "ended", ![s].message = None]
    /\ UNCHANGED <<channels, message, client, delivered>>

----------------------------------------------------------------------------
(* Receivers                                                               *)

\* receiveNewNotificationsFromPubSub: without a channel the message is
\* acknowledged and gone.
Receive(m) ==
    LET c == channels[OwnerOf[m]] IN
    /\ message[m].stage = "published"
    /\ message' = [message EXCEPT ![m].stage = IF c = None THEN "acked" ELSE "sending",
                                  ![m].channel = c]
    /\ UNCHANGED <<channels, forwarder, client, delivered>>

\* sub <- notif meets a goroutine that ranges over the channel.
Offer(m, s) ==
    /\ message[m].stage = "sending" /\ forwarder[s].stage = "range"
    /\ forwarder[s].channel = message[m].channel
    /\ message' = [message EXCEPT ![m].stage = "acked"]
    /\ forwarder' = [forwarder EXCEPT ![s].stage = "forward", ![s].message = m]
    /\ UNCHANGED <<channels, client, delivered>>

\* Mutant: a receiver gives up only when nobody takes from the channel any more.
TimeOut_Ended(m) ==
    /\ message[m].stage = "sending"
    /\ \A s \in Subscription : forwarder[s].channel # message[m].channel
    /\ Unsubscribe(OwnerOf[m])
    /\ message' = [message EXCEPT ![m].stage = "acked"]
    /\ UNCHANGED <<forwarder, client, delivered>>

\* After notificationTimeout the user is unsubscribed.
TimeOut(m) ==
    /\ message[m].stage = "sending"
    /\ Unsubscribe(OwnerOf[m])
    /\ message' = [message EXCEPT ![m].stage = "acked"]
    /\ UNCHANGED <<forwarder, client, delivered>>

Next ==
    \/ \E s \in Subscription :
        Subscribe(s) \/ ClientMoves(s) \/ Forward(s) \/ ForwardFails(s)
    \/ \E m \in Message :
        Receive(m) \/ TimeOut(m) \/ \E s \in Subscription : Offer(m, s)

Spec == Init /\ [][Next]_vars

----------------------------------------------------------------------------
\* A client only gets notifications of the user that subscribed, and each
\* notification reaches one client, whichever channels were replaced meanwhile.
DeliveredToOwner ==
    \A s \in Subscription : \A m \in delivered[s] :
        /\ OwnerOf[m] = UserOf[s]
        /\ \A t \in Subscription \ {s} : m \notin delivered[t]

\* A slow or gone client holds up no receiver: every message is acknowledged.
EveryMessageAcked == \A m \in Message : <>(message[m].stage = "acked")
=============================================================================
