--------------------------- MODULE Notifications ---------------------------
(***************************************************************************)
(* Events and the notifications made of them (event, service/notifications,*)
(* the notification statements).  Every call of event.Dispatch runs in a   *)
(* goroutine of its own, in any process: it stores the event and hands it  *)
(* to the handler of its action, which takes a lock in Redis for owner and *)
(* action, reads the owner's notifications of this week, and inserts a new *)
(* one or adds the viewer to the youngest, in separate statements.         *)
(*                                                                         *)
(* now counts units of time of which a Day has several; day 0 is a Sunday  *)
(* in Los Angeles, and the process's own zone is Offset units ahead (or    *)
(* behind).  No row is created on the very stroke of midnight.  A handler  *)
(* takes far less than a unit and less than the lock's two minutes.        *)
(*                                                                         *)
(* All views notify one owner, because findOwnerForNotificationFromEvent   *)
(* returns a constant.  Push messages and Pub/Sub are in Subscriptions.    *)
(***************************************************************************)
EXTENDS Integers, Sequences, FiniteSets

CONSTANTS
    Event,      \* calls of event.Dispatch
    Viewer,     \* users that view a split
    External,   \* viewers that are not logged in
    Owner,      \* the user that is notified
    Nobody,     \* no actor, no external viewer; nobody holds the lock
    Day, Offset,
    StartTime, MaxTime,   \* when a behaviour begins and ends
    MayFail     \* whether Redis and the SELECT can fail

TimeAssumption ==
    /\ Day \in Nat \ {0} /\ Offset \in Int /\ MayFail \in BOOLEAN
    /\ StartTime \in Nat /\ MaxTime \in Nat /\ StartTime <= MaxTime
NamesAssumption == Owner \notin Viewer \cup External /\ Nobody \notin Viewer \cup External \cup Event

VARIABLES
    now,
    events,    \* events: the stored ones
    notifs,    \* notifications, in the order of created_at
    lock,      \* Redis: who has the lock of the owner's view notifications
    pc,
    local,     \* each goroutine's event and what it has read
    orderly,   \* history: rows inserted under the lock, after the SELECT succeeded
    lapsed     \* history: a handler went on without the lock or without the rows

vars == <<now, events, notifs, lock, pc, local, orderly, lapsed>>

Action == {"ViewedSplit", "UserCreated", "Announcement"}
\* A view names the user and perhaps an external viewer; an event of another action
\* goes the same way whoever caused it.
Input ==
    [action : {"ViewedSplit"}, actor : Viewer \cup {Owner, Nobody}, external : External \cup {Nobody}]
        \cup [action : Action, actor : {Nobody}, external : {Nobody}]
NoInput == [action |-> "UserCreated", actor |-> Nobody, external |-> Nobody]
\* viewers: those of AuthedViewerIDs and of UnauthedViewerIDs.
Row == [createdAt : Nat, viewers : SUBSET (Viewer \cup External), eventIds : SUBSET Event,
        amount : Nat, seen : BOOLEAN]
NewLocal == [in |-> NoInput, rows |-> [i \in {} |-> {}], read |-> FALSE]
Stage == {"idle", "add", "obtain", "query", "write", "release", "done", "failed"}

TypeOK ==
    /\ now \in 0..MaxTime
    /\ events \subseteq Event
    /\ \A i \in 1..Len(notifs) : notifs[i] \in Row
    /\ lock \in Event \cup {Nobody}
    /\ pc \in [Event -> Stage]
    /\ \A e \in Event : local[e].in \in Input /\ DOMAIN local[e].rows \subseteq 1..Len(notifs)
    /\ orderly \subseteq 1..Len(notifs) /\ lapsed \in BOOLEAN

Init ==
    /\ now = StartTime
    /\ events = {} /\ notifs = <<>>
    /\ lock = Nobody
    /\ pc = [e \in Event |-> "idle"]
    /\ local = [e \in Event |-> NewLocal]
    /\ orderly = {} /\ lapsed = FALSE

Goto(e, stage) == pc' = [pc EXCEPT ![e] = stage]

Tick ==
    /\ now < MaxTime
    /\ \A e \in Event : pc[e] \in {"idle", "done", "failed"}
    /\ now' = now + 1
    /\ UNCHANGED <<events, notifs, lock, pc, local, orderly, lapsed>>

----------------------------------------------------------------------------
(* Events                                                                  *)

\* AddTo: the actions that have a delayed handler; notifications.New: those
\* that have a notification handler.  Nothing has both but views.
Delayed == {"UserFollowedUsers", "ViewedSplit"}
Notified == {"ViewedSplit", "Announcement"}

\* Dispatch starts PushEvent.  dispatchDelayed drops an event without a
\* delayed handler, with a warning, before it is stored.
Dispatch(e, in) ==
    /\ pc[e] = "idle"
    /\ local' = [local EXCEPT ![e].in = in]
    /\ Goto(e, IF in.action \in Delayed THEN "add" ELSE "done")
    /\ UNCHANGED <<now, events, notifs, lock, orderly, lapsed>>

\* handleDelayed: nobody is notified of his own event or of a view without a
\* user.
Notifies(in) == in.actor # Owner /\ in.actor # Nobody /\ in.action \in Notified

AddEvent(e) ==
    /\ pc[e] = "add"
    /\ events' = events \cup {e}
    /\ Goto(e, IF Notifies(local[e].in) THEN "obtain" ELSE "done")
    /\ UNCHANGED <<now, notifs, lock, local, orderly, lapsed>>

\* The INSERT failed: PushEvent reports it, the caller does not learn of it.
AddEventFails(e) ==
    /\ pc[e] = "add"
    /\ Goto(e, "failed")
    /\ UNCHANGED <<now, events, notifs, lock, local, orderly, lapsed>>

----------------------------------------------------------------------------
(* Notifications                                                           *)

Obtain(e) ==
    /\ pc[e] = "obtain" /\ lock = Nobody
    /\ lock' = e
    /\ Goto(e, "query")
    /\ UNCHANGED <<now, events, notifs, local, orderly, lapsed>>

\* Redis fails: Dispatch drops the error and goes on without the lock.
ObtainFails(e) ==
    /\ MayFail /\ pc[e] = "obtain"
    /\ Goto(e, "query")
    /\ lapsed' = TRUE
    /\ UNCHANGED <<now, events, notifs, lock, local, orderly>>

Midnight(t) == (t \div Day) * Day
Weekday(t) == (t \div Day) % 7

\* beginningOfWeek: the date is taken in Los Angeles, the weekday in the
\* process's own zone.
beginningOfWeek(t) == Midnight(t) - Weekday(t + Offset) * Day

\* Mutant: only the last day is read.
ThisWeek_Day(t) == {i \in 1..Len(notifs) : notifs[i].createdAt >= Midnight(t)}

ThisWeek(t) == {i \in 1..Len(notifs) : notifs[i].createdAt >= beginningOfWeek(t)}

\* GetNotificationsByOwnerIDForActionAfter.
Query(e) ==
    /\ pc[e] = "query"
    /\ local' = [local EXCEPT ![e].rows = [i \in ThisWeek(now) |-> notifs[i].viewers],
                              ![e].read = TRUE]
    /\ Goto(e, "write")
    /\ UNCHANGED <<now, events, notifs, lock, orderly, lapsed>>

\* The SELECT failed: Handle drops the error and sees no notifications.
QueryFails(e) ==
    /\ MayFail /\ pc[e] = "query"
    /\ Goto(e, "write")
    /\ lapsed' = TRUE
    /\ UNCHANGED <<now, events, notifs, lock, local, orderly>>

\* The youngest row that was read.
MostRecent(e) == CHOOSE i \in DOMAIN local[e].rows : \A j \in DOMAIN local[e].rows : j <= i

\* The viewers of the event that no row of the week names.
NewViewers(e) ==
    ({local[e].in.actor, local[e].in.external} \ {Nobody})
        \ UNION {local[e].rows[i] : i \in DOMAIN local[e].rows}

\* The youngest notification of the week is younger than viewWindow.
grouped(e) ==
    /\ DOMAIN local[e].rows # {}
    /\ now - notifs[MostRecent(e)].createdAt < Day

\* insertAndPublishNotif: the amount of a new row is 1.
Insert(e) ==
    /\ pc[e] = "write" /\ ~grouped(e)
    /\ notifs' = Append(notifs, [createdAt |-> now, viewers |-> NewViewers(e), eventIds |-> {e},
                                 amount |-> 1, seen |-> FALSE])
    /\ orderly' = IF lock = e /\ local[e].read THEN orderly \cup {Len(notifs')} ELSE orderly
    /\ Goto(e, "release")
    /\ UNCHANGED <<now, events, lock, local, lapsed>>

\* Mutant: the amount counts the updates, as for other actions.
amount_Add(e, viewers) == notifs[MostRecent(e)].amount + 1

amount(e, viewers) == Cardinality(viewers)

\* updateAndPublishNotif: UpdateNotification leaves a row alone that has the
\* new amount already.
Update(e) ==
    LET i == MostRecent(e)
        viewers == local[e].rows[i] \cup NewViewers(e)
        n == amount(e, viewers) IN
    /\ pc[e] = "write" /\ grouped(e)
    /\ notifs' = IF notifs[i].amount = n THEN notifs
                 ELSE [notifs EXCEPT ![i].viewers = viewers, ![i].eventIds = @ \cup {e},
                                     ![i].amount = n, ![i].seen = FALSE]
    /\ Goto(e, "release")
    /\ UNCHANGED <<now, events, lock, local, orderly, lapsed>>

WriteFails(e) ==
    /\ MayFail /\ pc[e] = "write"
    /\ lock' = IF lock = e THEN Nobody ELSE lock
    /\ Goto(e, "failed")
    /\ UNCHANGED <<now, events, notifs, local, orderly, lapsed>>

Release(e) ==
    /\ pc[e] = "release"
    /\ lock' = IF lock = e THEN Nobody ELSE lock
    /\ local' = [local EXCEPT ![e].rows = [i \in {} |-> {}]]
    /\ Goto(e, "done")
    /\ UNCHANGED <<now, events, notifs, orderly, lapsed>>

\* ClearUserNotifications.
Clear ==
    /\ \E i \in 1..Len(notifs) : ~notifs[i].seen
    /\ notifs' = [i \in 1..Len(notifs) |-> [notifs[i] EXCEPT !.seen = TRUE]]
    /\ UNCHANGED <<now, events, lock, pc, local, orderly, lapsed>>

Next ==
    \/ Tick \/ Clear
    \/ \E e \in Event :
        \/ \E in \in Input : Dispatch(e, in)
        \/ AddEvent(e) \/ AddEventFails(e) \/ Obtain(e) \/ ObtainFails(e)
        \/ Query(e) \/ QueryFails(e) \/ Insert(e) \/ Update(e) \/ WriteFails(e) \/ Release(e)

Spec == Init /\ [][Next]_vars

----------------------------------------------------------------------------
\* The week, from Sunday to Saturday in Los Angeles, in which row i was made.
Week(i) == (notifs[i].createdAt \div Day) \div 7

\* The comment of Handle: no viewer shows up in two notifications of one week.
ViewerOncePerWeek ==
    \A i, j \in 1..Len(notifs) :
        i # j /\ Week(i) = Week(j) => notifs[i].viewers \cap notifs[j].viewers = {}

\* What the grouping comes to in a process of any zone.  Two rows that were inserted
\* under the lock after a successful SELECT are a day apart, unless a beginning of a
\* week, as the process takes it, lies between them: whatever other goroutines do that
\* go on without the lock or without the rows.  And until one does, a viewer shows up
\* in two notifications only when such a beginning, at a time of the younger one's
\* window, lies between them.
GroupedByWindow ==
    /\ \A i, j \in orderly :
          i < j /\ notifs[i].createdAt >= beginningOfWeek(notifs[j].createdAt) =>
              notifs[j].createdAt - notifs[i].createdAt >= Day
    /\ ~lapsed =>
          \A i, j \in 1..Len(notifs) :
              i < j /\ notifs[i].viewers \cap notifs[j].viewers # {} =>
                  \E t \in notifs[j].createdAt..(notifs[j].createdAt + Day - 1) :
                      /\ notifs[i].createdAt < beginningOfWeek(t)
                      /\ beginningOfWeek(t) <= notifs[j].createdAt

\* The amount shown is the number of viewers, logged in or not, but for a row that is
\* as one event inserted it.
AmountIsViewers ==
    \A i \in 1..Len(notifs) :
        notifs[i].amount # Cardinality(notifs[i].viewers) =>
            notifs[i].amount = 1 /\ Cardinality(notifs[i].eventIds) = 1

\* Handle's comment on grouping: a view within the window updates the
\* youngest notification, so whoever viewed is in a notification of the week.
ViewerIsShown ==
    \A e \in Event : pc[e] = "done" /\ Notifies(local[e].in) =>
        \E i \in 1..Len(notifs) : local[e].in.actor \in notifs[i].viewers

\* The comment of sendAnnouncementNotification: the event has handlers that
\* notify users.
AnnouncementNotifies ==
    \A e \in Event : pc[e] = "done" /\ local[e].in.action = "Announcement" =>
        \E i \in 1..Len(notifs) : e \in notifs[i].eventIds
=============================================================================
