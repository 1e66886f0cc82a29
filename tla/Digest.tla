------------------------------- MODULE Digest -------------------------------
(***************************************************************************)
(* The job that mails every user a digest of notifications                 *)
(* (emails/send.go): the scheduler's request looks for a key in Redis,     *)
(* sets it for an hour, and pages through the users by (created_at, id),   *)
(* running fn on each in a goroutine.  A user is the rank of that pair.    *)
(* Meanwhile users sign up (a row may show up below the cursor, since      *)
(* created_at is taken before the commit), verify, unsubscribe and leave.  *)
(***************************************************************************)
EXTENDS Naturals, FiniteSets, FiniteSetsExt

CONSTANTS Job, UserCount, EmailsAtATime
DigestAssumption == UserCount \in Nat /\ EmailsAtATime \in Nat \ {0}

VARIABLES
    eligible,   \* the users the query finds: verified, not unsubscribed, not deleted
    sending,    \* the Redis key "send-notification-emails" is there
    job         \* each request: its stage, cursor, goroutines, and what it did

vars == <<eligible, sending, job>>

UserKey == 1..UserCount

\* ran and throughout are history: how often fn ran for a user, and the users
\* that were eligible in all of the job's queries so far.
NewJob == [stage |-> "get", cursor |-> 0, running |-> {},
           ran |-> [u \in UserKey |-> 0], throughout |-> {}]

Stages == {"get", "set", "page", "wait", "done", "failed", "refused"}

\* The variables' types: the cursor is a row, and fn does not run three times.
TypeOK ==
    /\ eligible \subseteq UserKey /\ sending \in BOOLEAN
    /\ job \in [Job -> [stage : Stages, cursor : 0..UserCount, running : SUBSET UserKey,
                        ran : [UserKey -> 0..2], throughout : SUBSET UserKey]]

Init ==
    /\ eligible \in SUBSET UserKey
    /\ sending = FALSE
    /\ job = [j \in Job |-> NewJob]

----------------------------------------------------------------------------
(* sendNotificationEmails                                                  *)

\* The key is there: nothing to do.
Refuse(j) ==
    /\ job[j].stage = "get" /\ sending
    /\ job' = [job EXCEPT ![j].stage = "refused"] /\ UNCHANGED <<eligible, sending>>

\* The key is absent, or Get fails: its error is ignored.
Get(j) ==
    /\ job[j].stage = "get"
    /\ job' = [job EXCEPT ![j].stage = "set"] /\ UNCHANGED <<eligible, sending>>

\* Set, whose error is ignored too.
Set(j) ==
    /\ job[j].stage = "set"
    /\ sending' \in {sending, TRUE}
    /\ job' = [job EXCEPT ![j].stage = "page", ![j].throughout = eligible]
    /\ UNCHANGED eligible

----------------------------------------------------------------------------
(* runForUsersWithNotificationsOnForEmailType                              *)

\* The rows behind the cursor.
After(cursor) == {u \in eligible : u > cursor}

\* The query: the first EmailsAtATime of them.
Users(j) ==
    {u \in After(job[j].cursor) :
        Cardinality({v \in After(job[j].cursor) : v < u}) < EmailsAtATime}

\* Mutant: a full page is taken for the last.
LastPage_Full(users) == Cardinality(users) <= EmailsAtATime

LastPage(users) == Cardinality(users) < EmailsAtATime

\* Mutant: lastID and lastCreatedAt are never set.
Cursor_Same(users) == 0

\* lastID, lastCreatedAt.
Cursor(users) == Max(users)

\* A query; fn starts for each user; a short page is the last.
Page(j) ==
    /\ job[j].stage = "page"
    /\ job' = [job EXCEPT ![j].running = @ \cup Users(j),
                          ![j].ran = [u \in UserKey |-> IF u \in Users(j) /\ @[u] < 2
                                                        THEN @[u] + 1 ELSE @[u]],
                          ![j].stage = IF LastPage(Users(j)) THEN "wait" ELSE "page",
                          ![j].cursor = IF LastPage(Users(j)) THEN @ ELSE Cursor(Users(j))]
    /\ UNCHANGED <<eligible, sending>>

\* The query fails: the job returns at once and its goroutines go on.
PageFails(j) ==
    /\ job[j].stage = "page"
    /\ job' = [job EXCEPT ![j].stage = "failed"] /\ UNCHANGED <<eligible, sending>>

\* fn is done with a user: mailed, failed, or no notifications.
Ran(j, u) ==
    /\ u \in job[j].running
    /\ job' = [job EXCEPT ![j].running = @ \ {u}] /\ UNCHANGED <<eligible, sending>>

\* errGroup.Wait returns.
Done(j) ==
    /\ job[j].stage = "wait" /\ job[j].running = {}
    /\ job' = [job EXCEPT ![j].stage = "done"] /\ UNCHANGED <<eligible, sending>>

----------------------------------------------------------------------------
(* The environment                                                         *)

\* The hour is over; the job may still run.
Expire == sending /\ sending' = FALSE /\ UNCHANGED <<eligible, job>>

\* A user signs up, verifies or resubscribes.
Appear(u) ==
    /\ u \notin eligible /\ eligible' = eligible \cup {u} /\ UNCHANGED <<sending, job>>

\* A user unsubscribes or leaves.
Disappear(u) ==
    /\ u \in eligible /\ eligible' = eligible \ {u}
    /\ job' = [j \in Job |-> [job[j] EXCEPT !.throughout =
                                IF job[j].stage = "page" THEN @ \ {u} ELSE @]]
    /\ UNCHANGED sending

Next ==
    \/ Expire
    \/ \E u \in UserKey : Appear(u) \/ Disappear(u) \/ \E j \in Job : Ran(j, u)
    \/ \E j \in Job : Refuse(j) \/ Get(j) \/ Set(j) \/ Page(j) \/ PageFails(j) \/ Done(j)

Spec == Init /\ [][Next]_vars

\* The goroutines and the job's queries make progress; nothing makes a job start.
Progress(j) == Page(j) \/ Done(j) \/ \E u \in UserKey : Ran(j, u)

----------------------------------------------------------------------------
\* One job runs fn at most once for a user, although users come and go and
\* come back between its pages.
AtMostOncePerJob == \A j \in Job, u \in UserKey : job[j].ran[u] <= 1

\* A job that has had its last page has run fn for every user who was
\* eligible in all of its queries: no page skips a user.
NobodySkipped ==
    \A j \in Job : job[j].stage \in {"wait", "done"} =>
        \A u \in job[j].throughout : job[j].ran[u] >= 1

\* A job that has started to page ends, whoever signs up meanwhile.
JobEnds == \A j \in Job : job[j].stage = "page" ~> job[j].stage \in {"done", "failed"}

\* "notification emails already being sent": a request that comes while a job
\* is sending does not send.
OneSender ==
    \A i, j \in Job : job[i].stage \in {"page", "wait"} /\ job[j].stage \in {"page", "wait"} => i = j
=============================================================================
