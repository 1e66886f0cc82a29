-------------------------- MODULE EmailVerification --------------------------
(***************************************************************************)
(* How a user's email address becomes a verified one (publicapi/user.go,   *)
(* emails/verify.go, emails/send.go).  The row of pii.for_users has an     *)
(* unverified or a verified address, never both.  Every handler reads the  *)
(* row, decides, and writes it or calls Sendgrid in a later step; a        *)
(* handler is a record in request.  PiiEmailAddress is the row's address,  *)
(* in whichever column it is.                                              *)
(***************************************************************************)
EXTENDS Naturals

CONSTANTS User, Address, Request, None
NoneAssumption == None \notin Address

VARIABLES
    row,        \* pii.for_users
    inbox,      \* the verification tokens that were mailed: user and address
    request,    \* the handlers under way
    tasks,      \* users with a task for the mailing list
    listed,     \* the addresses on Sendgrid's lists
    confirmed   \* history: who has shown a token or a proof for which address

vars == <<row, inbox, request, tasks, listed, confirmed>>

\* What UpdateUserUnverifiedEmail and UpdateUserVerifiedEmail write.
Unverified(a) == [unverified |-> a, verified |-> None]
Verified(a) == [unverified |-> None, verified |-> a]
Idle == [stage |-> "idle", user |-> None, email |-> None]

\* The variables' types; no row has both a verified and an unverified address,
\* since each statement clears the column of the other.
TypeOK ==
    /\ row \in [User -> [unverified : Address \cup {None}, verified : Address \cup {None}]]
    /\ \A u \in User : row[u].unverified = None \/ row[u].verified = None
    /\ inbox \subseteq User \X Address /\ confirmed \subseteq User \X Address
    /\ request \in [Request -> [stage : {"idle", "send", "write", "list", "task"},
                                user : User \cup {None}, email : Address \cup {None}]]
    /\ tasks \subseteq User /\ listed \subseteq Address

Init ==
    /\ row = [u \in User |-> Unverified(None)]
    /\ request = [r \in Request |-> Idle]
    /\ inbox = {} /\ tasks = {} /\ listed = {} /\ confirmed = {}

Enter(r, stage, u, a) ==
    request' = [request EXCEPT ![r] = [stage |-> stage, user |-> u, email |-> a]]
Answer(r) == request' = [request EXCEPT ![r] = Idle]

\* The unique index on pii_verified_email_address.
Unique(u, a) == \A v \in User \ {u} : row[v].verified # a

PiiEmailAddress(u) ==
    IF row[u].verified # None THEN row[u].verified ELSE row[u].unverified

----------------------------------------------------------------------------
(* The API server                                                          *)

\* UpdateUserEmailWithManualVerification: the statement; the request for the
\* verification mail follows.  A sign-up with an unproved address does the same.
UpdateUserEmailWithManualVerification(r, u, a) ==
    /\ request[r] = Idle
    /\ row' = [row EXCEPT ![u] = Unverified(a)]
    /\ Enter(r, "send", u, None)
    /\ UNCHANGED <<inbox, tasks, listed, confirmed>>

ResendEmailVerification(r, u) ==
    /\ request[r] = Idle /\ Enter(r, "send", u, None)
    /\ UNCHANGED <<row, inbox, tasks, listed, confirmed>>

\* UpdateUserEmailWithAuthenticator: the authenticator proved the address.
UpdateUserEmailWithAuthenticator(u, a) ==
    /\ confirmed' = confirmed \cup {<<u, a>>}
    /\ Unique(u, a) /\ row' = [row EXCEPT ![u] = Verified(a)]
    /\ UNCHANGED <<inbox, request, tasks, listed>>

\* CreateUser with a verified address: the row, then the task, whose failure
\* is only reported.
CreateUser(u, a) ==
    /\ row[u] = Unverified(None) /\ Unique(u, a)
    /\ row' = [row EXCEPT ![u] = Verified(a)]
    /\ confirmed' = confirmed \cup {<<u, a>>}
    /\ tasks' \in {tasks, tasks \cup {u}}
    /\ UNCHANGED <<inbox, request, listed>>

----------------------------------------------------------------------------
(* The emails service                                                      *)

\* sendVerificationEmail: a token for the address the row has now, mailed to it.
sendVerificationEmail(r) ==
    /\ request[r].stage = "send"
    /\ PiiEmailAddress(request[r].user) # None
    /\ inbox' = inbox \cup {<<request[r].user, PiiEmailAddress(request[r].user)>>}
    /\ Answer(r) /\ UNCHANGED <<row, tasks, listed, confirmed>>

\* verifyEmail up to its checks: the token parses, the user has no verified
\* address and the unverified one is the token's.
verifyEmail(r, u, a) ==
    /\ request[r] = Idle /\ <<u, a>> \in inbox
    /\ confirmed' = confirmed \cup {<<u, a>>}
    /\ IF row[u] = Unverified(a)
       THEN Enter(r, "write", u, a) ELSE UNCHANGED request
    /\ UNCHANGED <<row, inbox, tasks, listed>>

\* Mutant: the statement moves whatever address is unverified by now.
verifiedEmail_Current(r) == row[request[r].user].unverified

\* The address that verifyEmail read and that the token proved.
verifiedEmail(r) == request[r].email

\* UpdateUserVerifiedEmail, then the lists; the statement fails on an address
\* that another user has verified.
UpdateUserVerifiedEmail(r) ==
    /\ request[r].stage = "write"
    /\ IF Unique(request[r].user, verifiedEmail(r))
       THEN /\ row' = [row EXCEPT ![request[r].user] = Verified(verifiedEmail(r))]
            /\ Enter(r, "list", request[r].user, verifiedEmail(r))
       ELSE Answer(r) /\ UNCHANGED row
    /\ UNCHANGED <<inbox, tasks, listed, confirmed>>

\* processAddToMailingList takes the verified address only.
Listable(u) == row[u].verified

\* processAddToMailingList up to its check; without a verified address the
\* task is done.
processAddToMailingList(r, u) ==
    /\ request[r] = Idle /\ u \in tasks
    /\ IF Listable(u) = None
       THEN tasks' = tasks \ {u} /\ UNCHANGED request
       ELSE Enter(r, "task", u, Listable(u)) /\ UNCHANGED tasks
    /\ UNCHANGED <<row, inbox, listed, confirmed>>

\* addEmailToSendgridList, for verifyEmail or for a task.
addEmailToSendgridList(r) ==
    /\ request[r].stage \in {"list", "task"}
    /\ listed' = listed \cup {request[r].email}
    /\ tasks' = IF request[r].stage = "task" THEN tasks \ {request[r].user} ELSE tasks
    /\ Answer(r) /\ UNCHANGED <<row, inbox, confirmed>>

\* A call or a statement fails and the handler answers with an error: the
\* queue keeps a task whose handler failed.
Fails(r) ==
    /\ request[r] # Idle /\ Answer(r)
    /\ UNCHANGED <<row, inbox, tasks, listed, confirmed>>

Next ==
    \/ \E u \in User, a \in Address :
        \/ UpdateUserEmailWithAuthenticator(u, a)
        \/ CreateUser(u, a)
        \/ \E r \in Request : \/ UpdateUserEmailWithManualVerification(r, u, a)
                              \/ verifyEmail(r, u, a)
    \/ \E r \in Request :
        \/ \E u \in User : ResendEmailVerification(r, u) \/ processAddToMailingList(r, u)
        \/ sendVerificationEmail(r) \/ UpdateUserVerifiedEmail(r)
        \/ addEmailToSendgridList(r) \/ Fails(r)

Spec == Init /\ [][Next]_vars

----------------------------------------------------------------------------
\* An address is a user's verified one only if that user has shown a token
\* that was mailed to it, or an authenticator's proof: also when the user
\* changes the address between verifyEmail's read and its statement.
VerifiedWasConfirmed ==
    \A u \in User : row[u].verified # None => <<u, row[u].verified>> \in confirmed

\* Sendgrid's lists hold addresses that some user has confirmed, although a
\* task or a verification lists an address the row may not have any more.
ListedWasConfirmed == \A a \in listed : \E u \in User : <<u, a>> \in confirmed

\* Only what was confirmed: the type of the row, the verified addresses and
\* the lists together.
OnlyConfirmed == TypeOK /\ VerifiedWasConfirmed /\ ListedWasConfirmed
=============================================================================
