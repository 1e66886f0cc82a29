------------------------------ MODULE Session ------------------------------
(***************************************************************************)
(* Login sessions of the API server (service/auth).  A client holds two    *)
(* cookies: a short-lived auth token that carries the user's roles and is  *)
(* believed without a database access, and a long-lived refresh token that *)
(* names a row of the sessions table.  Every request runs ContinueSession  *)
(* before its resolver.  What a token says may go out of date (a logout, a *)
(* change of roles): ForceAuthTokenRefresh then writes a time to Redis and *)
(* auth tokens issued before that time are no longer believed.             *)
(*                                                                         *)
(* Requests interleave at every call to Postgres or Redis.  Time is in     *)
(* seconds, as the tokens and Redis store it, and one clock serves all     *)
(* servers.  Refresh token IDs are written to the row and never read, so   *)
(* they are left out.                                                      *)
(*                                                                         *)
(* CreateUser starts the session of a new user in the transaction that     *)
(* inserts the user, and context and cookies are set before it commits.    *)
(***************************************************************************)
EXTENDS Naturals, FiniteSets

CONSTANTS
    Request,      \* requests the servers are working on at one time
    Client,       \* cookie jars
    User,
    SessionID,    \* IDs that persist.GenerateID can return for sessions
    Role,
    NoSession,    \* the empty session ID
    NoUser,       \* the empty user ID
    NoToken,      \* an empty or missing cookie
    AuthTTL,      \* AUTH_JWT_TTL
    RefreshTTL,   \* REFRESH_JWT_TTL
    Wiggle,       \* the extra minute of ForceAuthTokenRefresh
    MaxTime,      \* bound on the clock
    Faults        \* whether calls to Postgres and Redis may fail

ASSUME TTLAssumption == /\ AuthTTL \in Nat \ {0} /\ RefreshTTL \in Nat
                        /\ Wiggle \in Nat /\ MaxTime \in Nat
ASSUME FaultsAssumption == Faults \in BOOLEAN
ASSUME NoneAssumption == NoSession \notin SessionID /\ NoUser \notin User

VARIABLES
    now,              \* time.Now(), in seconds
    users,            \* users: those whose transaction has committed
    roles,            \* user_roles: user -> roles
    sessions,         \* sessions: session ID -> row, committed or not
    authRefreshCache, \* Redis: user -> time before which tokens are refreshed
    jar,              \* the cookies each client holds
    pc,               \* where each request is
    client,           \* the client that sent it
    cookies,          \* the cookies it carries
    parsedAt,         \* when its auth token was found valid, until it is checked
    ctx,              \* the session state of its gin context
    issue,            \* the locals of issueSessionTokens
    force,            \* the locals of ForceAuthTokenRefresh and its caller
    reply,            \* the Set-Cookie headers of its response
    lastForced,       \* history: the latest time stored for each user
    loggedOut         \* history: session -> force time of a completed logout

storeVars == <<users, roles, sessions, authRefreshCache>>
historyVars == <<lastForced, loggedOut>>
vars == <<now, storeVars, jar, pc, client, cookies, parsedAt, ctx, issue, force, reply, historyVars>>

----------------------------------------------------------------------------
\* AuthTokenClaims; a token from before session IDs has NoSession.  It expires
\* AuthTTL after it was issued.
AuthToken == [user : User, session : SessionID \cup {NoSession}, roles : SUBSET Role, iat : Nat]
RefreshToken == [user : User, session : SessionID, exp : Nat]
Cookies == [auth : AuthToken \cup {NoToken}, refresh : RefreshToken \cup {NoToken}]
NoCookies == [auth |-> NoToken, refresh |-> NoToken]

validAuth(t) == t # NoToken /\ now < t.iat + AuthTTL
validRefresh(t) == t # NoToken /\ now < t.exp

\* The keys ContinueSession and its callees put in the gin context.
Ctx == [authed : BOOLEAN, user : User \cup {NoUser}, session : SessionID \cup {NoSession},
        roles : SUBSET Role]
clearSessionState == [authed |-> FALSE, user |-> NoUser, session |-> NoSession, roles |-> {}]
setSessionState(u, s, rs) == [authed |-> TRUE, user |-> u, session |-> s, roles |-> rs]

\* No Set-Cookie header, or one for each cookie; an empty one deletes.
Reply == [set : BOOLEAN, cookies : Cookies]
KeepCookies == [set |-> FALSE, cookies |-> NoCookies]
clearSessionCookies == [set |-> TRUE, cookies |-> NoCookies]
setSessionCookies(a, t) == [set |-> TRUE, cookies |-> [auth |-> a, refresh |-> t]]

\* issueSessionTokens: its arguments, whether StartSession called it, and where
\* the request goes on.
IssueLocals == [user : User \cup {NoUser}, session : SessionID \cup {NoSession}, start : BOOLEAN,
          then : {"resolve", "respond", "commit"}, roles : SUBSET Role, refreshExp : Nat, iat : Nat]
NoIssue == [user |-> NoUser, session |-> NoSession, start |-> FALSE, then |-> "respond",
            roles |-> {}, refreshExp |-> 0, iat |-> 0]

\* ForceAuthTokenRefresh: its argument, whether EndSession called it, after an
\* InvalidateSession that succeeded, and the time it read.
ForceLocals == [user : User \cup {NoUser}, logout : BOOLEAN, invalidated : BOOLEAN, time : Nat]
NoForce == [user |-> NoUser, logout |-> FALSE, invalidated |-> FALSE, time |-> 0]

\* A row is seen by the transaction that wrote it, and by others when that one has
\* committed; the ID of a row that was rolled back is never generated again.
Row == [user : User, invalidated : BOOLEAN, txn : {"open", "committed", "rolledBack"}]
Stage == {"idle", "continue", "check", "refresh", "roles", "generate", "upsert",
          "commit", "resolve", "force", "setTime", "respond"}

----------------------------------------------------------------------------
\* Clients have no cookies, or an auth token from before session IDs.
Init ==
    /\ now = 0
    /\ users \in SUBSET User
    /\ roles = [u \in User |-> {}]
    /\ sessions = [s \in {} |-> [user |-> NoUser, invalidated |-> FALSE, txn |-> "open"]]
    /\ authRefreshCache = [u \in {} |-> [time |-> 0, expires |-> 0]]
    /\ jar \in [Client -> {NoCookies} \cup
                 {[auth |-> [user |-> u, session |-> NoSession, roles |-> {}, iat |-> 0],
                   refresh |-> NoToken] : u \in users}]
    /\ pc = [r \in Request |-> "idle"]
    /\ client \in [Request -> Client]
    /\ cookies = [r \in Request |-> NoCookies]
    /\ parsedAt = [r \in Request |-> 0]
    /\ ctx = [r \in Request |-> clearSessionState]
    /\ issue = [r \in Request |-> NoIssue]
    /\ force = [r \in Request |-> NoForce]
    /\ reply = [r \in Request |-> KeepCookies]
    /\ lastForced = [u \in User |-> 0]
    /\ loggedOut = [s \in {} |-> 0]

Goto(r, stage) == pc' = [pc EXCEPT ![r] = stage]

\* External: a second passes, and Redis drops the keys that expire.  The minute of
\* wiggle room is there for servers that are slow: it bounds how long a server
\* takes from reading an auth token to looking up the time in Redis.
Tick ==
    /\ now < MaxTime
    /\ \A r \in Request : pc[r] = "check" => now < parsedAt[r] + Wiggle
    /\ now' = now + 1
    /\ authRefreshCache' = [u \in {v \in DOMAIN authRefreshCache :
                                      now' < authRefreshCache[v].expires} |-> authRefreshCache[u]]
    /\ UNCHANGED <<users, roles, sessions, jar, pc, client, cookies, parsedAt, ctx, issue, force, reply, historyVars>>

\* External: a client sends a request with the cookies it holds.
SendRequest(r, c) ==
    /\ pc[r] = "idle"
    /\ client' = [client EXCEPT ![r] = c]
    /\ cookies' = [cookies EXCEPT ![r] = jar[c]]
    /\ Goto(r, "continue")
    /\ UNCHANGED <<now, storeVars, jar, parsedAt, ctx, issue, force, reply, historyVars>>

\* persist.GenerateID: no session has the ID, nor is one being started with it.
FreshSessionID ==
    SessionID \ (DOMAIN sessions \cup {issue[r].session : r \in Request})

\* The same for users; no row of a session has the ID either.
FreshUserID ==
    User \ (users \cup {sessions[s].user : s \in DOMAIN sessions}
                  \cup {issue[r].user : r \in Request})

\* StartSession and ContinueSession call issueSessionTokens.
BeginIssue(r, u, s, start, then) ==
    /\ issue' = [issue EXCEPT ![r] = [NoIssue EXCEPT !.user = u, !.session = s,
                                                     !.start = start, !.then = then]]
    /\ Goto(r, "roles")

----------------------------------------------------------------------------
(* ContinueSession                                                         *)

\* The auth token is valid but has no session ID: start a session for its user.
ContinueWithoutSession(r) ==
    /\ pc[r] = "continue"
    /\ validAuth(cookies[r].auth)
    /\ cookies[r].auth.session = NoSession
    /\ \E s \in FreshSessionID : BeginIssue(r, cookies[r].auth.user, s, TRUE, "resolve")
    /\ UNCHANGED <<now, storeVars, jar, client, cookies, parsedAt, ctx, force, reply, historyVars>>

\* The auth token is valid: is it forced to refresh?
ParseAuthToken(r) ==
    /\ pc[r] = "continue"
    /\ validAuth(cookies[r].auth)
    /\ cookies[r].auth.session # NoSession
    /\ parsedAt' = [parsedAt EXCEPT ![r] = now]
    /\ Goto(r, "check")
    /\ UNCHANGED <<now, storeVars, jar, client, cookies, ctx, issue, force, reply, historyVars>>

\* There is no auth token, or an expired one.
RejectAuthToken(r) ==
    /\ pc[r] = "continue"
    /\ ~validAuth(cookies[r].auth)
    /\ Goto(r, "refresh")
    /\ UNCHANGED <<now, storeVars, jar, client, cookies, parsedAt, ctx, issue, force, reply, historyVars>>

\* mustRefreshAuthToken, when Redis answers.
mustRefresh(t) ==
    t.user \in DOMAIN authRefreshCache /\ t.iat < authRefreshCache[t.user].time

\* The auth token need not be refreshed: believe what it says.
AcceptAuthToken(r) ==
    LET t == cookies[r].auth
    IN  /\ pc[r] = "check"
        /\ ~mustRefresh(t)
        /\ ctx' = [ctx EXCEPT ![r] = setSessionState(t.user, t.session, t.roles)]
        /\ parsedAt' = [parsedAt EXCEPT ![r] = 0]
        /\ Goto(r, "resolve")
        /\ UNCHANGED <<now, storeVars, jar, client, cookies, issue, force, reply, historyVars>>

\* It must be refreshed, or Redis cannot be reached.
RefreshAuthToken(r) ==
    /\ pc[r] = "check"
    /\ Faults \/ mustRefresh(cookies[r].auth)
    /\ parsedAt' = [parsedAt EXCEPT ![r] = 0]
    /\ Goto(r, "refresh")
    /\ UNCHANGED <<now, storeVars, jar, client, cookies, ctx, issue, force, reply, historyVars>>

\* No valid refresh token: the request is not authenticated, and the cookies go
\* unless there were none.
RejectRefreshToken(r) ==
    /\ pc[r] = "refresh"
    /\ ~validRefresh(cookies[r].refresh)
    /\ ctx' = [ctx EXCEPT ![r] = clearSessionState]
    /\ reply' = [reply EXCEPT ![r] = IF cookies[r] = NoCookies THEN @ ELSE clearSessionCookies]
    /\ Goto(r, "resolve")
    /\ UNCHANGED <<now, storeVars, jar, client, cookies, parsedAt, issue, force, historyVars>>

\* A valid refresh token: new tokens for its session.
AcceptRefreshToken(r) ==
    LET t == cookies[r].refresh
    IN  /\ pc[r] = "refresh"
        /\ validRefresh(t)
        /\ BeginIssue(r, t.user, t.session, FALSE, "resolve")
        /\ UNCHANGED <<now, storeVars, jar, client, cookies, parsedAt, ctx, force, reply, historyVars>>

----------------------------------------------------------------------------
(* issueSessionTokens                                                      *)

\* An error: StartSession clears context and cookies, ContinueSession clears the
\* cookies only if the session has been invalidated.  CreateUser then rolls back.
IssueFailed(r, invalidated) ==
    /\ ctx' = [ctx EXCEPT ![r] = clearSessionState]
    /\ reply' = [reply EXCEPT ![r] =
                    IF issue[r].start \/ invalidated THEN clearSessionCookies ELSE @]
    /\ issue' = [issue EXCEPT ![r] = NoIssue]
    /\ Goto(r, IF issue[r].then = "resolve" THEN "resolve" ELSE "respond")

\* GenerateRefreshToken stamps the expiry, then RolesByUserID reads the roles.
ReadRoles(r) ==
    /\ pc[r] = "roles"
    /\ issue' = [issue EXCEPT ![r].roles = roles[issue[r].user],
                              ![r].refreshExp = now + RefreshTTL]
    /\ Goto(r, "generate")
    /\ UNCHANGED <<now, storeVars, jar, client, cookies, parsedAt, ctx, force, reply, historyVars>>

ReadRolesFails(r) ==
    /\ Faults
    /\ pc[r] = "roles"
    /\ IssueFailed(r, FALSE)
    /\ UNCHANGED <<now, storeVars, jar, client, cookies, parsedAt, force, historyVars>>

\* GenerateAuthToken stamps the time of issue.
GenerateAuthToken(r) ==
    /\ pc[r] = "generate"
    /\ issue' = [issue EXCEPT ![r].iat = now]
    /\ Goto(r, "upsert")
    /\ UNCHANGED <<now, storeVars, jar, client, cookies, parsedAt, ctx, force, reply, historyVars>>

NewRow(u, txn) == [user |-> u, invalidated |-> FALSE, txn |-> txn]

\* Mutant: the row that is there is made active again.
upsert_Revive(s, u, txn) ==
    [x \in DOMAIN sessions \cup {s} |-> IF x = s THEN NewRow(u, txn) ELSE sessions[x]]

\* The sessions table after UpsertSession: a row that is there keeps its user and
\* its invalidated flag.
upsert(s, u, txn) ==
    IF s \in DOMAIN sessions THEN sessions
    ELSE [x \in DOMAIN sessions \cup {s} |-> IF x = s THEN NewRow(u, txn) ELSE sessions[x]]

\* CreateUser's statement is part of its transaction and sees the user it inserted;
\* any other is a transaction of its own, and the foreign key wants a user.
InCreateUser(r) == issue[r].then = "commit"
UserExists(r) == InCreateUser(r) \/ issue[r].user \in users
Upsert(r) ==
    sessions' = upsert(issue[r].session, issue[r].user, IF InCreateUser(r) THEN "open" ELSE "committed")

\* UpsertSession, then context state and cookies.
UpsertSession(r) ==
    LET i == issue[r]
        auth == [user |-> i.user, session |-> i.session, roles |-> i.roles, iat |-> i.iat]
        refresh == [user |-> i.user, session |-> i.session, exp |-> i.refreshExp]
    IN  /\ pc[r] = "upsert"
        /\ UserExists(r)
        /\ Upsert(r)
        /\ ~sessions'[i.session].invalidated
        /\ ctx' = [ctx EXCEPT ![r] = setSessionState(i.user, i.session, i.roles)]
        /\ reply' = [reply EXCEPT ![r] = setSessionCookies(auth, refresh)]
        /\ issue' = [issue EXCEPT ![r] = NoIssue]
        /\ Goto(r, i.then)
        /\ UNCHANGED <<now, users, roles, authRefreshCache, jar, client, cookies, parsedAt, force, historyVars>>

\* ErrSessionInvalidated: the row UpsertSession returned is invalidated.
UpsertInvalidated(r) ==
    /\ pc[r] = "upsert"
    /\ UserExists(r)
    /\ Upsert(r)
    /\ sessions'[issue[r].session].invalidated
    /\ IssueFailed(r, TRUE)
    /\ UNCHANGED <<now, users, roles, authRefreshCache, jar, client, cookies, parsedAt, force, historyVars>>

\* Mutant: the error of UpsertSession is only logged.
UpsertFails_Ignored(r) ==
    LET i == issue[r]
    IN  /\ pc[r] = "upsert"
        /\ Faults \/ ~UserExists(r)
        /\ ctx' = [ctx EXCEPT ![r] = setSessionState(i.user, i.session, i.roles)]
        /\ reply' = [reply EXCEPT ![r] =
              setSessionCookies([user |-> i.user, session |-> i.session, roles |-> i.roles, iat |-> i.iat],
                                [user |-> i.user, session |-> i.session, exp |-> i.refreshExp])]
        /\ issue' = [issue EXCEPT ![r] = NoIssue]
        /\ Goto(r, i.then)
        /\ UNCHANGED <<now, storeVars, jar, client, cookies, parsedAt, force, historyVars>>

\* The call fails, or there is no such user: its creation was rolled back.
UpsertFails(r) ==
    /\ pc[r] = "upsert"
    /\ Faults \/ ~UserExists(r)
    /\ IssueFailed(r, FALSE)
    /\ UNCHANGED <<now, storeVars, jar, client, cookies, parsedAt, force, historyVars>>

----------------------------------------------------------------------------
(* Resolvers                                                               *)

\* A resolver that leaves the session alone, or one that needs a user and has none.
Query(r) ==
    /\ pc[r] = "resolve"
    /\ Goto(r, "respond")
    /\ UNCHANGED <<now, storeVars, jar, client, cookies, parsedAt, ctx, issue, force, reply, historyVars>>

\* Login as another user than the one the request is authenticated as, or as
\* anyone when it is not: start a session.
Login(r, u) ==
    /\ pc[r] = "resolve"
    /\ u \in users
    /\ ~ctx[r].authed \/ ctx[r].user # u
    /\ \E s \in FreshSessionID : BeginIssue(r, u, s, TRUE, "respond")
    /\ UNCHANGED <<now, storeVars, jar, client, cookies, parsedAt, ctx, force, reply, historyVars>>

\* CreateUser: a transaction inserts a user and starts a session.
CreateUser(r) ==
    /\ pc[r] = "resolve"
    /\ \E u \in FreshUserID, s \in FreshSessionID : BeginIssue(r, u, s, TRUE, "commit")
    /\ UNCHANGED <<now, storeVars, jar, client, cookies, parsedAt, ctx, force, reply, historyVars>>

\* The transaction ends, and its user and the row of its session with it.
EndTransaction(r, txn) == sessions' = [sessions EXCEPT ![ctx[r].session].txn = txn]

\* Its commit; the answer may still be an error.
Commit(r) ==
    /\ pc[r] = "commit"
    /\ users' = users \cup {ctx[r].user}
    /\ EndTransaction(r, "committed")
    /\ Goto(r, "respond")
    /\ UNCHANGED <<now, roles, authRefreshCache, jar, client, cookies, parsedAt, ctx, issue, force, reply, historyVars>>

\* The commit fails: user and session are gone, context and cookies stay.
CommitFails(r) ==
    /\ Faults
    /\ pc[r] = "commit"
    /\ EndTransaction(r, "rolledBack")
    /\ Goto(r, "respond")
    /\ UNCHANGED <<now, users, roles, authRefreshCache, jar, client, cookies, parsedAt, ctx, issue, force, reply, historyVars>>

BeginForce(r, u, logout, invalidated) ==
    /\ force' = [force EXCEPT ![r] = [NoForce EXCEPT !.user = u, !.logout = logout,
                                                     !.invalidated = invalidated]]
    /\ Goto(r, "force")

\* EndSession without a user: only context and cookies.
LogoutNobody(r) ==
    /\ pc[r] = "resolve"
    /\ ~ctx[r].authed
    /\ ctx' = [ctx EXCEPT ![r] = clearSessionState]
    /\ reply' = [reply EXCEPT ![r] = clearSessionCookies]
    /\ Goto(r, "respond")
    /\ UNCHANGED <<now, storeVars, jar, client, cookies, parsedAt, issue, force, historyVars>>

\* EndSession: InvalidateSession, whose failure is only logged and which finds no
\* row of a session that was rolled back.
Logout(r) ==
    LET s == ctx[r].session
    IN  /\ pc[r] = "resolve"
        /\ ctx[r].authed
        /\ sessions' = [x \in DOMAIN sessions |->
                           IF x = s /\ sessions[x].txn = "committed"
                           THEN [sessions[x] EXCEPT !.invalidated = TRUE] ELSE sessions[x]]
        /\ BeginForce(r, ctx[r].user, TRUE, TRUE)
        /\ UNCHANGED <<now, users, roles, authRefreshCache, jar, client, cookies, parsedAt, ctx, issue, reply, historyVars>>

InvalidateFails(r) ==
    /\ Faults
    /\ pc[r] = "resolve"
    /\ ctx[r].authed
    /\ BeginForce(r, ctx[r].user, TRUE, FALSE)
    /\ UNCHANGED <<now, storeVars, jar, client, cookies, parsedAt, ctx, issue, reply, historyVars>>

\* OptInForRoles and OptOutForRoles; when the statement fails, as it does for a user
\* who does not exist, so does the resolver.
OptInForRoles(r) ==
    LET u == ctx[r].user
    IN  /\ pc[r] = "resolve"
        /\ ctx[r].authed
        /\ u \in users
        /\ \E rs \in SUBSET Role \ {{}} : roles' = [roles EXCEPT ![u] = @ \cup rs]
        /\ BeginForce(r, u, FALSE, FALSE)
        /\ UNCHANGED <<now, users, sessions, authRefreshCache, jar, client, cookies, parsedAt, ctx, issue, reply, historyVars>>

OptOutForRoles(r) ==
    LET u == ctx[r].user
    IN  /\ pc[r] = "resolve"
        /\ ctx[r].authed
        /\ \E rs \in SUBSET Role \ {{}} : roles' = [roles EXCEPT ![u] = @ \ rs]
        /\ BeginForce(r, u, FALSE, FALSE)
        /\ UNCHANGED <<now, users, sessions, authRefreshCache, jar, client, cookies, parsedAt, ctx, issue, reply, historyVars>>

\* AddRolesToUser and RemoveRolesFromUser of the admin API: a request without
\* session cookies, for any user.
SetRolesOfUser(r, u) ==
    /\ pc[r] = "idle"
    /\ u \in users
    /\ \E rs \in SUBSET Role \ {{}} : roles' = [roles EXCEPT ![u] = @ \cup rs]
                                   \/ roles' = [roles EXCEPT ![u] = @ \ rs]
    /\ BeginForce(r, u, FALSE, FALSE)
    /\ UNCHANGED <<now, users, sessions, authRefreshCache, jar, client, cookies, parsedAt, ctx, issue, reply, historyVars>>

----------------------------------------------------------------------------
(* ForceAuthTokenRefresh                                                   *)

\* It reads the clock ...
ReadForceTime(r) ==
    /\ pc[r] = "force"
    /\ force' = [force EXCEPT ![r].time = now]
    /\ Goto(r, "setTime")
    /\ UNCHANGED <<now, storeVars, jar, client, cookies, parsedAt, ctx, issue, reply, historyVars>>

\* Its caller: EndSession then clears context and cookies.
AfterForce(r) ==
    /\ IF force[r].logout
       THEN /\ ctx' = [ctx EXCEPT ![r] = clearSessionState]
            /\ reply' = [reply EXCEPT ![r] = clearSessionCookies]
       ELSE UNCHANGED <<ctx, reply>>
    /\ Goto(r, "respond")

\* Mutant: the key does not outlive the tokens it is about by the extra minute.
expiration_NoWiggle(t) == t + AuthTTL

expiration(t) == t + AuthTTL + Wiggle

\* The script of SetTime: the later time wins; a key whose expiry has passed is
\* gone at once.
setTime(u, t) ==
    IF u \in DOMAIN authRefreshCache /\ authRefreshCache[u].time >= t
    THEN authRefreshCache
    ELSE IF now < expiration(t)
         THEN [x \in DOMAIN authRefreshCache \cup {u} |->
                  IF x = u THEN [time |-> t, expires |-> expiration(t)] ELSE authRefreshCache[x]]
         ELSE [x \in DOMAIN authRefreshCache \ {u} |-> authRefreshCache[x]]

\* ... and runs the script.
SetTime(r) ==
    LET f == force[r]
        s == ctx[r].session
    IN  /\ pc[r] = "setTime"
        /\ authRefreshCache' = setTime(f.user, f.time)
        /\ lastForced' = [lastForced EXCEPT ![f.user] = IF @ < f.time THEN f.time ELSE @]
        /\ loggedOut' = IF f.invalidated /\ s \notin DOMAIN loggedOut
                        THEN [x \in DOMAIN loggedOut \cup {s} |->
                                 IF x = s THEN f.time ELSE loggedOut[x]]
                        ELSE loggedOut
        /\ AfterForce(r)
        /\ force' = [force EXCEPT ![r] = NoForce]
        /\ UNCHANGED <<now, users, roles, sessions, jar, client, cookies, parsedAt, issue>>

\* The failure is only logged.
SetTimeFails(r) ==
    /\ Faults
    /\ pc[r] = "setTime"
    /\ AfterForce(r)
    /\ force' = [force EXCEPT ![r] = NoForce]
    /\ UNCHANGED <<now, storeVars, jar, client, cookies, parsedAt, issue, historyVars>>

----------------------------------------------------------------------------
\* The request is over: nothing of it is left on the server.
Finish(r) ==
    /\ Goto(r, "idle")
    /\ cookies' = [cookies EXCEPT ![r] = NoCookies]
    /\ ctx' = [ctx EXCEPT ![r] = clearSessionState]
    /\ reply' = [reply EXCEPT ![r] = KeepCookies]
    /\ UNCHANGED <<now, storeVars, client, parsedAt, issue, force, historyVars>>

\* External: the client stores the cookies of the response.  Responses to one
\* client arrive in any order.
Deliver(r) ==
    /\ pc[r] = "respond"
    /\ jar' = IF reply[r].set THEN [jar EXCEPT ![client[r]] = reply[r].cookies] ELSE jar
    /\ Finish(r)

\* External: the response is lost.
Lose(r) ==
    /\ Faults
    /\ pc[r] = "respond"
    /\ UNCHANGED jar
    /\ Finish(r)

ContinueSession(r) ==
    \/ ContinueWithoutSession(r) \/ ParseAuthToken(r) \/ RejectAuthToken(r)
    \/ AcceptAuthToken(r) \/ RefreshAuthToken(r)
    \/ RejectRefreshToken(r) \/ AcceptRefreshToken(r)

issueSessionTokens(r) ==
    \/ ReadRoles(r) \/ ReadRolesFails(r) \/ GenerateAuthToken(r)
    \/ UpsertSession(r) \/ UpsertInvalidated(r) \/ UpsertFails(r)

Resolver(r) ==
    \/ Query(r) \/ (\E u \in User : Login(r, u))
    \/ CreateUser(r) \/ Commit(r) \/ CommitFails(r)
    \/ LogoutNobody(r) \/ Logout(r) \/ InvalidateFails(r)
    \/ OptInForRoles(r) \/ OptOutForRoles(r)

ForceAuthTokenRefresh(r) == ReadForceTime(r) \/ SetTime(r) \/ SetTimeFails(r)

Next ==
    \/ Tick
    \/ \E r \in Request :
          \/ \E c \in Client : SendRequest(r, c)
          \/ \E u \in User : SetRolesOfUser(r, u)
          \/ ContinueSession(r) \/ issueSessionTokens(r)
          \/ Resolver(r) \/ ForceAuthTokenRefresh(r)
          \/ Deliver(r) \/ Lose(r)

Spec == Init /\ [][Next]_vars

----------------------------------------------------------------------------
(* Properties                                                              *)

TypeOK ==
    /\ now \in Nat
    /\ users \in SUBSET User
    /\ roles \in [User -> SUBSET Role]
    /\ DOMAIN sessions \subseteq SessionID /\ sessions \in [DOMAIN sessions -> Row]
    /\ DOMAIN authRefreshCache \subseteq User
    /\ authRefreshCache \in [DOMAIN authRefreshCache -> [time : Nat, expires : Nat]]
    /\ jar \in [Client -> Cookies]
    /\ pc \in [Request -> Stage]
    /\ client \in [Request -> Client]
    /\ cookies \in [Request -> Cookies]
    /\ parsedAt \in [Request -> Nat]
    /\ ctx \in [Request -> Ctx]
    /\ issue \in [Request -> IssueLocals]
    /\ force \in [Request -> ForceLocals]
    /\ reply \in [Request -> Reply]
    /\ lastForced \in [User -> Nat]
    /\ DOMAIN loggedOut \subseteq SessionID /\ loggedOut \in [DOMAIN loggedOut -> Nat]

\* Request r is let in on the word of its auth token; on its refresh token.
AcceptsToken(r) == pc[r] = "check" /\ pc'[r] = "resolve" /\ ctx'[r].authed
Refreshes(r) == pc[r] = "upsert" /\ pc'[r] # "upsert" /\ ctx'[r].authed

\* ForceAuthTokenRefresh is never undone: no request is let in on the word of a
\* token issued before the latest time that was ever stored for its user, even
\* after the key has expired, after an older time is written late, or when the
\* server is slow between parsing the token and asking Redis.
ForcedRefreshHolds ==
    [][\A r \in Request : AcceptsToken(r) =>
          cookies[r].auth.iat >= lastForced[cookies[r].auth.user]]_vars

\* After a logout has completed its session issues no token, and no token it
\* issued is believed, whichever requests were under way, save one issued in the
\* very second of the logout.
LoggedOutStaysOut ==
    [][\A r \in Request :
          /\ AcceptsToken(r) /\ cookies[r].auth.session \in DOMAIN loggedOut =>
                cookies[r].auth.iat = loggedOut[cookies[r].auth.session]
          /\ Refreshes(r) => ctx'[r].session \notin DOMAIN loggedOut]_vars

\* Every token a client holds or is sent, but for those from before session IDs,
\* names a session of its user that was started.  The row is there for InvalidateSession
\* to find, except where CreateUser handed out the cookies and its commit failed; the
\* token is then of a user who does not exist, and never will.
Started(s, u) == s \in DOMAIN sessions /\ sessions[s].user = u
HasRow(s, u) ==
    /\ Started(s, u)
    /\ sessions[s].txn = IF u \in users THEN "committed" ELSE "rolledBack"
TokensHaveSessions ==
    \A c \in {jar[k] : k \in Client} \cup {reply[r].cookies : r \in {q \in Request : pc[q] # "commit"}} :
        /\ c.auth # NoToken /\ c.auth.session # NoSession => HasRow(c.auth.session, c.auth.user)
        /\ c.refresh # NoToken => HasRow(c.refresh.session, c.refresh.user)

\* What ForceAuthTokenRefresh is said to be for: after a logout, existing auth
\* tokens of the session are refreshed, so none of them is believed any more.
LogoutIsImmediate ==
    [][\A r \in Request :
          AcceptsToken(r) => cookies[r].auth.session \notin DOMAIN loggedOut]_vars

\* What OptInForRoles says of forcing a refresh: once a change of roles is done, a
\* token that is believed, and that was issued after the forced refresh, shows the
\* roles of the database.
ChangingRoles(u) ==
    \E r \in Request : pc[r] \in {"force", "setTime"} /\ force[r].user = u /\ ~force[r].logout
RolesAppearImmediately ==
    [][\A r \in Request : AcceptsToken(r) =>
          LET t == cookies[r].auth
          IN  \/ ChangingRoles(t.user)
              \/ t.iat <= lastForced[t.user]
              \/ t.roles = roles[t.user]]_vars

\* "EndSession invalidates the current session and clears the user's cookies":
\* a logout that is answered has done both.
EndSessionInvalidates ==
    [][\A r \in Request :
          pc[r] = "setTime" /\ pc'[r] = "respond" /\ force[r].logout /\ ctx[r].user \in users /\ ctx[r].session \in DOMAIN sessions =>
              sessions'[ctx[r].session].invalidated]_vars
============================================================================
