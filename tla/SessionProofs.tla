--------------------------- MODULE SessionProofs ---------------------------
(***************************************************************************)
(* Proofs about sessions, for every number of requests, clients, users and *)
(* sessions and every lifetime of tokens: a forced refresh is never        *)
(* undone, every token has a row in the sessions table unless the commit   *)
(* of its user failed, and a session that was logged out stays logged out. *)
(***************************************************************************)
EXTENDS Session, TLAPS

IssueStage == {"roles", "generate", "upsert"}
ForceStage == {"force", "setTime"}

\* What is known of request r where it is: issueSessionTokens has a user and a
\* session, ForceAuthTokenRefresh a user, an authenticated context both, CreateUser
\* such a context before it commits, and a request that is about to ask Redis holds an auth token that was valid when it
\* was parsed, not longer than Wiggle ago.
StageOK(r) ==
    /\ pc[r] \in IssueStage => issue[r].user \in User /\ issue[r].session \in SessionID
    /\ pc[r] \in ForceStage => force[r].user \in User
    /\ pc[r] \in ForceStage /\ force[r].invalidated => ctx[r].session \in SessionID
    /\ ctx[r].authed => ctx[r].user \in User /\ ctx[r].session \in SessionID
    /\ pc[r] = "commit" => ctx[r].authed
    /\ pc[r] = "check" =>
          /\ cookies[r].auth \in AuthToken \ {NoToken} /\ cookies[r].auth.session \in SessionID
          /\ parsedAt[r] <= now /\ now <= parsedAt[r] + Wiggle
          /\ parsedAt[r] < cookies[r].auth.iat + AuthTTL

StageInv == \A r \in Request : StageOK(r)

\* Redis has the latest time that was stored for the user, or no token issued
\* before that time can still be on its way through mustRefreshAuthToken.
ForcedOK(u) ==
    IF u \in DOMAIN authRefreshCache
    THEN /\ authRefreshCache[u].expires = authRefreshCache[u].time + AuthTTL + Wiggle
         /\ lastForced[u] <= authRefreshCache[u].time
    ELSE lastForced[u] = 0 \/ lastForced[u] + AuthTTL + Wiggle <= now

ForcedInv == \A u \in User : ForcedOK(u)

IInv ==
    /\ TypeOK
    /\ StageInv
    /\ ForcedInv

----------------------------------------------------------------------------
\* The values the operations build from well-typed parts are well typed.
LEMMA ValueTypes ==
    /\ NoCookies \in Cookies
    /\ clearSessionState \in Ctx /\ ~clearSessionState.authed
    /\ KeepCookies \in Reply /\ clearSessionCookies \in Reply
    /\ NoIssue \in IssueLocals /\ NoForce \in ForceLocals
    /\ \A u \in User, s \in SessionID, rs \in SUBSET Role :
          setSessionState(u, s, rs) \in Ctx
<1>1. NoCookies \in Cookies
  BY DEF NoCookies, Cookies
<1>2. clearSessionState \in Ctx /\ ~clearSessionState.authed
  BY DEF clearSessionState, Ctx
<1>3. KeepCookies \in Reply /\ clearSessionCookies \in Reply
  BY <1>1 DEF KeepCookies, clearSessionCookies, Reply
<1>4. NoIssue \in IssueLocals
  BY DEF NoIssue, IssueLocals
<1>5. NoForce \in ForceLocals
  BY DEF NoForce, ForceLocals
<1>6. \A u \in User, s \in SessionID, rs \in SUBSET Role : setSessionState(u, s, rs) \in Ctx
  BY DEF setSessionState, Ctx
<1> QED
  BY <1>1, <1>2, <1>3, <1>4, <1>5, <1>6

\* Every variable of every other request is left alone.
Others(r) ==
    \A q \in Request \ {r} :
        /\ pc'[q] = pc[q] /\ cookies'[q] = cookies[q] /\ parsedAt'[q] = parsedAt[q]
        /\ ctx'[q] = ctx[q] /\ issue'[q] = issue[q] /\ force'[q] = force[q]

\* A step of one request that touches neither clock nor Redis.
LEMMA RequestStep ==
    ASSUME IInv, NEW r \in Request, TypeOK', Others(r), StageOK(r)',
           UNCHANGED <<now, authRefreshCache, lastForced>>
    PROVE  IInv'
<1>1. StageInv'
  <2> SUFFICES ASSUME NEW q \in Request PROVE StageOK(q)'
    BY DEF StageInv
  <2>1. CASE q = r
    BY <2>1
  <2>2. CASE q # r
    BY <2>2 DEF IInv, StageInv, StageOK, Others
  <2> QED
    BY <2>1, <2>2
<1>2. ForcedInv'
  BY DEF IInv, ForcedInv, ForcedOK
<1> QED
  BY <1>1, <1>2 DEF IInv

\* The first state: no session, nothing forced.
LEMMA InitIInv == Init => IInv
<1> SUFFICES ASSUME Init PROVE IInv
  OBVIOUS
<1>1. jar \in [Client -> Cookies]
  BY DEF Init, Cookies, NoCookies, AuthToken
<1>2. TypeOK
  <2>1. /\ now \in Nat /\ users \in SUBSET User /\ roles \in [User -> SUBSET Role]
        /\ DOMAIN sessions \subseteq SessionID /\ sessions \in [DOMAIN sessions -> Row]
        /\ DOMAIN authRefreshCache \subseteq User
        /\ authRefreshCache \in [DOMAIN authRefreshCache -> [time : Nat, expires : Nat]]
        /\ DOMAIN loggedOut \subseteq SessionID /\ loggedOut \in [DOMAIN loggedOut -> Nat]
    BY DEF Init
  <2>2. /\ pc \in [Request -> Stage] /\ client \in [Request -> Client]
        /\ parsedAt \in [Request -> Nat] /\ lastForced \in [User -> Nat]
    BY DEF Init, Stage
  <2>3. /\ cookies \in [Request -> Cookies] /\ ctx \in [Request -> Ctx]
        /\ issue \in [Request -> IssueLocals] /\ force \in [Request -> ForceLocals]
        /\ reply \in [Request -> Reply]
    BY ValueTypes DEF Init
  <2> QED
    BY <1>1, <2>1, <2>2, <2>3 DEF TypeOK
<1>3. StageInv
  BY ValueTypes DEF Init, StageInv, StageOK, IssueStage, ForceStage
<1>4. ForcedInv
  BY DEF Init, ForcedInv, ForcedOK
<1> QED
  BY <1>2, <1>3, <1>4 DEF IInv

\* Time passes: no request overstays, and a key that goes is too old to matter.
LEMMA TickStep == ASSUME IInv, Tick PROVE IInv'
<1> DEFINE kept == {v \in DOMAIN authRefreshCache : now' < authRefreshCache[v].expires}
<1>1. /\ now \in Nat /\ now' = now + 1
      /\ authRefreshCache' = [u \in kept |-> authRefreshCache[u]]
      /\ DOMAIN authRefreshCache \subseteq User
      /\ \A u \in DOMAIN authRefreshCache : authRefreshCache[u] \in [time : Nat, expires : Nat]
      /\ \A u \in User : lastForced[u] \in Nat
  BY DEF Tick, IInv, TypeOK
<1>2. AuthTTL \in Nat /\ Wiggle \in Nat
  BY TTLAssumption
<1>3. TypeOK'
  BY <1>1 DEF Tick, historyVars, IInv, TypeOK
<1>4. StageInv'
  <2> SUFFICES ASSUME NEW r \in Request, pc[r] = "check"
               PROVE  parsedAt[r] <= now' /\ now' <= parsedAt[r] + Wiggle
    BY DEF Tick, historyVars, IInv, StageInv, StageOK
  <2>1. parsedAt[r] \in Nat
    BY DEF IInv, TypeOK
  <2>2. parsedAt[r] <= now /\ now < parsedAt[r] + Wiggle
    BY DEF Tick, IInv, StageInv, StageOK
  <2> QED
    BY <1>1, <1>2, <2>1, <2>2
<1>5. ForcedInv'
  <2> SUFFICES ASSUME NEW u \in User PROVE ForcedOK(u)'
    BY DEF ForcedInv
  <2>1. ForcedOK(u) /\ lastForced'[u] = lastForced[u] /\ lastForced[u] \in Nat
    BY <1>1 DEF IInv, ForcedInv, Tick, historyVars
  <2>2. CASE u \in kept
    BY <1>1, <2>1, <2>2 DEF ForcedOK
  <2>3. CASE u \in DOMAIN authRefreshCache /\ u \notin kept
    <3>1. /\ authRefreshCache[u].expires = authRefreshCache[u].time + AuthTTL + Wiggle
          /\ lastForced[u] <= authRefreshCache[u].time
          /\ ~(now' < authRefreshCache[u].expires)
          /\ authRefreshCache[u].time \in Nat
      BY <1>1, <2>1, <2>3 DEF ForcedOK
    <3>2. lastForced[u] + AuthTTL + Wiggle <= now'
      BY <1>1, <1>2, <2>1, <3>1
    <3> QED
      BY <1>1, <2>1, <2>3, <3>2 DEF ForcedOK
  <2>4. CASE u \notin DOMAIN authRefreshCache
    <3>1. lastForced[u] = 0 \/ lastForced[u] + AuthTTL + Wiggle <= now'
      BY <1>1, <1>2, <2>1, <2>4 DEF ForcedOK
    <3> QED
      BY <1>1, <2>1, <2>4, <3>1 DEF ForcedOK
  <2> QED
    BY <2>2, <2>3, <2>4
<1> QED
  BY <1>3, <1>4, <1>5 DEF IInv

----------------------------------------------------------------------------
(* One lemma per step.                                                     *)

\* A call of issueSessionTokens has the user and the session it is called with
\* in its locals, and goes on to read the roles.
LEMMA BeginIssueLocals ==
    ASSUME NEW r \in Request, NEW u \in User, NEW s \in SessionID, NEW start \in BOOLEAN,
           NEW then \in {"resolve", "respond", "commit"}, BeginIssue(r, u, s, start, then)
    PROVE  \E i \in IssueLocals : /\ i.user \in User /\ i.session \in SessionID
                                  /\ issue' = [issue EXCEPT ![r] = i]
                                  /\ pc' = [pc EXCEPT ![r] = "roles"]
<1> DEFINE i == [NoIssue EXCEPT !.user = u, !.session = s, !.start = start, !.then = then]
<1>1. i \in IssueLocals /\ i.user = u /\ i.session = s
  BY DEF NoIssue, IssueLocals
<1>2. issue' = [issue EXCEPT ![r] = i] /\ pc' = [pc EXCEPT ![r] = "roles"]
  BY DEF BeginIssue, Goto
<1> HIDE DEF i
<1> QED
  BY <1>1, <1>2

\* A call of ForceAuthTokenRefresh has the user it is called with.
LEMMA BeginForceFacts ==
    ASSUME NEW u \in User, NEW logout \in BOOLEAN, NEW invalidated \in BOOLEAN
    PROVE  LET f == [NoForce EXCEPT !.user = u, !.logout = logout, !.invalidated = invalidated]
           IN  f \in ForceLocals /\ f.user = u /\ f.invalidated = invalidated
  BY DEF NoForce, ForceLocals

\* A token that is valid is a token.
LEMMA ValidTokens ==
    ASSUME TypeOK, NEW r \in Request
    PROVE  /\ validAuth(cookies[r].auth) => cookies[r].auth \in AuthToken
           /\ validRefresh(cookies[r].refresh) => cookies[r].refresh \in RefreshToken
  BY DEF TypeOK, Cookies, validAuth, validRefresh

\* A request begins with a client's cookies.
LEMMA SendRequestStep ==
    ASSUME IInv, NEW r \in Request, NEW c \in Client, SendRequest(r, c)
    PROVE  IInv'
<1>21. TypeOK'
  BY DEF SendRequest, storeVars, historyVars, Goto, IInv, TypeOK, Stage
<1>22. Others(r)
  BY DEF SendRequest, storeVars, historyVars, Goto, Others, IInv, TypeOK
<1>23. StageOK(r)'
  BY DEF SendRequest, storeVars, historyVars, Goto, IInv, StageInv, StageOK, TypeOK, IssueStage, ForceStage
<1>24. UNCHANGED <<now, authRefreshCache, lastForced>>
  BY DEF SendRequest, storeVars, historyVars, Goto
<1> QED
  BY <1>21, <1>22, <1>23, <1>24, RequestStep

\* A token without a session starts one for its user.
LEMMA ContinueWithoutSessionStep ==
    ASSUME IInv, NEW r \in Request, ContinueWithoutSession(r)
    PROVE  IInv'
<1>1. cookies[r].auth.user \in User
  BY ValidTokens DEF ContinueWithoutSession, IInv, AuthToken
<1>5. PICK i \in IssueLocals : /\ i.user \in User /\ i.session \in SessionID
                               /\ issue' = [issue EXCEPT ![r] = i]
                               /\ pc' = [pc EXCEPT ![r] = "roles"]
  <2>1. PICK s \in FreshSessionID : BeginIssue(r, cookies[r].auth.user, s, TRUE, "resolve")
    BY DEF ContinueWithoutSession
  <2>2. s \in SessionID
    BY DEF FreshSessionID
  <2> QED
    BY <1>1, <2>1, <2>2, BeginIssueLocals
<1>6. UNCHANGED <<now, storeVars, jar, client, cookies, parsedAt, ctx, force, reply, historyVars>>
  BY DEF ContinueWithoutSession
<1>21. TypeOK'
  BY <1>5, <1>6 DEF storeVars, historyVars, IInv, TypeOK, Stage
<1>22. Others(r)
  BY <1>5, <1>6 DEF Others, IInv, TypeOK
<1>23. StageOK(r)'
  BY <1>5, <1>6 DEF IInv, StageInv, StageOK, TypeOK, IssueStage, ForceStage
<1> QED
  BY <1>6, <1>21, <1>22, <1>23, RequestStep DEF storeVars, historyVars

\* A refresh token continues its session.
LEMMA AcceptRefreshTokenStep ==
    ASSUME IInv, NEW r \in Request, AcceptRefreshToken(r)
    PROVE  IInv'
<1>1. cookies[r].refresh.user \in User /\ cookies[r].refresh.session \in SessionID
  BY ValidTokens DEF AcceptRefreshToken, IInv, RefreshToken
<1>5. PICK i \in IssueLocals : /\ i.user \in User /\ i.session \in SessionID
                               /\ issue' = [issue EXCEPT ![r] = i]
                               /\ pc' = [pc EXCEPT ![r] = "roles"]
  <2>1. BeginIssue(r, cookies[r].refresh.user, cookies[r].refresh.session, FALSE, "resolve")
    BY DEF AcceptRefreshToken
  <2> QED
    BY <1>1, <2>1, BeginIssueLocals
<1>6. UNCHANGED <<now, storeVars, jar, client, cookies, parsedAt, ctx, force, reply, historyVars>>
  BY DEF AcceptRefreshToken
<1>21. TypeOK'
  BY <1>5, <1>6 DEF storeVars, historyVars, IInv, TypeOK, Stage
<1>22. Others(r)
  BY <1>5, <1>6 DEF Others, IInv, TypeOK
<1>23. StageOK(r)'
  BY <1>5, <1>6 DEF IInv, StageInv, StageOK, TypeOK, IssueStage, ForceStage
<1> QED
  BY <1>6, <1>21, <1>22, <1>23, RequestStep DEF storeVars, historyVars

\* A login starts a session for its user.
LEMMA LoginStep ==
    ASSUME IInv, NEW r \in Request, NEW u \in User, Login(r, u)
    PROVE  IInv'
<1>1. u \in User
  OBVIOUS
<1>5. PICK i \in IssueLocals : /\ i.user \in User /\ i.session \in SessionID
                               /\ issue' = [issue EXCEPT ![r] = i]
                               /\ pc' = [pc EXCEPT ![r] = "roles"]
  <2>1. PICK s \in FreshSessionID : BeginIssue(r, u, s, TRUE, "respond")
    BY DEF Login
  <2>2. s \in SessionID
    BY DEF FreshSessionID
  <2> QED
    BY <1>1, <2>1, <2>2, BeginIssueLocals
<1>6. UNCHANGED <<now, storeVars, jar, client, cookies, parsedAt, ctx, force, reply, historyVars>>
  BY DEF Login
<1>21. TypeOK'
  BY <1>5, <1>6 DEF storeVars, historyVars, IInv, TypeOK, Stage
<1>22. Others(r)
  BY <1>5, <1>6 DEF Others, IInv, TypeOK
<1>23. StageOK(r)'
  BY <1>5, <1>6 DEF IInv, StageInv, StageOK, TypeOK, IssueStage, ForceStage
<1> QED
  BY <1>6, <1>21, <1>22, <1>23, RequestStep DEF storeVars, historyVars

\* A token that is parsed is valid at that moment.
LEMMA ParseAuthTokenStep ==
    ASSUME IInv, NEW r \in Request, ParseAuthToken(r)
    PROVE  IInv'
<1>1. cookies[r].auth \in AuthToken \ {NoToken} /\ cookies[r].auth.session \in SessionID
  BY ValidTokens DEF ParseAuthToken, validAuth, IInv, AuthToken
<1>2. now < cookies[r].auth.iat + AuthTTL /\ now \in Nat /\ Wiggle \in Nat
  BY TTLAssumption DEF ParseAuthToken, validAuth, IInv, TypeOK
<1>3. /\ pc' = [pc EXCEPT ![r] = "check"] /\ parsedAt' = [parsedAt EXCEPT ![r] = now]
      /\ UNCHANGED <<now, storeVars, jar, client, cookies, ctx, issue, force, reply, historyVars>>
  BY DEF ParseAuthToken, Goto
<1>21. TypeOK'
  BY <1>3 DEF storeVars, historyVars, IInv, TypeOK, Stage
<1>22. Others(r)
  BY <1>3 DEF Others, IInv, TypeOK
<1>23. StageOK(r)'
  <2>1. pc'[r] = "check" /\ parsedAt'[r] = now /\ ctx'[r] = ctx[r] /\ cookies'[r] = cookies[r] /\ now' = now
    BY <1>3 DEF IInv, TypeOK
  <2>2. ctx[r].authed => ctx[r].user \in User /\ ctx[r].session \in SessionID
    BY DEF IInv, StageInv, StageOK
  <2> QED
    BY <1>1, <1>2, <2>1, <2>2 DEF StageOK, IssueStage, ForceStage
<1> QED
  BY <1>3, <1>21, <1>22, <1>23, RequestStep DEF storeVars, historyVars

\* Without a valid auth token the refresh token is looked at.
LEMMA RejectAuthTokenStep ==
    ASSUME IInv, NEW r \in Request, RejectAuthToken(r)
    PROVE  IInv'
<1>21. TypeOK'
  BY DEF RejectAuthToken, storeVars, historyVars, Goto, IInv, TypeOK, Stage
<1>22. Others(r)
  BY DEF RejectAuthToken, storeVars, historyVars, Goto, Others, IInv, TypeOK
<1>23. StageOK(r)'
  BY DEF RejectAuthToken, storeVars, historyVars, Goto, IInv, StageInv, StageOK, TypeOK, IssueStage, ForceStage
<1>24. UNCHANGED <<now, authRefreshCache, lastForced>>
  BY DEF RejectAuthToken, storeVars, historyVars, Goto
<1> QED
  BY <1>21, <1>22, <1>23, <1>24, RequestStep

\* A context that believes a token has its user and its session.
LEMMA AcceptAuthTokenStep ==
    ASSUME IInv, NEW r \in Request, AcceptAuthToken(r)
    PROVE  IInv'
<1> DEFINE t == cookies[r].auth
           c == setSessionState(t.user, t.session, t.roles)
<1>1. t \in AuthToken /\ t.session \in SessionID
  BY DEF AcceptAuthToken, IInv, StageInv, StageOK
<1>2. c \in Ctx /\ c.user \in User /\ c.session \in SessionID
  BY <1>1 DEF AuthToken, setSessionState, Ctx
<1>3. /\ pc' = [pc EXCEPT ![r] = "resolve"] /\ parsedAt' = [parsedAt EXCEPT ![r] = 0]
      /\ ctx' = [ctx EXCEPT ![r] = c]
      /\ UNCHANGED <<now, storeVars, jar, client, cookies, issue, force, reply, historyVars>>
  BY DEF AcceptAuthToken, Goto
<1> HIDE DEF t, c
<1>21. TypeOK'
  BY <1>2, <1>3 DEF storeVars, historyVars, IInv, TypeOK, Stage
<1>22. Others(r)
  BY <1>3 DEF Others, IInv, TypeOK
<1>23. StageOK(r)'
  BY <1>2, <1>3 DEF IInv, StageOK, TypeOK, IssueStage, ForceStage
<1> QED
  BY <1>3, <1>21, <1>22, <1>23, RequestStep DEF storeVars, historyVars

\* A token that must be refreshed is left aside.
LEMMA RefreshAuthTokenStep ==
    ASSUME IInv, NEW r \in Request, RefreshAuthToken(r)
    PROVE  IInv'
<1>21. TypeOK'
  BY DEF RefreshAuthToken, storeVars, historyVars, Goto, IInv, TypeOK, Stage
<1>22. Others(r)
  BY DEF RefreshAuthToken, storeVars, historyVars, Goto, Others, IInv, TypeOK
<1>23. StageOK(r)'
  BY DEF RefreshAuthToken, storeVars, historyVars, Goto, IInv, StageInv, StageOK, TypeOK, IssueStage, ForceStage
<1>24. UNCHANGED <<now, authRefreshCache, lastForced>>
  BY DEF RefreshAuthToken, storeVars, historyVars, Goto
<1> QED
  BY <1>21, <1>22, <1>23, <1>24, RequestStep

\* No session to continue.
LEMMA RejectRefreshTokenStep ==
    ASSUME IInv, NEW r \in Request, RejectRefreshToken(r)
    PROVE  IInv'
<1>21. TypeOK'
  BY ValueTypes DEF RejectRefreshToken, storeVars, historyVars, Goto, IInv, TypeOK, Stage
<1>22. Others(r)
  BY DEF RejectRefreshToken, storeVars, historyVars, Goto, Others, IInv, TypeOK
<1>23. StageOK(r)'
  BY ValueTypes DEF RejectRefreshToken, storeVars, historyVars, Goto, IInv, StageInv, StageOK, TypeOK, IssueStage, ForceStage
<1>24. UNCHANGED <<now, authRefreshCache, lastForced>>
  BY DEF RejectRefreshToken, storeVars, historyVars, Goto
<1> QED
  BY <1>21, <1>22, <1>23, <1>24, RequestStep

\* The roles are read.
LEMMA ReadRolesStep ==
    ASSUME IInv, NEW r \in Request, ReadRoles(r)
    PROVE  IInv'
<1>1. roles[issue[r].user] \in SUBSET Role
  BY DEF ReadRoles, IInv, StageInv, StageOK, IssueStage, TypeOK
<1>2. now + RefreshTTL \in Nat /\ issue[r] \in IssueLocals
  BY TTLAssumption DEF IInv, TypeOK
<1>3. [issue[r] EXCEPT !.roles = roles[issue[r].user], !.refreshExp = now + RefreshTTL] \in IssueLocals
  BY <1>1, <1>2 DEF IssueLocals
<1>4. issue' \in [Request -> IssueLocals]
  BY <1>3 DEF ReadRoles, IInv, TypeOK
<1>21. TypeOK'
  BY <1>4 DEF ReadRoles, storeVars, historyVars, Goto, IInv, TypeOK, Stage
<1>22. Others(r)
  BY DEF ReadRoles, storeVars, historyVars, Goto, Others, IInv, TypeOK
<1>23. StageOK(r)'
  BY DEF ReadRoles, storeVars, historyVars, Goto, IInv, StageInv, StageOK, TypeOK, IssueStage, ForceStage
<1>24. UNCHANGED <<now, authRefreshCache, lastForced>>
  BY DEF ReadRoles, storeVars, historyVars, Goto
<1> QED
  BY <1>21, <1>22, <1>23, <1>24, RequestStep

\* The roles cannot be read.
LEMMA ReadRolesFailsStep ==
    ASSUME IInv, NEW r \in Request, ReadRolesFails(r)
    PROVE  IInv'
<1>21. TypeOK'
  BY ValueTypes DEF ReadRolesFails, storeVars, historyVars, Goto, IInv, TypeOK, Stage, IssueFailed, IssueLocals
<1>22. Others(r)
  BY DEF ReadRolesFails, storeVars, historyVars, Goto, Others, IInv, TypeOK, IssueFailed, IssueLocals
<1>23. StageOK(r)'
  BY ValueTypes DEF ReadRolesFails, storeVars, historyVars, Goto, IInv, StageInv, StageOK, TypeOK, IssueStage, ForceStage, IssueFailed, IssueLocals
<1>24. UNCHANGED <<now, authRefreshCache, lastForced>>
  BY DEF ReadRolesFails, storeVars, historyVars, Goto, IssueFailed, IssueLocals
<1> QED
  BY <1>21, <1>22, <1>23, <1>24, RequestStep

\* The session cannot be stored.
LEMMA UpsertFailsStep ==
    ASSUME IInv, NEW r \in Request, UpsertFails(r)
    PROVE  IInv'
<1>21. TypeOK'
  BY ValueTypes DEF UpsertFails, storeVars, historyVars, Goto, IInv, TypeOK, Stage, IssueFailed, IssueLocals
<1>22. Others(r)
  BY DEF UpsertFails, storeVars, historyVars, Goto, Others, IInv, TypeOK, IssueFailed, IssueLocals
<1>23. StageOK(r)'
  BY ValueTypes DEF UpsertFails, storeVars, historyVars, Goto, IInv, StageInv, StageOK, TypeOK, IssueStage, ForceStage, IssueFailed, IssueLocals
<1>24. UNCHANGED <<now, authRefreshCache, lastForced>>
  BY DEF UpsertFails, storeVars, historyVars, Goto, IssueFailed, IssueLocals
<1> QED
  BY <1>21, <1>22, <1>23, <1>24, RequestStep

\* The auth token is stamped.
LEMMA GenerateAuthTokenStep ==
    ASSUME IInv, NEW r \in Request, GenerateAuthToken(r)
    PROVE  IInv'
<1>21. TypeOK'
  <2>1. issue[r] \in IssueLocals /\ now \in Nat
    BY DEF IInv, TypeOK
  <2>2. [issue[r] EXCEPT !.iat = now] \in IssueLocals
    BY <2>1 DEF IssueLocals
  <2> QED
    BY <2>2 DEF GenerateAuthToken, storeVars, historyVars, Goto, IInv, TypeOK, Stage
<1>22. Others(r)
  BY DEF GenerateAuthToken, storeVars, historyVars, Goto, Others, IInv, TypeOK
<1>23. StageOK(r)'
  BY DEF GenerateAuthToken, storeVars, historyVars, Goto, IInv, StageInv, StageOK, TypeOK, IssueStage, ForceStage
<1>24. UNCHANGED <<now, authRefreshCache, lastForced>>
  BY DEF GenerateAuthToken, storeVars, historyVars, Goto
<1> QED
  BY <1>21, <1>22, <1>23, <1>24, RequestStep

\* UpsertSession keeps the rows well typed.
LEMMA UpsertType ==
    ASSUME TypeOK, NEW s \in SessionID, NEW u \in User, NEW txn \in {"open", "committed"}
    PROVE  /\ upsert(s, u, txn) \in [DOMAIN upsert(s, u, txn) -> Row]
           /\ DOMAIN upsert(s, u, txn) \subseteq SessionID
<1>1. NewRow(u, txn) \in Row
  BY DEF NewRow, Row
<1>2. CASE s \in DOMAIN sessions
  BY <1>2 DEF upsert, TypeOK
<1>3. CASE s \notin DOMAIN sessions
  BY <1>1, <1>3 DEF upsert, TypeOK
<1> QED
  BY <1>2, <1>3

\* The session is stored and its tokens are in the response.
LEMMA UpsertSessionStep ==
    ASSUME IInv, NEW r \in Request, UpsertSession(r)
    PROVE  IInv'
<1> DEFINE i == issue[r]
           auth == [user |-> i.user, session |-> i.session, roles |-> i.roles, iat |-> i.iat]
           refresh == [user |-> i.user, session |-> i.session, exp |-> i.refreshExp]
           c == setSessionState(i.user, i.session, i.roles)
           rep == setSessionCookies(auth, refresh)
<1>1. i \in IssueLocals /\ i.user \in User /\ i.session \in SessionID
  BY DEF UpsertSession, IInv, StageInv, StageOK, IssueStage, TypeOK
<1>2. auth \in AuthToken /\ refresh \in RefreshToken
  BY <1>1 DEF IssueLocals, AuthToken, RefreshToken
<1>3. rep \in Reply
  BY <1>2 DEF setSessionCookies, Reply, Cookies
<1>4. c \in Ctx /\ c.authed /\ c.user \in User /\ c.session \in SessionID
  BY <1>1 DEF IssueLocals, setSessionState, Ctx
<1>5. /\ Upsert(r)
      /\ ctx' = [ctx EXCEPT ![r] = c] /\ reply' = [reply EXCEPT ![r] = rep]
      /\ issue' = [issue EXCEPT ![r] = NoIssue] /\ pc' = [pc EXCEPT ![r] = i.then]
      /\ UNCHANGED <<now, users, roles, authRefreshCache, jar, client, cookies, parsedAt, force, historyVars>>
  BY DEF UpsertSession, Goto
<1>6. i.then \in {"resolve", "respond", "commit"}
  BY <1>1 DEF IssueLocals
<1>7. sessions' \in [DOMAIN sessions' -> Row] /\ DOMAIN sessions' \subseteq SessionID
  BY <1>1, <1>5, UpsertType DEF Upsert, IInv
<1> HIDE DEF i, auth, refresh, c, rep
<1>21. TypeOK'
  BY <1>3, <1>4, <1>5, <1>6, <1>7, ValueTypes DEF historyVars, IInv, TypeOK, Stage
<1>22. Others(r)
  BY <1>5 DEF Others, IInv, TypeOK
<1>23. StageOK(r)'
  BY <1>4, <1>5, <1>6 DEF IInv, StageOK, TypeOK, IssueStage, ForceStage
<1> QED
  BY <1>5, <1>21, <1>22, <1>23, RequestStep DEF historyVars

\* The session has been invalidated.
LEMMA UpsertInvalidatedStep ==
    ASSUME IInv, NEW r \in Request, UpsertInvalidated(r)
    PROVE  IInv'
<1> DEFINE to == IF issue[r].then = "resolve" THEN "resolve" ELSE "respond"
<1>1. issue[r] \in IssueLocals /\ issue[r].user \in User /\ issue[r].session \in SessionID
  BY DEF UpsertInvalidated, IInv, StageInv, StageOK, IssueStage, TypeOK
<1>2. /\ Upsert(r)
      /\ ctx' = [ctx EXCEPT ![r] = clearSessionState]
      /\ reply' = [reply EXCEPT ![r] = clearSessionCookies]
      /\ issue' = [issue EXCEPT ![r] = NoIssue] /\ pc' = [pc EXCEPT ![r] = to]
      /\ UNCHANGED <<now, users, roles, authRefreshCache, jar, client, cookies, parsedAt, force, historyVars>>
  BY DEF UpsertInvalidated, IssueFailed, Goto
<1>3. to \in {"resolve", "respond"}
  OBVIOUS
<1> HIDE DEF to
<1>4. sessions' \in [DOMAIN sessions' -> Row] /\ DOMAIN sessions' \subseteq SessionID
  BY <1>1, <1>2, UpsertType DEF Upsert, IInv
<1>21. TypeOK'
  BY <1>2, <1>3, <1>4, ValueTypes DEF historyVars, IInv, TypeOK, Stage
<1>22. Others(r)
  BY <1>2 DEF Others, IInv, TypeOK
<1>23. StageOK(r)'
  BY <1>2, <1>3, ValueTypes DEF IInv, StageOK, TypeOK, IssueStage, ForceStage
<1> QED
  BY <1>2, <1>21, <1>22, <1>23, RequestStep DEF historyVars

\* A resolver that leaves the session alone.
LEMMA QueryStep ==
    ASSUME IInv, NEW r \in Request, Query(r)
    PROVE  IInv'
<1>21. TypeOK'
  BY DEF Query, storeVars, historyVars, Goto, IInv, TypeOK, Stage
<1>22. Others(r)
  BY DEF Query, storeVars, historyVars, Goto, Others, IInv, TypeOK
<1>23. StageOK(r)'
  BY DEF Query, storeVars, historyVars, Goto, IInv, StageInv, StageOK, TypeOK, IssueStage, ForceStage
<1>24. UNCHANGED <<now, authRefreshCache, lastForced>>
  BY DEF Query, storeVars, historyVars, Goto
<1> QED
  BY <1>21, <1>22, <1>23, <1>24, RequestStep

\* A new user gets a session.
LEMMA CreateUserStep ==
    ASSUME IInv, NEW r \in Request, CreateUser(r)
    PROVE  IInv'
<1>5. PICK i \in IssueLocals : /\ i.user \in User /\ i.session \in SessionID
                               /\ issue' = [issue EXCEPT ![r] = i]
                               /\ pc' = [pc EXCEPT ![r] = "roles"]
  <2>1. PICK u \in FreshUserID, s \in FreshSessionID : BeginIssue(r, u, s, TRUE, "commit")
    BY DEF CreateUser
  <2>2. u \in User /\ s \in SessionID
    BY DEF FreshUserID, FreshSessionID
  <2> QED
    BY <2>1, <2>2, BeginIssueLocals
<1>6. UNCHANGED <<now, storeVars, jar, client, cookies, parsedAt, ctx, force, reply, historyVars>>
  BY DEF CreateUser
<1>21. TypeOK'
  BY <1>5, <1>6 DEF storeVars, historyVars, IInv, TypeOK, Stage
<1>22. Others(r)
  BY <1>5, <1>6 DEF Others, IInv, TypeOK
<1>23. StageOK(r)'
  BY <1>5, <1>6 DEF IInv, StageInv, StageOK, TypeOK, IssueStage, ForceStage
<1> QED
  BY <1>6, <1>21, <1>22, <1>23, RequestStep DEF storeVars, historyVars

\* The transaction of CreateUser commits, or does not.
LEMMA CommitStep ==
    ASSUME IInv, NEW r \in Request, Commit(r) \/ CommitFails(r)
    PROVE  IInv'
<1>1. ctx[r].user \in User
  BY DEF Commit, CommitFails, IInv, StageInv, StageOK
<1>2. /\ pc' = [pc EXCEPT ![r] = "respond"]
      /\ UNCHANGED <<now, roles, authRefreshCache, jar, client, cookies, parsedAt, ctx, issue, force, reply, historyVars>>
  BY DEF Commit, CommitFails, Goto
<1>3. users' \in SUBSET User
  BY <1>1 DEF Commit, CommitFails, IInv, TypeOK
<1>4. sessions' \in [DOMAIN sessions' -> Row] /\ DOMAIN sessions' \subseteq SessionID
  <2>1. PICK txn \in {"committed", "rolledBack"} : EndTransaction(r, txn)
    BY DEF Commit, CommitFails
  <2>2. \A x \in DOMAIN sessions : [sessions[x] EXCEPT !.txn = txn] \in Row
    BY DEF IInv, TypeOK, Row
  <2> QED
    BY <2>1, <2>2 DEF EndTransaction, IInv, TypeOK
<1>21. TypeOK'
  BY <1>2, <1>3, <1>4 DEF historyVars, IInv, TypeOK, Stage
<1>22. Others(r)
  BY <1>2 DEF Others, IInv, TypeOK
<1>23. StageOK(r)'
  BY <1>2 DEF IInv, StageInv, StageOK, TypeOK, IssueStage, ForceStage
<1> QED
  BY <1>2, <1>21, <1>22, <1>23, RequestStep DEF historyVars

\* A logout without a user.
LEMMA LogoutNobodyStep ==
    ASSUME IInv, NEW r \in Request, LogoutNobody(r)
    PROVE  IInv'
<1>21. TypeOK'
  BY ValueTypes DEF LogoutNobody, storeVars, historyVars, Goto, IInv, TypeOK, Stage
<1>22. Others(r)
  BY DEF LogoutNobody, storeVars, historyVars, Goto, Others, IInv, TypeOK
<1>23. StageOK(r)'
  BY ValueTypes DEF LogoutNobody, storeVars, historyVars, Goto, IInv, StageInv, StageOK, TypeOK, IssueStage, ForceStage
<1>24. UNCHANGED <<now, authRefreshCache, lastForced>>
  BY DEF LogoutNobody, storeVars, historyVars, Goto
<1> QED
  BY <1>21, <1>22, <1>23, <1>24, RequestStep

\* A logout invalidates the session and forces a refresh.
LEMMA LogoutStep ==
    ASSUME IInv, NEW r \in Request, Logout(r)
    PROVE  IInv'
<1>1. ctx[r].user \in User /\ ctx[r].session \in SessionID
  BY DEF Logout, IInv, StageInv, StageOK
<1>2. sessions' \in [DOMAIN sessions' -> Row] /\ DOMAIN sessions' \subseteq SessionID
  <2>1. \A x \in DOMAIN sessions : [sessions[x] EXCEPT !.invalidated = TRUE] \in Row
    BY DEF IInv, TypeOK, Row
  <2> QED
    BY <2>1 DEF Logout, IInv, TypeOK
<1>5. PICK f \in ForceLocals : /\ f.user \in User
                               /\ f.invalidated => ctx[r].session \in SessionID
                               /\ force' = [force EXCEPT ![r] = f]
                               /\ pc' = [pc EXCEPT ![r] = "force"]
  <2>1. BeginForce(r, ctx[r].user, TRUE, TRUE)
    BY DEF Logout
  <2> QED
    BY <1>1, <2>1, BeginForceFacts DEF BeginForce, Goto
<1>6. UNCHANGED <<now, users, roles, authRefreshCache, jar, client, cookies, parsedAt, ctx, issue, reply, historyVars>>
  BY DEF Logout
<1>21. TypeOK'
  BY <1>5, <1>6, <1>2 DEF storeVars, historyVars, IInv, TypeOK, Stage
<1>22. Others(r)
  BY <1>5, <1>6 DEF Others, IInv, TypeOK
<1>23. StageOK(r)'
  BY <1>5, <1>6 DEF IInv, StageInv, StageOK, TypeOK, IssueStage, ForceStage
<1> QED
  BY <1>6, <1>21, <1>22, <1>23, RequestStep DEF storeVars, historyVars

\* A logout that cannot invalidate the session forces a refresh.
LEMMA InvalidateFailsStep ==
    ASSUME IInv, NEW r \in Request, InvalidateFails(r)
    PROVE  IInv'
<1>1. ctx[r].user \in User /\ ctx[r].session \in SessionID
  BY DEF InvalidateFails, IInv, StageInv, StageOK
<1>5. PICK f \in ForceLocals : /\ f.user \in User
                               /\ f.invalidated => ctx[r].session \in SessionID
                               /\ force' = [force EXCEPT ![r] = f]
                               /\ pc' = [pc EXCEPT ![r] = "force"]
  <2>1. BeginForce(r, ctx[r].user, TRUE, FALSE)
    BY DEF InvalidateFails
  <2> QED
    BY <1>1, <2>1, BeginForceFacts DEF BeginForce, Goto
<1>6. UNCHANGED <<now, storeVars, jar, client, cookies, parsedAt, ctx, issue, reply, historyVars>>
  BY DEF InvalidateFails
<1>21. TypeOK'
  BY <1>5, <1>6 DEF storeVars, historyVars, IInv, TypeOK, Stage
<1>22. Others(r)
  BY <1>5, <1>6 DEF Others, IInv, TypeOK
<1>23. StageOK(r)'
  BY <1>5, <1>6 DEF IInv, StageInv, StageOK, TypeOK, IssueStage, ForceStage
<1> QED
  BY <1>6, <1>21, <1>22, <1>23, RequestStep DEF storeVars, historyVars

\* A user's own change of roles forces a refresh.
LEMMA OptInForRolesStep ==
    ASSUME IInv, NEW r \in Request, OptInForRoles(r)
    PROVE  IInv'
<1>1. ctx[r].user \in User /\ ctx[r].session \in SessionID
  BY DEF OptInForRoles, IInv, StageInv, StageOK
<1>2. roles' \in [User -> SUBSET Role]
  BY <1>1 DEF OptInForRoles, IInv, TypeOK
<1>5. PICK f \in ForceLocals : /\ f.user \in User
                               /\ f.invalidated => ctx[r].session \in SessionID
                               /\ force' = [force EXCEPT ![r] = f]
                               /\ pc' = [pc EXCEPT ![r] = "force"]
  <2>1. BeginForce(r, ctx[r].user, FALSE, FALSE)
    BY DEF OptInForRoles
  <2> QED
    BY <1>1, <2>1, BeginForceFacts DEF BeginForce, Goto
<1>6. UNCHANGED <<now, users, sessions, authRefreshCache, jar, client, cookies, parsedAt, ctx, issue, reply, historyVars>>
  BY DEF OptInForRoles
<1>21. TypeOK'
  BY <1>5, <1>6, <1>2 DEF storeVars, historyVars, IInv, TypeOK, Stage
<1>22. Others(r)
  BY <1>5, <1>6 DEF Others, IInv, TypeOK
<1>23. StageOK(r)'
  BY <1>5, <1>6 DEF IInv, StageInv, StageOK, TypeOK, IssueStage, ForceStage
<1> QED
  BY <1>6, <1>21, <1>22, <1>23, RequestStep DEF storeVars, historyVars

\* A user's own change of roles forces a refresh.
LEMMA OptOutForRolesStep ==
    ASSUME IInv, NEW r \in Request, OptOutForRoles(r)
    PROVE  IInv'
<1>1. ctx[r].user \in User /\ ctx[r].session \in SessionID
  BY DEF OptOutForRoles, IInv, StageInv, StageOK
<1>2. roles' \in [User -> SUBSET Role]
  BY <1>1 DEF OptOutForRoles, IInv, TypeOK
<1>5. PICK f \in ForceLocals : /\ f.user \in User
                               /\ f.invalidated => ctx[r].session \in SessionID
                               /\ force' = [force EXCEPT ![r] = f]
                               /\ pc' = [pc EXCEPT ![r] = "force"]
  <2>1. BeginForce(r, ctx[r].user, FALSE, FALSE)
    BY DEF OptOutForRoles
  <2> QED
    BY <1>1, <2>1, BeginForceFacts DEF BeginForce, Goto
<1>6. UNCHANGED <<now, users, sessions, authRefreshCache, jar, client, cookies, parsedAt, ctx, issue, reply, historyVars>>
  BY DEF OptOutForRoles
<1>21. TypeOK'
  BY <1>5, <1>6, <1>2 DEF storeVars, historyVars, IInv, TypeOK, Stage
<1>22. Others(r)
  BY <1>5, <1>6 DEF Others, IInv, TypeOK
<1>23. StageOK(r)'
  BY <1>5, <1>6 DEF IInv, StageInv, StageOK, TypeOK, IssueStage, ForceStage
<1> QED
  BY <1>6, <1>21, <1>22, <1>23, RequestStep DEF storeVars, historyVars

\* An administrator's change of roles forces a refresh.
LEMMA SetRolesOfUserStep ==
    ASSUME IInv, NEW r \in Request, NEW u \in User, SetRolesOfUser(r, u)
    PROVE  IInv'
<1>1. u \in User
  OBVIOUS
<1>2. roles' \in [User -> SUBSET Role]
  BY <1>1 DEF SetRolesOfUser, IInv, TypeOK
<1>5. PICK f \in ForceLocals : /\ f.user \in User
                               /\ f.invalidated => ctx[r].session \in SessionID
                               /\ force' = [force EXCEPT ![r] = f]
                               /\ pc' = [pc EXCEPT ![r] = "force"]
  <2>1. BeginForce(r, u, FALSE, FALSE)
    BY DEF SetRolesOfUser
  <2> QED
    BY <1>1, <2>1, BeginForceFacts DEF BeginForce, Goto
<1>6. UNCHANGED <<now, users, sessions, authRefreshCache, jar, client, cookies, parsedAt, ctx, issue, reply, historyVars>>
  BY DEF SetRolesOfUser
<1>21. TypeOK'
  BY <1>5, <1>6, <1>2 DEF storeVars, historyVars, IInv, TypeOK, Stage
<1>22. Others(r)
  BY <1>5, <1>6 DEF Others, IInv, TypeOK
<1>23. StageOK(r)'
  BY <1>5, <1>6 DEF IInv, StageInv, StageOK, TypeOK, IssueStage, ForceStage
<1> QED
  BY <1>6, <1>21, <1>22, <1>23, RequestStep DEF storeVars, historyVars

\* The time of the forced refresh is read.
LEMMA ReadForceTimeStep ==
    ASSUME IInv, NEW r \in Request, ReadForceTime(r)
    PROVE  IInv'
<1>21. TypeOK'
  BY DEF ReadForceTime, storeVars, historyVars, Goto, IInv, TypeOK, Stage, ForceLocals
<1>22. Others(r)
  BY DEF ReadForceTime, storeVars, historyVars, Goto, Others, IInv, TypeOK
<1>23. StageOK(r)'
  BY DEF ReadForceTime, storeVars, historyVars, Goto, IInv, StageInv, StageOK, TypeOK, IssueStage, ForceStage, ForceLocals
<1>24. UNCHANGED <<now, authRefreshCache, lastForced>>
  BY DEF ReadForceTime, storeVars, historyVars, Goto
<1> QED
  BY <1>21, <1>22, <1>23, <1>24, RequestStep

\* The time cannot be stored.
LEMMA SetTimeFailsStep ==
    ASSUME IInv, NEW r \in Request, SetTimeFails(r)
    PROVE  IInv'
<1>21. TypeOK'
  BY ValueTypes DEF SetTimeFails, storeVars, historyVars, Goto, IInv, TypeOK, Stage, AfterForce
<1>22. Others(r)
  BY DEF SetTimeFails, storeVars, historyVars, Goto, Others, IInv, TypeOK, AfterForce
<1>23. StageOK(r)'
  BY ValueTypes DEF SetTimeFails, storeVars, historyVars, Goto, IInv, StageInv, StageOK, TypeOK, IssueStage, ForceStage, AfterForce
<1>24. UNCHANGED <<now, authRefreshCache, lastForced>>
  BY DEF SetTimeFails, storeVars, historyVars, Goto, AfterForce
<1> QED
  BY <1>21, <1>22, <1>23, <1>24, RequestStep

\* The script of SetTime: Redis then has the latest time, or that time is so long
\* ago that no token from before it is left.
LEMMA SetTimeScript ==
    ASSUME IInv, NEW u \in User, NEW t \in Nat,
           authRefreshCache' = setTime(u, t), now' = now,
           lastForced' = [lastForced EXCEPT ![u] = IF @ < t THEN t ELSE @]
    PROVE  /\ DOMAIN authRefreshCache' \subseteq User
           /\ authRefreshCache' \in [DOMAIN authRefreshCache' -> [time : Nat, expires : Nat]]
           /\ lastForced' \in [User -> Nat]
           /\ ForcedInv'
<1> DEFINE L == lastForced[u]
           new == [time |-> t, expires |-> expiration(t)]
<1>1. /\ L \in Nat /\ now \in Nat /\ AuthTTL \in Nat /\ Wiggle \in Nat
      /\ DOMAIN authRefreshCache \subseteq User
      /\ authRefreshCache \in [DOMAIN authRefreshCache -> [time : Nat, expires : Nat]]
      /\ lastForced \in [User -> Nat]
  BY TTLAssumption DEF IInv, TypeOK
<1>2. expiration(t) = t + AuthTTL + Wiggle /\ expiration(t) \in Nat
  BY <1>1 DEF expiration
<1>3. lastForced' \in [User -> Nat] /\ lastForced'[u] = (IF L < t THEN t ELSE L)
  BY <1>1
<1>4. \A v \in User \ {u} : lastForced'[v] = lastForced[v] /\ ForcedOK(v)
  BY <1>1 DEF IInv, ForcedInv
<1>5. ForcedOK(u)
  BY DEF IInv, ForcedInv
<1>6. CASE u \in DOMAIN authRefreshCache /\ authRefreshCache[u].time >= t
  <2>1. authRefreshCache' = authRefreshCache
    BY <1>6 DEF setTime
  <2>2. authRefreshCache[u].time \in Nat
    BY <1>1, <1>6
  <2>3. ForcedOK(u)'
    BY <1>1, <1>3, <1>5, <1>6, <2>1, <2>2 DEF ForcedOK
  <2>4. \A v \in User \ {u} : ForcedOK(v)'
    BY <1>4, <2>1 DEF ForcedOK
  <2> QED
    BY <1>1, <1>3, <2>1, <2>3, <2>4 DEF ForcedInv
<1>7. CASE /\ ~(u \in DOMAIN authRefreshCache /\ authRefreshCache[u].time >= t)
           /\ now < expiration(t)
  <2>1. authRefreshCache' = [x \in DOMAIN authRefreshCache \cup {u} |->
                                IF x = u THEN new ELSE authRefreshCache[x]]
    BY <1>7 DEF setTime
  <2>2. new \in [time : Nat, expires : Nat]
    BY <1>2
  <2>3. L <= t
    <3>1. CASE u \in DOMAIN authRefreshCache
      <4>1. authRefreshCache[u].time \in Nat /\ L <= authRefreshCache[u].time
        BY <1>1, <1>5, <3>1 DEF ForcedOK
      <4> QED
        BY <1>1, <1>7, <3>1, <4>1
    <3>2. CASE u \notin DOMAIN authRefreshCache
      <4>1. L = 0 \/ L + AuthTTL + Wiggle <= now
        BY <1>5, <3>2 DEF ForcedOK
      <4> QED
        BY <1>1, <1>2, <1>7, <4>1
    <3> QED
      BY <3>1, <3>2
  <2>4. ForcedOK(u)'
    <3>1. u \in DOMAIN authRefreshCache' /\ authRefreshCache'[u] = new
      BY <2>1
    <3>2. lastForced'[u] <= t
      BY <1>1, <1>3, <2>3
    <3> QED
      BY <1>2, <3>1, <3>2 DEF ForcedOK
  <2>5. \A v \in User \ {u} : ForcedOK(v)'
    BY <1>4, <2>1 DEF ForcedOK
  <2>6. /\ DOMAIN authRefreshCache' \subseteq User
        /\ authRefreshCache' \in [DOMAIN authRefreshCache' -> [time : Nat, expires : Nat]]
    <3> HIDE DEF new
    <3> QED
      BY <1>1, <2>1, <2>2
  <2> QED
    BY <1>3, <2>4, <2>5, <2>6 DEF ForcedInv
<1>8. CASE /\ ~(u \in DOMAIN authRefreshCache /\ authRefreshCache[u].time >= t)
           /\ ~(now < expiration(t))
  <2>1. authRefreshCache' = [x \in DOMAIN authRefreshCache \ {u} |-> authRefreshCache[x]]
    BY <1>8 DEF setTime
  <2>2. lastForced'[u] = 0 \/ lastForced'[u] + AuthTTL + Wiggle <= now
    <3>1. t + AuthTTL + Wiggle <= now
      BY <1>1, <1>2, <1>8
    <3>2. CASE u \in DOMAIN authRefreshCache
      <4>1. authRefreshCache[u].time \in Nat /\ L <= authRefreshCache[u].time
        BY <1>1, <1>5, <3>2 DEF ForcedOK
      <4> QED
        BY <1>1, <1>3, <1>8, <3>1, <3>2, <4>1
    <3>3. CASE u \notin DOMAIN authRefreshCache
      <4>1. L = 0 \/ L + AuthTTL + Wiggle <= now
        BY <1>5, <3>3 DEF ForcedOK
      <4> QED
        BY <1>1, <1>3, <3>1, <4>1
    <3> QED
      BY <3>2, <3>3
  <2>3. ForcedOK(u)'
    BY <2>1, <2>2 DEF ForcedOK
  <2>4. \A v \in User \ {u} : ForcedOK(v)'
    BY <1>4, <2>1 DEF ForcedOK
  <2>5. /\ DOMAIN authRefreshCache' \subseteq User
        /\ authRefreshCache' \in [DOMAIN authRefreshCache' -> [time : Nat, expires : Nat]]
    BY <1>1, <2>1
  <2> QED
    BY <1>3, <2>3, <2>4, <2>5 DEF ForcedInv
<1> QED
  BY <1>6, <1>7, <1>8

\* The time is stored, and the caller goes on.
LEMMA SetTimeStep ==
    ASSUME IInv, NEW r \in Request, SetTime(r)
    PROVE  IInv'
<1>1. /\ force[r] \in ForceLocals /\ force[r].user \in User
      /\ force[r].invalidated => ctx[r].session \in SessionID
  BY DEF SetTime, IInv, TypeOK, StageInv, StageOK, ForceStage
<1>2. /\ authRefreshCache' = setTime(force[r].user, force[r].time)
      /\ lastForced' = [lastForced EXCEPT ![force[r].user] = IF @ < force[r].time THEN force[r].time ELSE @]
      /\ force' = [force EXCEPT ![r] = NoForce] /\ pc' = [pc EXCEPT ![r] = "respond"]
      /\ UNCHANGED <<now, users, roles, sessions, jar, client, cookies, parsedAt, issue>>
  BY DEF SetTime, AfterForce, Goto
<1>3. /\ DOMAIN authRefreshCache' \subseteq User
      /\ authRefreshCache' \in [DOMAIN authRefreshCache' -> [time : Nat, expires : Nat]]
      /\ lastForced' \in [User -> Nat]
      /\ ForcedInv'
  <2>1. force[r].time \in Nat
    BY <1>1 DEF ForceLocals
  <2> QED
    BY <1>1, <1>2, <2>1, SetTimeScript
<1>4. DOMAIN loggedOut' \subseteq SessionID /\ loggedOut' \in [DOMAIN loggedOut' -> Nat]
  <2>1. force[r].time \in Nat
    BY <1>1 DEF ForceLocals
  <2>2. loggedOut \in [DOMAIN loggedOut -> Nat] /\ DOMAIN loggedOut \subseteq SessionID
    BY DEF IInv, TypeOK
  <2>3. CASE loggedOut' = loggedOut
    BY <2>2, <2>3
  <2>4. CASE /\ force[r].invalidated
             /\ loggedOut' = [x \in DOMAIN loggedOut \cup {ctx[r].session} |->
                                 IF x = ctx[r].session THEN force[r].time ELSE loggedOut[x]]
    BY <1>1, <2>1, <2>2, <2>4
  <2> QED
    BY <2>3, <2>4 DEF SetTime
<1>5. \/ UNCHANGED <<ctx, reply>>
      \/ ctx' = [ctx EXCEPT ![r] = clearSessionState] /\ reply' = [reply EXCEPT ![r] = clearSessionCookies]
  BY DEF SetTime, AfterForce
<1>6. TypeOK'
  <2>1. ctx' \in [Request -> Ctx] /\ reply' \in [Request -> Reply]
    BY <1>5, ValueTypes DEF IInv, TypeOK
  <2>2. force' \in [Request -> ForceLocals] /\ pc' \in [Request -> Stage]
    BY <1>2, ValueTypes DEF IInv, TypeOK, Stage
  <2> QED
    BY <1>2, <1>3, <1>4, <2>1, <2>2 DEF IInv, TypeOK
<1>7. StageInv'
  <2> SUFFICES ASSUME NEW q \in Request PROVE StageOK(q)'
    BY DEF StageInv
  <2>1. StageOK(q)
    BY DEF IInv, StageInv
  <2>2. CASE q = r
    <3>1. pc'[q] = "respond"
      BY <1>2, <2>2 DEF IInv, TypeOK
    <3>2. ctx'[q] = ctx[q] \/ ctx'[q] = clearSessionState
      BY <1>5, <2>2 DEF IInv, TypeOK
    <3> QED
      BY <2>1, <3>1, <3>2, ValueTypes DEF StageOK, IssueStage, ForceStage
  <2>3. CASE q # r
    <3>1. ctx'[q] = ctx[q]
      BY <1>5, <2>3 DEF IInv, TypeOK
    <3>2. pc'[q] = pc[q] /\ force'[q] = force[q]
      BY <1>2, <2>3 DEF IInv, TypeOK
    <3> QED
      BY <1>2, <2>1, <3>1, <3>2 DEF StageOK
  <2> QED
    BY <2>2, <2>3
<1> QED
  BY <1>3, <1>6, <1>7 DEF IInv

\* A response arrives, or is lost; the request is over.
LEMMA FinishStep ==
    ASSUME IInv, NEW r \in Request, Deliver(r) \/ Lose(r)
    PROVE  IInv'
<1>1. /\ pc' = [pc EXCEPT ![r] = "idle"] /\ cookies' = [cookies EXCEPT ![r] = NoCookies]
      /\ ctx' = [ctx EXCEPT ![r] = clearSessionState] /\ reply' = [reply EXCEPT ![r] = KeepCookies]
      /\ UNCHANGED <<now, storeVars, client, parsedAt, issue, force, historyVars>>
  BY DEF Deliver, Lose, Finish, Goto
<1>2. jar' \in [Client -> Cookies]
  BY DEF Deliver, Lose, IInv, TypeOK, Reply
<1>21. TypeOK'
  BY <1>1, <1>2, ValueTypes DEF storeVars, historyVars, IInv, TypeOK, Stage
<1>22. Others(r)
  BY <1>1 DEF Others, IInv, TypeOK
<1>23. StageOK(r)'
  BY <1>1, ValueTypes DEF IInv, StageOK, TypeOK, IssueStage, ForceStage
<1> QED
  BY <1>1, <1>21, <1>22, <1>23, RequestStep DEF storeVars, historyVars

\* Every step keeps the inductive invariant.
LEMMA NextIInv == IInv /\ [Next]_vars => IInv'
<1> SUFFICES ASSUME IInv, [Next]_vars PROVE IInv'
  OBVIOUS
<1>1. CASE Tick
  BY <1>1, TickStep
<1>2. ASSUME NEW r \in Request, NEW c \in Client, SendRequest(r, c) PROVE IInv'
  BY <1>2, SendRequestStep
<1>3. ASSUME NEW r \in Request, NEW u \in User, SetRolesOfUser(r, u) PROVE IInv'
  BY <1>3, SetRolesOfUserStep
<1>4. ASSUME NEW r \in Request, ContinueSession(r) PROVE IInv'
  BY <1>4, ContinueWithoutSessionStep, ParseAuthTokenStep, RejectAuthTokenStep, AcceptAuthTokenStep,
     RefreshAuthTokenStep, RejectRefreshTokenStep, AcceptRefreshTokenStep DEF ContinueSession
<1>5. ASSUME NEW r \in Request, issueSessionTokens(r) PROVE IInv'
  BY <1>5, ReadRolesStep, ReadRolesFailsStep, GenerateAuthTokenStep, UpsertSessionStep,
     UpsertInvalidatedStep, UpsertFailsStep DEF issueSessionTokens
<1>6. ASSUME NEW r \in Request, Resolver(r) PROVE IInv'
  BY <1>6, QueryStep, LoginStep, CreateUserStep, CommitStep, LogoutNobodyStep, LogoutStep, InvalidateFailsStep,
     OptInForRolesStep, OptOutForRolesStep DEF Resolver
<1>7. ASSUME NEW r \in Request, ForceAuthTokenRefresh(r) PROVE IInv'
  BY <1>7, ReadForceTimeStep, SetTimeStep, SetTimeFailsStep DEF ForceAuthTokenRefresh
<1>8. ASSUME NEW r \in Request, Deliver(r) \/ Lose(r) PROVE IInv'
  BY <1>8, FinishStep
<1>9. CASE UNCHANGED vars
  BY <1>9 DEF vars, storeVars, historyVars, IInv, TypeOK, StageInv, StageOK, ForcedInv, ForcedOK
<1> QED
  BY <1>1, <1>2, <1>3, <1>4, <1>5, <1>6, <1>7, <1>8, <1>9 DEF Next

\* The inductive invariant holds in every state the sessions can reach.
THEOREM Invariance == Spec => []IInv
  BY InitIInv, NextIInv, PTL DEF Spec

\* Cookies, contexts, rows and Redis entries keep their types, whatever fails.
THEOREM TypeCorrect == Spec => []TypeOK
<1>1. IInv => TypeOK
  BY DEF IInv
<1> QED
  BY <1>1, Invariance, PTL

----------------------------------------------------------------------------
\* A request is let in on the word of its token by AcceptAuthToken only.
LEMMA OnlyAccept ==
    ASSUME TypeOK, Next, NEW r \in Request, pc[r] = "check", pc'[r] = "resolve"
    PROVE  AcceptAuthToken(r)
<1>1. CASE Tick
  BY <1>1 DEF Tick
<1>2. ASSUME NEW q \in Request, NEW stage, pc' = [pc EXCEPT ![q] = stage], q # r PROVE FALSE
  BY <1>2 DEF TypeOK
<1>3. ASSUME NEW q \in Request, \E c \in Client : SendRequest(q, c) PROVE AcceptAuthToken(r)
  BY <1>2, <1>3 DEF SendRequest, Goto
<1>4. ASSUME NEW q \in Request, \E u \in User : SetRolesOfUser(q, u) PROVE AcceptAuthToken(r)
  BY <1>2, <1>4 DEF SetRolesOfUser, BeginForce, Goto
<1>5. ASSUME NEW q \in Request, ContinueSession(q) PROVE AcceptAuthToken(r)
  <2>1. CASE q # r
    BY <1>2, <1>5, <2>1 DEF ContinueSession, ContinueWithoutSession, ParseAuthToken, RejectAuthToken,
       AcceptAuthToken, RefreshAuthToken, RejectRefreshToken, AcceptRefreshToken, BeginIssue, Goto
  <2>2. CASE q = r
    <3>1. ~RefreshAuthToken(r)
      BY DEF RefreshAuthToken, Goto, TypeOK
    <3> QED
      BY <1>5, <2>2, <3>1 DEF ContinueSession, ContinueWithoutSession, ParseAuthToken, RejectAuthToken,
         RejectRefreshToken, AcceptRefreshToken
  <2> QED
    BY <2>1, <2>2
<1>6. ASSUME NEW q \in Request, issueSessionTokens(q) PROVE AcceptAuthToken(r)
  BY <1>2, <1>6 DEF issueSessionTokens, ReadRoles, ReadRolesFails, GenerateAuthToken, UpsertSession,
     UpsertInvalidated, UpsertFails, IssueFailed, Goto
<1>7. ASSUME NEW q \in Request, Resolver(q) PROVE AcceptAuthToken(r)
  BY <1>2, <1>7 DEF Resolver, Query, Login, CreateUser, Commit, CommitFails, LogoutNobody, Logout, InvalidateFails, OptInForRoles,
     OptOutForRoles, BeginIssue, BeginForce, Goto
<1>8. ASSUME NEW q \in Request, ForceAuthTokenRefresh(q) PROVE AcceptAuthToken(r)
  BY <1>2, <1>8 DEF ForceAuthTokenRefresh, ReadForceTime, SetTime, SetTimeFails, AfterForce, Goto
<1>9. ASSUME NEW q \in Request, Deliver(q) \/ Lose(q) PROVE AcceptAuthToken(r)
  BY <1>2, <1>9 DEF Deliver, Lose, Finish, Goto
<1> QED
  BY <1>1, <1>3, <1>4, <1>5, <1>6, <1>7, <1>8, <1>9 DEF Next

\* The step that believes a token: Redis has the latest time and the token is not
\* older, or the key is gone, and then the token, valid at most Wiggle ago, was
\* issued after that time.
LEMMA AcceptedIsNew ==
    ASSUME IInv, NEW r \in Request, AcceptAuthToken(r)
    PROVE  cookies[r].auth.iat >= lastForced[cookies[r].auth.user]
<1> DEFINE t == cookies[r].auth
           u == cookies[r].auth.user
<1>1. /\ t \in AuthToken
      /\ now <= parsedAt[r] + Wiggle /\ parsedAt[r] < t.iat + AuthTTL
      /\ ~mustRefresh(t)
  BY DEF AcceptAuthToken, IInv, StageInv, StageOK
<1>2. u \in User /\ t.iat \in Nat
  BY <1>1 DEF AuthToken
<1>3. /\ now \in Nat /\ parsedAt[r] \in Nat /\ lastForced[u] \in Nat
      /\ AuthTTL \in Nat /\ Wiggle \in Nat
  BY <1>2, TTLAssumption DEF IInv, TypeOK
<1>4. ForcedOK(u)
  BY <1>2 DEF IInv, ForcedInv
<1>5. CASE u \in DOMAIN authRefreshCache
  <2>1. authRefreshCache[u].time \in Nat
    BY <1>5 DEF IInv, TypeOK
  <2>2. ~(t.iat < authRefreshCache[u].time)
    BY <1>1, <1>5 DEF mustRefresh
  <2>3. lastForced[u] <= authRefreshCache[u].time
    BY <1>4, <1>5 DEF ForcedOK
  <2> QED
    BY <1>2, <1>3, <2>1, <2>2, <2>3
<1>6. CASE u \notin DOMAIN authRefreshCache
  <2>1. lastForced[u] = 0 \/ lastForced[u] + AuthTTL + Wiggle <= now
    BY <1>4, <1>6 DEF ForcedOK
  <2> QED
    BY <1>1, <1>2, <1>3, <2>1
<1> QED
  BY <1>5, <1>6

\* A forced refresh is never undone: no request is let in on the word of a token
\* issued before the latest time ForceAuthTokenRefresh ever stored for its user.
THEOREM ForcedRefreshIsKept == Spec => ForcedRefreshHolds
<1>1. ASSUME IInv, [Next]_vars
      PROVE  [\A r \in Request : AcceptsToken(r) =>
                 cookies[r].auth.iat >= lastForced[cookies[r].auth.user]]_vars
  <2>1. CASE UNCHANGED vars
    BY <2>1
  <2>2. CASE Next
    BY <1>1, <2>2, OnlyAccept, AcceptedIsNew DEF AcceptsToken, IInv
  <2> QED
    BY <1>1, <2>1, <2>2
<1> QED
  BY <1>1, Invariance, PTL DEF Spec, ForcedRefreshHolds

----------------------------------------------------------------------------
(* Tokens, their sessions, and logouts                                     *)

\* The cookies that are anywhere: held by a client, carried by a request, or on
\* their way back.
Held(c) ==
    \/ \E k \in Client : c = jar[k]
    \/ \E r \in Request : c = cookies[r] \/ c = reply[r].cookies

\* The tokens among cookies c have rows, of their users, committed or not.
Backed(c) ==
    /\ c.auth # NoToken /\ c.auth.session # NoSession => Started(c.auth.session, c.auth.user)
    /\ c.refresh # NoToken => Started(c.refresh.session, c.refresh.user)

\* Request r, which logs its session out, has read the time and not yet stored it.
Storing(r) == pc[r] = "setTime" /\ force[r].invalidated

\* The auth token among cookies c was issued before now, before its session was
\* logged out and before the time that a logout of its session has read.
Aged(c) ==
    c.auth # NoToken =>
        /\ c.auth.iat <= now
        /\ c.auth.session \in DOMAIN loggedOut => c.auth.iat <= loggedOut[c.auth.session]
        /\ \A r \in Request : Storing(r) /\ ctx[r].session = c.auth.session => c.auth.iat <= force[r].time

HeldInv == \A c \in Cookies : Held(c) => Backed(c) /\ Aged(c)

\* Session s will issue no tokens: it is invalidated, or its user was not created.
Dead(s) == sessions[s].invalidated \/ sessions[s].txn = "rolledBack"

\* Session s is dead and belongs to user u.
Ended(s, u) == Started(s, u) /\ Dead(s)

\* What request r knows of the sessions table: the session it starts has no row yet,
\* one it continues has, its context's session has, and one it logs out is ended.
RowOK(r) ==
    /\ pc[r] \in IssueStage =>
          /\ issue[r].start => issue[r].session \notin DOMAIN sessions
          /\ ~issue[r].start => Started(issue[r].session, issue[r].user)
          /\ issue[r].iat <= now
    /\ ctx[r].authed => Started(ctx[r].session, ctx[r].user)
    /\ pc[r] \in ForceStage /\ force[r].invalidated => Ended(ctx[r].session, force[r].user)

RowInv == \A r \in Request : RowOK(r)

\* Request r is starting a session; no two requests start the same one.
Starting(r) == pc[r] \in IssueStage /\ issue[r].start
StartInv ==
    \A q, r \in Request : Starting(q) /\ Starting(r) /\ issue[q].session = issue[r].session => q = r

\* A session that was logged out is ended, and its user was forced to refresh then.
EndedInv ==
    \A s \in DOMAIN loggedOut :
        /\ s \in DOMAIN sessions /\ Dead(s)
        /\ loggedOut[s] <= lastForced[sessions[s].user]

LInv == HeldInv /\ RowInv /\ StartInv /\ EndedInv

\* The cookies that can come back with a request: all but those CreateUser has set
\* and not yet sent.
Out(c) ==
    \/ \E k \in Client : c = jar[k]
    \/ \E r \in Request : c = cookies[r] \/ (pc[r] # "commit" /\ c = reply[r].cookies)

\* The transaction that wrote row s is over.
Settled(s) == sessions[s].txn # "open"
TokensSettled(c) ==
    /\ c.auth # NoToken /\ c.auth.session # NoSession => Settled(c.auth.session)
    /\ c.refresh # NoToken => Settled(c.refresh.session)

\* Nobody knows of a session whose transaction is open but the request that runs it.
SettledInv ==
    /\ \A c \in Cookies : Out(c) => TokensSettled(c)
    /\ \A r \in Request : pc[r] # "commit" /\ ctx[r].authed => Settled(ctx[r].session)

\* The rows of a user are committed with the user.
UserInv == \A s \in DOMAIN sessions : sessions[s].txn = "committed" <=> sessions[s].user \in users

\* A request that creates a user is the only one with that user and its session.
Creating(r) == pc[r] \in IssueStage /\ issue[r].then = "commit"
CreateOK(r) ==
    /\ Creating(r) =>
          /\ issue[r].start /\ issue[r].user \notin users
          /\ \A s \in DOMAIN sessions : sessions[s].user # issue[r].user
    /\ pc[r] = "commit" =>
          /\ sessions[ctx[r].session].txn = "open"
          /\ \A s \in DOMAIN sessions : sessions[s].user = ctx[r].user => s = ctx[r].session
          /\ reply[r].cookies.auth.session = ctx[r].session
          /\ reply[r].cookies.refresh.session = ctx[r].session
CreateInv ==
    /\ \A r \in Request : CreateOK(r)
    /\ \A q, r \in Request : Creating(q) /\ Creating(r) /\ issue[q].user = issue[r].user => q = r
    /\ \A q, r \in Request : pc[q] = "commit" /\ pc[r] = "commit" /\ ctx[q].session = ctx[r].session => q = r

\* Users, their rows and the transactions that write them.
TInv == SettledInv /\ UserInv /\ CreateInv

----------------------------------------------------------------------------
\* No cookies have nothing to be backed.
LEMMA NoCookiesOK == Backed(NoCookies) /\ Aged(NoCookies)
  BY DEF Backed, Aged, NoCookies

\* There are no rows at first, and no transactions.
LEMMA InitTInv == Init => TInv
<1> SUFFICES ASSUME Init PROVE TInv
  OBVIOUS
<1>1. SettledInv
  <2> SUFFICES ASSUME NEW c \in Cookies, Out(c) PROVE TokensSettled(c)
    BY ValueTypes DEF SettledInv, Init
  <2>1. \/ c = NoCookies
        \/ \E u \in User : c = [auth |-> [user |-> u, session |-> NoSession, roles |-> {}, iat |-> 0],
                               refresh |-> NoToken]
    BY DEF Init, Out, KeepCookies
  <2> QED
    BY <2>1 DEF TokensSettled, NoCookies
<1>2. UserInv /\ CreateInv
  BY DEF Init, UserInv, CreateInv, CreateOK, Creating, IssueStage
<1> QED
  BY <1>1, <1>2 DEF TInv

\* Nothing is held at first but tokens without a session.
LEMMA InitLInv == Init => LInv
<1> SUFFICES ASSUME Init PROVE LInv
  OBVIOUS
<1>1. HeldInv
  <2> SUFFICES ASSUME NEW c \in Cookies, Held(c) PROVE Backed(c) /\ Aged(c)
    BY DEF HeldInv
  <2>1. CASE c = NoCookies
    BY <2>1, NoCookiesOK
  <2>2. CASE c # NoCookies
    <3>1. PICK u \in User : c = [auth |-> [user |-> u, session |-> NoSession, roles |-> {}, iat |-> 0],
                                 refresh |-> NoToken]
      BY <2>2 DEF Init, Held, KeepCookies
    <3>2. /\ c.auth.session = NoSession /\ c.auth.iat = 0 /\ c.refresh = NoToken
          /\ now = 0 /\ NoSession \notin DOMAIN loggedOut
      BY <3>1 DEF Init
    <3>3. \A r \in Request : ~Storing(r)
      BY DEF Init, Storing
    <3> QED
      BY <3>2, <3>3 DEF Backed, Aged
  <2> QED
    BY <2>1, <2>2
<1>2. RowInv /\ StartInv /\ EndedInv
  BY ValueTypes DEF Init, RowInv, RowOK, StartInv, Starting, EndedInv, IssueStage, ForceStage
<1> QED
  BY <1>1, <1>2 DEF LInv

\* Cookies that are held after a step were held before, but for none at all.
HeldKept == \A c \in Cookies : Held(c)' => Held(c) \/ c = NoCookies

\* If request r starts a session after the step, it started it before, or nobody did.
StartKept(r) ==
    Starting(r)' => \/ Starting(r) /\ issue'[r].session = issue[r].session
                    \/ \A q \in Request : issue'[r].session # issue[q].session

\* A logout that comes to store its time has just read it.
TimeKept(r) == Storing(r)' => force'[r].time = now

\* A step of request r that leaves clock, rows and history alone.
LEMMA QuietStep ==
    ASSUME IInv, LInv, NEW r \in Request, Others(r), HeldKept, StartKept(r), TimeKept(r), RowOK(r)',
           UNCHANGED <<now, sessions, loggedOut, lastForced>>
    PROVE  LInv'
<1>1. \A q \in Request \ {r} : Storing(q)' <=> Storing(q)
  BY DEF Others, Storing
<1>2. HeldInv'
  <2> SUFFICES ASSUME NEW c \in Cookies, Held(c)' PROVE (Backed(c) /\ Aged(c))'
    BY DEF HeldInv
  <2>1. Backed(c) /\ Aged(c)
    BY NoCookiesOK DEF HeldKept, LInv, HeldInv
  <2>2. Backed(c)'
    BY <2>1 DEF Backed, Started
  <2>3. ASSUME NEW q \in Request, Storing(q)', ctx'[q].session = c.auth.session, c.auth # NoToken
        PROVE  c.auth.iat <= force'[q].time
    <3>1. CASE q = r
      BY <2>1, <2>3, <3>1 DEF TimeKept, Aged
    <3>2. CASE q # r
      BY <1>1, <2>1, <2>3, <3>2 DEF Others, Aged
    <3> QED
      BY <3>1, <3>2
  <2>4. Aged(c)'
    BY <2>1, <2>3 DEF Aged
  <2> QED
    BY <2>2, <2>4
<1>3. RowInv'
  <2> SUFFICES ASSUME NEW q \in Request \ {r} PROVE RowOK(q)'
    BY DEF RowInv
  <2> QED
    BY DEF LInv, RowInv, RowOK, Started, Ended, Dead, Others
<1>4. StartInv'
  <2> SUFFICES ASSUME NEW p \in Request, NEW q \in Request, Starting(p)', Starting(q)',
                      issue'[p].session = issue'[q].session, p # q
               PROVE  FALSE
    BY DEF StartInv
  <2>1. ASSUME NEW x \in Request \ {r}, Starting(x)' PROVE Starting(x) /\ issue'[x].session = issue[x].session
    BY <2>1 DEF Others, Starting
  <2>2. ASSUME NEW x \in Request \ {r}, Starting(x)', Starting(r)', issue'[x].session = issue'[r].session
        PROVE  FALSE
    BY <2>1, <2>2 DEF StartKept, LInv, StartInv
  <2>3. CASE p = r
    BY <2>2, <2>3
  <2>4. CASE q = r
    BY <2>2, <2>4
  <2>5. CASE p # r /\ q # r
    BY <2>1, <2>5 DEF LInv, StartInv
  <2> QED
    BY <2>3, <2>4, <2>5
<1>5. EndedInv'
  BY DEF LInv, EndedInv, Dead
<1> QED
  BY <1>2, <1>3, <1>4, <1>5 DEF LInv

\* A request carries cookies that its client holds.
LEMMA SendRequestRows ==
    ASSUME IInv, LInv, NEW r \in Request, NEW c \in Client, SendRequest(r, c)
    PROVE  LInv'
<1>21. Others(r)
  BY DEF SendRequest, storeVars, historyVars, Goto, Others, IInv, TypeOK
<1>22. HeldKept
  BY DEF SendRequest, storeVars, historyVars, Goto, HeldKept, Held, IInv, TypeOK
<1>23. StartKept(r) /\ TimeKept(r)
  BY DEF SendRequest, storeVars, historyVars, Goto, StartKept, TimeKept, Starting, Storing, IssueStage, IInv, TypeOK
<1>24. RowOK(r)'
  BY DEF SendRequest, storeVars, historyVars, Goto, LInv, RowInv, RowOK, Started, Ended, Dead, IssueStage, ForceStage, IInv, TypeOK
<1>25. UNCHANGED <<now, sessions, loggedOut, lastForced>>
  BY DEF SendRequest, storeVars, historyVars, Goto
<1> QED
  BY <1>21, <1>22, <1>23, <1>24, <1>25, QuietStep

\* The auth token is not valid.
LEMMA RejectAuthTokenRows ==
    ASSUME IInv, LInv, NEW r \in Request, RejectAuthToken(r)
    PROVE  LInv'
<1>21. Others(r)
  BY DEF RejectAuthToken, storeVars, historyVars, Goto, Others, IInv, TypeOK
<1>22. HeldKept
  BY DEF RejectAuthToken, storeVars, historyVars, Goto, HeldKept, Held, IInv, TypeOK
<1>23. StartKept(r) /\ TimeKept(r)
  BY DEF RejectAuthToken, storeVars, historyVars, Goto, StartKept, TimeKept, Starting, Storing, IssueStage, IInv, TypeOK
<1>24. RowOK(r)'
  BY DEF RejectAuthToken, storeVars, historyVars, Goto, LInv, RowInv, RowOK, Started, Ended, Dead, IssueStage, ForceStage, IInv, TypeOK
<1>25. UNCHANGED <<now, sessions, loggedOut, lastForced>>
  BY DEF RejectAuthToken, storeVars, historyVars, Goto
<1> QED
  BY <1>21, <1>22, <1>23, <1>24, <1>25, QuietStep

\* The auth token is valid.
LEMMA ParseAuthTokenRows ==
    ASSUME IInv, LInv, NEW r \in Request, ParseAuthToken(r)
    PROVE  LInv'
<1>21. Others(r)
  BY DEF ParseAuthToken, storeVars, historyVars, Goto, Others, IInv, TypeOK
<1>22. HeldKept
  BY DEF ParseAuthToken, storeVars, historyVars, Goto, HeldKept, Held, IInv, TypeOK
<1>23. StartKept(r) /\ TimeKept(r)
  BY DEF ParseAuthToken, storeVars, historyVars, Goto, StartKept, TimeKept, Starting, Storing, IssueStage, IInv, TypeOK
<1>24. RowOK(r)'
  BY DEF ParseAuthToken, storeVars, historyVars, Goto, LInv, RowInv, RowOK, Started, Ended, Dead, IssueStage, ForceStage, IInv, TypeOK
<1>25. UNCHANGED <<now, sessions, loggedOut, lastForced>>
  BY DEF ParseAuthToken, storeVars, historyVars, Goto
<1> QED
  BY <1>21, <1>22, <1>23, <1>24, <1>25, QuietStep

\* The auth token must be refreshed.
LEMMA RefreshAuthTokenRows ==
    ASSUME IInv, LInv, NEW r \in Request, RefreshAuthToken(r)
    PROVE  LInv'
<1>21. Others(r)
  BY DEF RefreshAuthToken, storeVars, historyVars, Goto, Others, IInv, TypeOK
<1>22. HeldKept
  BY DEF RefreshAuthToken, storeVars, historyVars, Goto, HeldKept, Held, IInv, TypeOK
<1>23. StartKept(r) /\ TimeKept(r)
  BY DEF RefreshAuthToken, storeVars, historyVars, Goto, StartKept, TimeKept, Starting, Storing, IssueStage, IInv, TypeOK
<1>24. RowOK(r)'
  BY DEF RefreshAuthToken, storeVars, historyVars, Goto, LInv, RowInv, RowOK, Started, Ended, Dead, IssueStage, ForceStage, IInv, TypeOK
<1>25. UNCHANGED <<now, sessions, loggedOut, lastForced>>
  BY DEF RefreshAuthToken, storeVars, historyVars, Goto
<1> QED
  BY <1>21, <1>22, <1>23, <1>24, <1>25, QuietStep

\* No session to continue.
LEMMA RejectRefreshTokenRows ==
    ASSUME IInv, LInv, NEW r \in Request, RejectRefreshToken(r)
    PROVE  LInv'
<1>21. Others(r)
  BY DEF RejectRefreshToken, storeVars, historyVars, Goto, Others, IInv, TypeOK
<1>22. HeldKept
  BY DEF RejectRefreshToken, storeVars, historyVars, Goto, HeldKept, Held, IInv, TypeOK, clearSessionCookies
<1>23. StartKept(r) /\ TimeKept(r)
  BY DEF RejectRefreshToken, storeVars, historyVars, Goto, StartKept, TimeKept, Starting, Storing, IssueStage, IInv, TypeOK
<1>24. RowOK(r)'
  BY ValueTypes DEF RejectRefreshToken, storeVars, historyVars, Goto, LInv, RowInv, RowOK, Started, Ended, Dead, IssueStage, ForceStage, IInv, TypeOK
<1>25. UNCHANGED <<now, sessions, loggedOut, lastForced>>
  BY DEF RejectRefreshToken, storeVars, historyVars, Goto
<1> QED
  BY <1>21, <1>22, <1>23, <1>24, <1>25, QuietStep

\* A resolver that leaves the session alone.
LEMMA QueryRows ==
    ASSUME IInv, LInv, NEW r \in Request, Query(r)
    PROVE  LInv'
<1>21. Others(r)
  BY DEF Query, storeVars, historyVars, Goto, Others, IInv, TypeOK
<1>22. HeldKept
  BY DEF Query, storeVars, historyVars, Goto, HeldKept, Held, IInv, TypeOK
<1>23. StartKept(r) /\ TimeKept(r)
  BY DEF Query, storeVars, historyVars, Goto, StartKept, TimeKept, Starting, Storing, IssueStage, IInv, TypeOK
<1>24. RowOK(r)'
  BY DEF Query, storeVars, historyVars, Goto, LInv, RowInv, RowOK, Started, Ended, Dead, IssueStage, ForceStage, IInv, TypeOK
<1>25. UNCHANGED <<now, sessions, loggedOut, lastForced>>
  BY DEF Query, storeVars, historyVars, Goto
<1> QED
  BY <1>21, <1>22, <1>23, <1>24, <1>25, QuietStep

\* A logout without a user.
LEMMA LogoutNobodyRows ==
    ASSUME IInv, LInv, NEW r \in Request, LogoutNobody(r)
    PROVE  LInv'
<1>21. Others(r)
  BY DEF LogoutNobody, storeVars, historyVars, Goto, Others, IInv, TypeOK
<1>22. HeldKept
  BY DEF LogoutNobody, storeVars, historyVars, Goto, HeldKept, Held, IInv, TypeOK, clearSessionCookies
<1>23. StartKept(r) /\ TimeKept(r)
  BY DEF LogoutNobody, storeVars, historyVars, Goto, StartKept, TimeKept, Starting, Storing, IssueStage, IInv, TypeOK
<1>24. RowOK(r)'
  BY ValueTypes DEF LogoutNobody, storeVars, historyVars, Goto, LInv, RowInv, RowOK, Started, Ended, Dead, IssueStage, ForceStage, IInv, TypeOK
<1>25. UNCHANGED <<now, sessions, loggedOut, lastForced>>
  BY DEF LogoutNobody, storeVars, historyVars, Goto
<1> QED
  BY <1>21, <1>22, <1>23, <1>24, <1>25, QuietStep

\* The roles are read.
LEMMA ReadRolesRows ==
    ASSUME IInv, LInv, NEW r \in Request, ReadRoles(r)
    PROVE  LInv'
<1>21. Others(r)
  BY DEF ReadRoles, storeVars, historyVars, Goto, Others, IInv, TypeOK
<1>22. HeldKept
  BY DEF ReadRoles, storeVars, historyVars, Goto, HeldKept, Held, IInv, TypeOK
<1>23. StartKept(r) /\ TimeKept(r)
  BY DEF ReadRoles, storeVars, historyVars, Goto, StartKept, TimeKept, Starting, Storing, IssueStage, IInv, TypeOK, IssueLocals
<1>24. RowOK(r)'
  BY DEF ReadRoles, storeVars, historyVars, Goto, LInv, RowInv, RowOK, Started, Ended, Dead, IssueStage, ForceStage, IInv, TypeOK, IssueLocals
<1>25. UNCHANGED <<now, sessions, loggedOut, lastForced>>
  BY DEF ReadRoles, storeVars, historyVars, Goto
<1> QED
  BY <1>21, <1>22, <1>23, <1>24, <1>25, QuietStep

\* The auth token is stamped.
LEMMA GenerateAuthTokenRows ==
    ASSUME IInv, LInv, NEW r \in Request, GenerateAuthToken(r)
    PROVE  LInv'
<1>21. Others(r)
  BY DEF GenerateAuthToken, storeVars, historyVars, Goto, Others, IInv, TypeOK
<1>22. HeldKept
  BY DEF GenerateAuthToken, storeVars, historyVars, Goto, HeldKept, Held, IInv, TypeOK
<1>23. StartKept(r) /\ TimeKept(r)
  BY DEF GenerateAuthToken, storeVars, historyVars, Goto, StartKept, TimeKept, Starting, Storing, IssueStage, IInv, TypeOK, IssueLocals
<1>24. RowOK(r)'
  BY DEF GenerateAuthToken, storeVars, historyVars, Goto, LInv, RowInv, RowOK, Started, Ended, Dead, IssueStage, ForceStage, IInv, TypeOK, IssueLocals
<1>25. UNCHANGED <<now, sessions, loggedOut, lastForced>>
  BY DEF GenerateAuthToken, storeVars, historyVars, Goto
<1> QED
  BY <1>21, <1>22, <1>23, <1>24, <1>25, QuietStep

\* The roles cannot be read.
LEMMA ReadRolesFailsRows ==
    ASSUME IInv, LInv, NEW r \in Request, ReadRolesFails(r)
    PROVE  LInv'
<1>21. Others(r)
  BY DEF ReadRolesFails, storeVars, historyVars, Goto, IssueFailed, Others, IInv, TypeOK
<1>22. HeldKept
  BY DEF ReadRolesFails, storeVars, historyVars, Goto, IssueFailed, HeldKept, Held, IInv, TypeOK, clearSessionCookies
<1>23. StartKept(r) /\ TimeKept(r)
  BY DEF ReadRolesFails, storeVars, historyVars, Goto, IssueFailed, StartKept, TimeKept, Starting, Storing, IssueStage, IInv, TypeOK, IssueLocals
<1>24. RowOK(r)'
  BY ValueTypes DEF ReadRolesFails, storeVars, historyVars, Goto, IssueFailed, LInv, RowInv, RowOK, Started, Ended, Dead, IssueStage, ForceStage, IInv, TypeOK, IssueLocals
<1>25. UNCHANGED <<now, sessions, loggedOut, lastForced>>
  BY DEF ReadRolesFails, storeVars, historyVars, Goto, IssueFailed
<1> QED
  BY <1>21, <1>22, <1>23, <1>24, <1>25, QuietStep

\* The session cannot be stored.
LEMMA UpsertFailsRows ==
    ASSUME IInv, LInv, NEW r \in Request, UpsertFails(r)
    PROVE  LInv'
<1>21. Others(r)
  BY DEF UpsertFails, storeVars, historyVars, Goto, IssueFailed, Others, IInv, TypeOK
<1>22. HeldKept
  BY DEF UpsertFails, storeVars, historyVars, Goto, IssueFailed, HeldKept, Held, IInv, TypeOK, clearSessionCookies
<1>23. StartKept(r) /\ TimeKept(r)
  BY DEF UpsertFails, storeVars, historyVars, Goto, IssueFailed, StartKept, TimeKept, Starting, Storing, IssueStage, IInv, TypeOK, IssueLocals
<1>24. RowOK(r)'
  BY ValueTypes DEF UpsertFails, storeVars, historyVars, Goto, IssueFailed, LInv, RowInv, RowOK, Started, Ended, Dead, IssueStage, ForceStage, IInv, TypeOK, IssueLocals
<1>25. UNCHANGED <<now, sessions, loggedOut, lastForced>>
  BY DEF UpsertFails, storeVars, historyVars, Goto, IssueFailed
<1> QED
  BY <1>21, <1>22, <1>23, <1>24, <1>25, QuietStep

\* What a client holds, and what a request carries, is backed by rows and of age.
LEMMA HeldOK ==
    ASSUME IInv, LInv
    PROVE  /\ \A r \in Request : Backed(cookies[r]) /\ Aged(cookies[r])
           /\ \A r \in Request : Backed(reply[r].cookies) /\ Aged(reply[r].cookies)
           /\ \A k \in Client : Backed(jar[k]) /\ Aged(jar[k])
<1>1. \A r \in Request : cookies[r] \in Cookies /\ reply[r].cookies \in Cookies
  BY DEF IInv, TypeOK, Reply
<1>2. \A k \in Client : jar[k] \in Cookies
  BY DEF IInv, TypeOK
<1>3. \A r \in Request : Held(cookies[r]) /\ Held(reply[r].cookies)
  BY DEF Held
<1>4. \A k \in Client : Held(jar[k])
  BY DEF Held
<1> QED
  BY <1>1, <1>2, <1>3, <1>4 DEF LInv, HeldInv

\* A call of issueSessionTokens has its arguments and no time of issue yet.
LEMMA BeginIssueNew ==
    ASSUME NEW u \in User, NEW s \in SessionID, NEW start \in BOOLEAN,
           NEW then \in {"resolve", "respond", "commit"}
    PROVE  LET i == [NoIssue EXCEPT !.user = u, !.session = s, !.start = start, !.then = then]
           IN  i \in IssueLocals /\ i.user = u /\ i.session = s /\ i.start = start /\ i.iat = 0
  BY DEF NoIssue, IssueLocals

\* A token without a session starts one that has no row.
LEMMA ContinueWithoutSessionRows ==
    ASSUME IInv, LInv, NEW r \in Request, ContinueWithoutSession(r)
    PROVE  LInv'
<1>1. cookies[r].auth.user \in User
  BY ValidTokens DEF ContinueWithoutSession, IInv, AuthToken
<1>5. PICK i \in IssueLocals :
           /\ i.start /\ i.session \notin DOMAIN sessions /\ i.iat = 0
           /\ \A q \in Request : i.session # issue[q].session
           /\ issue' = [issue EXCEPT ![r] = i] /\ pc' = [pc EXCEPT ![r] = "roles"]
  <2>1. PICK s \in FreshSessionID : BeginIssue(r, cookies[r].auth.user, s, TRUE, "resolve")
    BY DEF ContinueWithoutSession
  <2>2. s \in SessionID /\ s \notin DOMAIN sessions /\ \A q \in Request : s # issue[q].session
    BY DEF FreshSessionID
  <2>3. PICK i \in IssueLocals :
               /\ i.start /\ i.session = s /\ i.iat = 0
               /\ issue' = [issue EXCEPT ![r] = i] /\ pc' = [pc EXCEPT ![r] = "roles"]
    BY <1>1, <2>1, <2>2, BeginIssueNew DEF BeginIssue, Goto
  <2> QED
    BY <2>2, <2>3
<1>6. UNCHANGED <<now, sessions, jar, client, cookies, parsedAt, ctx, force, reply, loggedOut, lastForced>>
  BY DEF ContinueWithoutSession, storeVars, historyVars
<1>7. now \in Nat /\ pc'[r] = "roles" /\ issue'[r] \in IssueLocals /\ ctx'[r] = ctx[r]
  BY <1>5, <1>6 DEF IInv, TypeOK
<1>21. Others(r)
  BY <1>5, <1>6 DEF Others, IInv, TypeOK
<1>22. HeldKept
  BY <1>6 DEF HeldKept, Held
<1>23. StartKept(r) /\ TimeKept(r)
  BY <1>5, <1>7 DEF StartKept, TimeKept, Starting, Storing, IInv, TypeOK
<1>24. RowOK(r)'
  <2>1. issue'[r].iat <= now
    BY <1>5, <1>7 DEF IInv, TypeOK
  <2> QED
    BY <1>5, <1>6, <1>7, <2>1 DEF LInv, RowInv, RowOK, Started, ForceStage, IInv, TypeOK
<1> QED
  BY <1>6, <1>21, <1>22, <1>23, <1>24, QuietStep

\* A login starts a session that has no row.
LEMMA LoginRows ==
    ASSUME IInv, LInv, NEW r \in Request, NEW u \in User, Login(r, u)
    PROVE  LInv'
<1>1. u \in User
  OBVIOUS
<1>5. PICK i \in IssueLocals :
           /\ i.start /\ i.session \notin DOMAIN sessions /\ i.iat = 0
           /\ \A q \in Request : i.session # issue[q].session
           /\ issue' = [issue EXCEPT ![r] = i] /\ pc' = [pc EXCEPT ![r] = "roles"]
  <2>1. PICK s \in FreshSessionID : BeginIssue(r, u, s, TRUE, "respond")
    BY DEF Login
  <2>2. s \in SessionID /\ s \notin DOMAIN sessions /\ \A q \in Request : s # issue[q].session
    BY DEF FreshSessionID
  <2>3. PICK i \in IssueLocals :
               /\ i.start /\ i.session = s /\ i.iat = 0
               /\ issue' = [issue EXCEPT ![r] = i] /\ pc' = [pc EXCEPT ![r] = "roles"]
    BY <1>1, <2>1, <2>2, BeginIssueNew DEF BeginIssue, Goto
  <2> QED
    BY <2>2, <2>3
<1>6. UNCHANGED <<now, sessions, jar, client, cookies, parsedAt, ctx, force, reply, loggedOut, lastForced>>
  BY DEF Login, storeVars, historyVars
<1>7. now \in Nat /\ pc'[r] = "roles" /\ issue'[r] \in IssueLocals /\ ctx'[r] = ctx[r]
  BY <1>5, <1>6 DEF IInv, TypeOK
<1>21. Others(r)
  BY <1>5, <1>6 DEF Others, IInv, TypeOK
<1>22. HeldKept
  BY <1>6 DEF HeldKept, Held
<1>23. StartKept(r) /\ TimeKept(r)
  BY <1>5, <1>7 DEF StartKept, TimeKept, Starting, Storing, IInv, TypeOK
<1>24. RowOK(r)'
  <2>1. issue'[r].iat <= now
    BY <1>5, <1>7 DEF IInv, TypeOK
  <2> QED
    BY <1>5, <1>6, <1>7, <2>1 DEF LInv, RowInv, RowOK, Started, ForceStage, IInv, TypeOK
<1> QED
  BY <1>6, <1>21, <1>22, <1>23, <1>24, QuietStep

\* A new user starts a session that has no row.
LEMMA CreateUserRows ==
    ASSUME IInv, LInv, NEW r \in Request, CreateUser(r)
    PROVE  LInv'
<1>5. PICK i \in IssueLocals :
           /\ i.start /\ i.session \notin DOMAIN sessions /\ i.iat = 0
           /\ \A q \in Request : i.session # issue[q].session
           /\ issue' = [issue EXCEPT ![r] = i] /\ pc' = [pc EXCEPT ![r] = "roles"]
  <2>1. PICK u \in FreshUserID, s \in FreshSessionID : BeginIssue(r, u, s, TRUE, "commit")
    BY DEF CreateUser
  <2>2. /\ u \in User /\ s \in SessionID
        /\ s \notin DOMAIN sessions /\ \A q \in Request : s # issue[q].session
    BY DEF FreshUserID, FreshSessionID
  <2>3. PICK i \in IssueLocals :
               /\ i.start /\ i.session = s /\ i.iat = 0
               /\ issue' = [issue EXCEPT ![r] = i] /\ pc' = [pc EXCEPT ![r] = "roles"]
    BY <2>1, <2>2, BeginIssueNew DEF BeginIssue, Goto
  <2> QED
    BY <2>2, <2>3
<1>6. UNCHANGED <<now, sessions, jar, client, cookies, parsedAt, ctx, force, reply, loggedOut, lastForced>>
  BY DEF CreateUser, storeVars, historyVars
<1>7. now \in Nat /\ pc'[r] = "roles" /\ issue'[r] \in IssueLocals /\ ctx'[r] = ctx[r]
  BY <1>5, <1>6 DEF IInv, TypeOK
<1>21. Others(r)
  BY <1>5, <1>6 DEF Others, IInv, TypeOK
<1>22. HeldKept
  BY <1>6 DEF HeldKept, Held
<1>23. StartKept(r) /\ TimeKept(r)
  BY <1>5, <1>7 DEF StartKept, TimeKept, Starting, Storing, IInv, TypeOK
<1>24. RowOK(r)'
  <2>1. issue'[r].iat <= now
    BY <1>5, <1>7 DEF IInv, TypeOK
  <2> QED
    BY <1>5, <1>6, <1>7, <2>1 DEF LInv, RowInv, RowOK, Started, ForceStage, IInv, TypeOK
<1> QED
  BY <1>6, <1>21, <1>22, <1>23, <1>24, QuietStep

\* A refresh token continues a session that has a row.
LEMMA AcceptRefreshTokenRows ==
    ASSUME IInv, LInv, NEW r \in Request, AcceptRefreshToken(r)
    PROVE  LInv'
<1>1. cookies[r].refresh.user \in User /\ cookies[r].refresh.session \in SessionID
  BY ValidTokens DEF AcceptRefreshToken, IInv, RefreshToken
<1>5. PICK i \in IssueLocals :
           /\ ~i.start /\ Started(i.session, i.user) /\ i.iat = 0
           /\ issue' = [issue EXCEPT ![r] = i] /\ pc' = [pc EXCEPT ![r] = "roles"]
  <2>1. BeginIssue(r, cookies[r].refresh.user, cookies[r].refresh.session, FALSE, "resolve")
    BY DEF AcceptRefreshToken
  <2>2. Started(cookies[r].refresh.session, cookies[r].refresh.user)
    BY HeldOK DEF AcceptRefreshToken, validRefresh, Backed
  <2> QED
    BY <1>1, <2>1, <2>2, BeginIssueNew DEF BeginIssue, Goto
<1>6. UNCHANGED <<now, sessions, jar, client, cookies, parsedAt, ctx, force, reply, loggedOut, lastForced>>
  BY DEF AcceptRefreshToken, storeVars, historyVars
<1>7. now \in Nat /\ pc'[r] = "roles" /\ issue'[r] \in IssueLocals /\ ctx'[r] = ctx[r]
  BY <1>5, <1>6 DEF IInv, TypeOK
<1>21. Others(r)
  BY <1>5, <1>6 DEF Others, IInv, TypeOK
<1>22. HeldKept
  BY <1>6 DEF HeldKept, Held
<1>23. StartKept(r) /\ TimeKept(r)
  BY <1>5, <1>7 DEF StartKept, TimeKept, Starting, Storing, IInv, TypeOK
<1>24. RowOK(r)'
  <2>1. issue'[r].iat <= now
    BY <1>5, <1>7 DEF IInv, TypeOK
  <2> QED
    BY <1>5, <1>6, <1>7, <2>1 DEF LInv, RowInv, RowOK, Started, ForceStage, IInv, TypeOK
<1> QED
  BY <1>6, <1>21, <1>22, <1>23, <1>24, QuietStep

\* A context that believes a token has a session with a row.
LEMMA AcceptAuthTokenRows ==
    ASSUME IInv, LInv, NEW r \in Request, AcceptAuthToken(r)
    PROVE  LInv'
<1> DEFINE t == cookies[r].auth
           c == setSessionState(t.user, t.session, t.roles)
<1>1. t \in AuthToken /\ t.session \in SessionID
  BY DEF AcceptAuthToken, IInv, StageInv, StageOK
<1>2. Started(c.session, c.user)
  <2>1. t # NoToken /\ t.session # NoSession
    BY <1>1, NoneAssumption DEF AcceptAuthToken, IInv, StageInv, StageOK
  <2> QED
    BY <2>1, HeldOK DEF Backed, setSessionState
<1>3. /\ pc' = [pc EXCEPT ![r] = "resolve"] /\ ctx' = [ctx EXCEPT ![r] = c]
      /\ parsedAt' = [parsedAt EXCEPT ![r] = 0]
      /\ UNCHANGED <<now, sessions, jar, cookies, issue, force, reply, loggedOut, lastForced>>
  BY DEF AcceptAuthToken, Goto, storeVars, historyVars
<1> HIDE DEF t, c
<1>21. Others(r)
  BY <1>3 DEF Others, IInv, TypeOK
<1>22. HeldKept
  BY <1>3 DEF HeldKept, Held
<1>23. StartKept(r) /\ TimeKept(r)
  BY <1>3 DEF StartKept, TimeKept, Starting, Storing, IssueStage, IInv, TypeOK
<1>24. RowOK(r)'
  BY <1>2, <1>3 DEF RowOK, Started, IssueStage, ForceStage, IInv, TypeOK
<1> QED
  BY <1>3, <1>21, <1>22, <1>23, <1>24, QuietStep

\* The row that is invalidated was there before.
LEMMA InvalidatedRowsKept ==
    ASSUME NEW r \in Request, UpsertInvalidated(r)
    PROVE  sessions' = sessions
<1>1. Upsert(r) /\ sessions'[issue[r].session].invalidated
  BY DEF UpsertInvalidated
<1>2. ASSUME issue[r].session \notin DOMAIN sessions PROVE FALSE
  BY <1>1, <1>2 DEF Upsert, upsert, NewRow
<1> QED
  BY <1>1, <1>2 DEF Upsert, upsert

\* The session has been invalidated.
LEMMA UpsertInvalidatedRows ==
    ASSUME IInv, LInv, NEW r \in Request, UpsertInvalidated(r)
    PROVE  LInv'
<1> DEFINE to == IF issue[r].then = "resolve" THEN "resolve" ELSE "respond"
<1>1. issue[r] \in IssueLocals /\ pc[r] = "upsert"
  BY DEF UpsertInvalidated, IInv, TypeOK
<1>2. /\ ctx' = [ctx EXCEPT ![r] = clearSessionState]
      /\ reply' = [reply EXCEPT ![r] = clearSessionCookies]
      /\ issue' = [issue EXCEPT ![r] = NoIssue] /\ pc' = [pc EXCEPT ![r] = to]
      /\ UNCHANGED <<now, jar, cookies, parsedAt, force, loggedOut, lastForced>>
  BY DEF UpsertInvalidated, IssueFailed, Goto, historyVars
<1>3. to \in {"resolve", "respond"}
  OBVIOUS
<1> HIDE DEF to
<1>4. sessions' = sessions
  BY InvalidatedRowsKept
<1>21. Others(r)
  BY <1>2 DEF Others, IInv, TypeOK
<1>22. HeldKept
  BY <1>2 DEF HeldKept, Held, clearSessionCookies, IInv, TypeOK
<1>23. StartKept(r) /\ TimeKept(r)
  BY <1>2, <1>3 DEF StartKept, TimeKept, Starting, Storing, IssueStage, IInv, TypeOK
<1>24. RowOK(r)'
  BY <1>2, <1>3, ValueTypes DEF RowOK, IssueStage, ForceStage, IInv, TypeOK
<1> QED
  BY <1>2, <1>4, <1>21, <1>22, <1>23, <1>24, QuietStep

\* A logout that cannot invalidate the session forces a refresh.
LEMMA InvalidateFailsRows ==
    ASSUME IInv, LInv, NEW r \in Request, InvalidateFails(r)
    PROVE  LInv'
<1>1. ctx[r].user \in User
  BY DEF InvalidateFails, IInv, StageInv, StageOK
<1>2. PICK f \in ForceLocals : /\ ~f.invalidated
                               /\ force' = [force EXCEPT ![r] = f]
                               /\ pc' = [pc EXCEPT ![r] = "force"]
  <2>1. BeginForce(r, ctx[r].user, TRUE, FALSE)
    BY DEF InvalidateFails
  <2> QED
    BY <1>1, <2>1, BeginForceFacts DEF BeginForce, Goto
<1>3. UNCHANGED <<now, sessions, jar, cookies, parsedAt, ctx, issue, reply, loggedOut, lastForced>>
  BY DEF InvalidateFails, storeVars, historyVars
<1>21. Others(r)
  BY <1>2, <1>3 DEF Others, IInv, TypeOK
<1>22. HeldKept
  BY <1>3 DEF HeldKept, Held
<1>23. StartKept(r) /\ TimeKept(r)
  BY <1>2 DEF StartKept, TimeKept, Starting, Storing, IssueStage, IInv, TypeOK
<1>24. RowOK(r)'
  BY <1>2, <1>3 DEF LInv, RowInv, RowOK, Started, IssueStage, ForceStage, IInv, TypeOK
<1> QED
  BY <1>3, <1>21, <1>22, <1>23, <1>24, QuietStep

\* A user's own change of roles forces a refresh.
LEMMA OptInForRolesRows ==
    ASSUME IInv, LInv, NEW r \in Request, OptInForRoles(r)
    PROVE  LInv'
<1>1. ctx[r].user \in User
  BY DEF OptInForRoles, IInv, StageInv, StageOK
<1>2. PICK f \in ForceLocals : /\ ~f.invalidated
                               /\ force' = [force EXCEPT ![r] = f]
                               /\ pc' = [pc EXCEPT ![r] = "force"]
  <2>1. BeginForce(r, ctx[r].user, FALSE, FALSE)
    BY DEF OptInForRoles
  <2> QED
    BY <1>1, <2>1, BeginForceFacts DEF BeginForce, Goto
<1>3. UNCHANGED <<now, sessions, jar, cookies, parsedAt, ctx, issue, reply, loggedOut, lastForced>>
  BY DEF OptInForRoles, storeVars, historyVars
<1>21. Others(r)
  BY <1>2, <1>3 DEF Others, IInv, TypeOK
<1>22. HeldKept
  BY <1>3 DEF HeldKept, Held
<1>23. StartKept(r) /\ TimeKept(r)
  BY <1>2 DEF StartKept, TimeKept, Starting, Storing, IssueStage, IInv, TypeOK
<1>24. RowOK(r)'
  BY <1>2, <1>3 DEF LInv, RowInv, RowOK, Started, IssueStage, ForceStage, IInv, TypeOK
<1> QED
  BY <1>3, <1>21, <1>22, <1>23, <1>24, QuietStep

\* A user's own change of roles forces a refresh.
LEMMA OptOutForRolesRows ==
    ASSUME IInv, LInv, NEW r \in Request, OptOutForRoles(r)
    PROVE  LInv'
<1>1. ctx[r].user \in User
  BY DEF OptOutForRoles, IInv, StageInv, StageOK
<1>2. PICK f \in ForceLocals : /\ ~f.invalidated
                               /\ force' = [force EXCEPT ![r] = f]
                               /\ pc' = [pc EXCEPT ![r] = "force"]
  <2>1. BeginForce(r, ctx[r].user, FALSE, FALSE)
    BY DEF OptOutForRoles
  <2> QED
    BY <1>1, <2>1, BeginForceFacts DEF BeginForce, Goto
<1>3. UNCHANGED <<now, sessions, jar, cookies, parsedAt, ctx, issue, reply, loggedOut, lastForced>>
  BY DEF OptOutForRoles, storeVars, historyVars
<1>21. Others(r)
  BY <1>2, <1>3 DEF Others, IInv, TypeOK
<1>22. HeldKept
  BY <1>3 DEF HeldKept, Held
<1>23. StartKept(r) /\ TimeKept(r)
  BY <1>2 DEF StartKept, TimeKept, Starting, Storing, IssueStage, IInv, TypeOK
<1>24. RowOK(r)'
  BY <1>2, <1>3 DEF LInv, RowInv, RowOK, Started, IssueStage, ForceStage, IInv, TypeOK
<1> QED
  BY <1>3, <1>21, <1>22, <1>23, <1>24, QuietStep

\* An administrator's change of roles forces a refresh.
LEMMA SetRolesOfUserRows ==
    ASSUME IInv, LInv, NEW r \in Request, NEW u \in User, SetRolesOfUser(r, u)
    PROVE  LInv'
<1>1. u \in User
  OBVIOUS
<1>2. PICK f \in ForceLocals : /\ ~f.invalidated
                               /\ force' = [force EXCEPT ![r] = f]
                               /\ pc' = [pc EXCEPT ![r] = "force"]
  <2>1. BeginForce(r, u, FALSE, FALSE)
    BY DEF SetRolesOfUser
  <2> QED
    BY <1>1, <2>1, BeginForceFacts DEF BeginForce, Goto
<1>3. UNCHANGED <<now, sessions, jar, cookies, parsedAt, ctx, issue, reply, loggedOut, lastForced>>
  BY DEF SetRolesOfUser, storeVars, historyVars
<1>21. Others(r)
  BY <1>2, <1>3 DEF Others, IInv, TypeOK
<1>22. HeldKept
  BY <1>3 DEF HeldKept, Held
<1>23. StartKept(r) /\ TimeKept(r)
  BY <1>2 DEF StartKept, TimeKept, Starting, Storing, IssueStage, IInv, TypeOK
<1>24. RowOK(r)'
  BY <1>2, <1>3 DEF LInv, RowInv, RowOK, Started, IssueStage, ForceStage, IInv, TypeOK
<1> QED
  BY <1>3, <1>21, <1>22, <1>23, <1>24, QuietStep

\* A logout reads the time: no token is younger.
LEMMA ReadForceTimeRows ==
    ASSUME IInv, LInv, NEW r \in Request, ReadForceTime(r)
    PROVE  LInv'
<1>21. Others(r)
  BY DEF ReadForceTime, storeVars, historyVars, Goto, Others, IInv, TypeOK
<1>22. HeldKept
  BY DEF ReadForceTime, storeVars, historyVars, Goto, HeldKept, Held, IInv, TypeOK
<1>23. StartKept(r) /\ TimeKept(r)
  BY DEF ReadForceTime, storeVars, historyVars, Goto, StartKept, TimeKept, Starting, Storing, IssueStage, IInv, TypeOK, ForceLocals
<1>24. RowOK(r)'
  BY DEF ReadForceTime, storeVars, historyVars, Goto, LInv, RowInv, RowOK, Started, Ended, Dead, IssueStage, ForceStage, IInv, TypeOK, ForceLocals
<1>25. UNCHANGED <<now, sessions, loggedOut, lastForced>>
  BY DEF ReadForceTime, storeVars, historyVars, Goto
<1> QED
  BY <1>21, <1>22, <1>23, <1>24, <1>25, QuietStep

\* The time cannot be stored.
LEMMA SetTimeFailsRows ==
    ASSUME IInv, LInv, NEW r \in Request, SetTimeFails(r)
    PROVE  LInv'
<1>21. Others(r)
  BY DEF SetTimeFails, storeVars, historyVars, Goto, AfterForce, Others, IInv, TypeOK
<1>22. HeldKept
  BY DEF SetTimeFails, storeVars, historyVars, Goto, AfterForce, HeldKept, Held, IInv, TypeOK, clearSessionCookies
<1>23. StartKept(r) /\ TimeKept(r)
  BY DEF SetTimeFails, storeVars, historyVars, Goto, AfterForce, StartKept, TimeKept, Starting, Storing, IssueStage, IInv, TypeOK
<1>24. RowOK(r)'
  BY ValueTypes DEF SetTimeFails, storeVars, historyVars, Goto, AfterForce, LInv, RowInv, RowOK, Started, Ended, Dead, IssueStage, ForceStage, IInv, TypeOK
<1>25. UNCHANGED <<now, sessions, loggedOut, lastForced>>
  BY DEF SetTimeFails, storeVars, historyVars, Goto, AfterForce
<1> QED
  BY <1>21, <1>22, <1>23, <1>24, <1>25, QuietStep

\* A response arrives, or is lost; the request is over.
LEMMA FinishRows ==
    ASSUME IInv, LInv, NEW r \in Request, Deliver(r) \/ Lose(r)
    PROVE  LInv'
<1>1. /\ pc' = [pc EXCEPT ![r] = "idle"] /\ cookies' = [cookies EXCEPT ![r] = NoCookies]
      /\ ctx' = [ctx EXCEPT ![r] = clearSessionState] /\ reply' = [reply EXCEPT ![r] = KeepCookies]
      /\ UNCHANGED <<now, sessions, parsedAt, issue, force, loggedOut, lastForced>>
  BY DEF Deliver, Lose, Finish, Goto, storeVars, historyVars
<1>2. \A k \in Client : jar'[k] = jar[k] \/ jar'[k] = reply[r].cookies
  BY DEF Deliver, Lose, IInv, TypeOK
<1>21. Others(r)
  BY <1>1 DEF Others, IInv, TypeOK
<1>22. HeldKept
  BY <1>1, <1>2 DEF HeldKept, Held, KeepCookies, IInv, TypeOK
<1>23. StartKept(r) /\ TimeKept(r)
  BY <1>1 DEF StartKept, TimeKept, Starting, Storing, IssueStage, IInv, TypeOK
<1>24. RowOK(r)'
  BY <1>1, ValueTypes DEF RowOK, IssueStage, ForceStage, IInv, TypeOK
<1> QED
  BY <1>1, <1>21, <1>22, <1>23, <1>24, QuietStep

----------------------------------------------------------------------------
(* The steps that move the clock, the rows or the history.                 *)

\* Time passes: what was of age stays so.
LEMMA TickRows == ASSUME IInv, LInv, Tick PROVE LInv'
<1>1. /\ now \in Nat /\ now' = now + 1
      /\ UNCHANGED <<sessions, jar, pc, cookies, ctx, issue, force, reply, loggedOut, lastForced>>
  BY DEF Tick, historyVars, IInv, TypeOK
<1>2. HeldInv'
  <2> SUFFICES ASSUME NEW c \in Cookies, Held(c)' PROVE (Backed(c) /\ Aged(c))'
    BY DEF HeldInv
  <2>1. Backed(c) /\ Aged(c)
    BY <1>1 DEF LInv, HeldInv, Held
  <2>2. c.auth # NoToken => c.auth.iat \in Nat
    BY DEF Cookies, AuthToken
  <2> QED
    BY <1>1, <2>1, <2>2 DEF Backed, Aged, Started, Storing
<1>3. RowInv'
  <2> SUFFICES ASSUME NEW r \in Request PROVE RowOK(r)'
    BY DEF RowInv
  <2>1. issue[r].iat \in Nat
    BY DEF IInv, TypeOK, IssueLocals
  <2> QED
    BY <1>1, <2>1 DEF LInv, RowInv, RowOK, Started, Ended, Dead
<1>4. StartInv' /\ EndedInv'
  BY <1>1 DEF LInv, StartInv, Starting, EndedInv, Dead
<1> QED
  BY <1>2, <1>3, <1>4 DEF LInv

\* Rows keep their users, and a dead session stays dead.
RowsKept ==
    \A s \in DOMAIN sessions :
        /\ s \in DOMAIN sessions' /\ sessions'[s].user = sessions[s].user
        /\ Dead(s) => Dead(s)'

\* UpsertSession keeps all rows.
LEMMA UpsertRowsKept ==
    ASSUME NEW r \in Request, Upsert(r)
    PROVE  /\ RowsKept /\ issue[r].session \in DOMAIN sessions'
           /\ \A x \in DOMAIN sessions : sessions'[x] = sessions[x]
           /\ \A x : x \notin DOMAIN sessions /\ x # issue[r].session => x \notin DOMAIN sessions'
           /\ issue[r].session \notin DOMAIN sessions =>
                 /\ sessions'[issue[r].session].user = issue[r].user
                 /\ sessions'[issue[r].session].txn = IF InCreateUser(r) THEN "open" ELSE "committed"
<1> DEFINE txn == IF InCreateUser(r) THEN "open" ELSE "committed"
           i == issue[r]
<1>1. sessions' = upsert(i.session, i.user, txn)
  BY DEF Upsert
<1> HIDE DEF txn, i
<1>2. /\ i.session \in DOMAIN sessions'
      /\ \A x \in DOMAIN sessions : x \in DOMAIN sessions' /\ sessions'[x] = sessions[x]
      /\ \A x : x \notin DOMAIN sessions /\ x # i.session => x \notin DOMAIN sessions'
      /\ i.session \notin DOMAIN sessions => sessions'[i.session] = NewRow(i.user, txn)
  BY <1>1 DEF upsert
<1>3. NewRow(i.user, txn).user = i.user /\ NewRow(i.user, txn).txn = txn
  BY DEF NewRow
<1> QED
  BY <1>2, <1>3 DEF RowsKept, Dead, txn, i

\* A logout keeps all rows, and ends its session, whose transaction is over.
LEMMA LogoutRowsKept ==
    ASSUME IInv, TInv, NEW r \in Request, Logout(r)
    PROVE  /\ RowsKept /\ DOMAIN sessions' = DOMAIN sessions
           /\ \A s \in DOMAIN sessions : sessions'[s].txn = sessions[s].txn
           /\ ctx[r].session \in DOMAIN sessions => Dead(ctx[r].session)'
<1>1. \A s \in DOMAIN sessions : sessions[s] \in Row
  BY DEF IInv, TypeOK
<1>2. \A s \in DOMAIN sessions :
         LET x == [sessions[s] EXCEPT !.invalidated = TRUE]
         IN  x.user = sessions[s].user /\ x.txn = sessions[s].txn /\ x.invalidated
  BY <1>1 DEF Row
<1>3. sessions' = [x \in DOMAIN sessions |->
                      IF x = ctx[r].session /\ sessions[x].txn = "committed"
                      THEN [sessions[x] EXCEPT !.invalidated = TRUE] ELSE sessions[x]]
  BY DEF Logout
<1>4. ASSUME NEW s \in DOMAIN sessions
      PROVE  /\ s \in DOMAIN sessions' /\ sessions'[s].user = sessions[s].user
             /\ sessions'[s].txn = sessions[s].txn
             /\ sessions[s].invalidated => sessions'[s].invalidated
             /\ s = ctx[r].session /\ sessions[s].txn = "committed" => sessions'[s].invalidated
  BY <1>2, <1>3
<1>5. Settled(ctx[r].session)
  BY DEF Logout, TInv, SettledInv
<1>6. ctx[r].session \in DOMAIN sessions =>
          sessions[ctx[r].session].txn \in {"committed", "rolledBack"}
  BY <1>1, <1>5 DEF Settled, Row
<1>7. DOMAIN sessions' = DOMAIN sessions
  BY <1>3
<1>8. RowsKept
  BY <1>4 DEF RowsKept, Dead
<1>9. ctx[r].session \in DOMAIN sessions => Dead(ctx[r].session)'
  <2>1. ctx' = ctx
    BY DEF Logout
  <2> QED
    BY <1>4, <1>6, <2>1 DEF Dead
<1> QED
  BY <1>4, <1>7, <1>8, <1>9

\* The end of CreateUser's transaction keeps all rows; its own was open.
LEMMA EndTransactionRowsKept ==
    ASSUME IInv, TInv, NEW r \in Request, pc[r] = "commit", NEW txn \in {"committed", "rolledBack"},
           EndTransaction(r, txn)
    PROVE  /\ RowsKept /\ DOMAIN sessions' = DOMAIN sessions
           /\ \A s \in DOMAIN sessions : s # ctx[r].session => sessions'[s] = sessions[s]
           /\ ctx[r].session \in DOMAIN sessions => sessions'[ctx[r].session].txn = txn
<1>1. sessions[ctx[r].session].txn = "open"
  BY DEF TInv, CreateInv, CreateOK
<1>2. \A s \in DOMAIN sessions :
         LET x == [sessions[s] EXCEPT !.txn = txn]
         IN  x.user = sessions[s].user /\ x.txn = txn /\ x.invalidated = sessions[s].invalidated
  BY DEF IInv, TypeOK, Row
<1>3. sessions' = [sessions EXCEPT ![ctx[r].session] = [@ EXCEPT !.txn = txn]]
  BY DEF EndTransaction
<1>4. DOMAIN sessions' = DOMAIN sessions
  BY <1>3
<1>5. \A s \in DOMAIN sessions : s # ctx[r].session => sessions'[s] = sessions[s]
  BY <1>3
<1>6. ctx[r].session \in DOMAIN sessions =>
          sessions'[ctx[r].session] = [sessions[ctx[r].session] EXCEPT !.txn = txn]
  BY <1>3
<1>7. RowsKept
  <2> SUFFICES ASSUME NEW s \in DOMAIN sessions
               PROVE  /\ s \in DOMAIN sessions' /\ sessions'[s].user = sessions[s].user
                      /\ Dead(s) => Dead(s)'
    BY DEF RowsKept
  <2>1. CASE s = ctx[r].session
    <3>1. /\ sessions'[s].user = sessions[s].user /\ sessions'[s].invalidated = sessions[s].invalidated
          /\ sessions[s].txn = "open"
      BY <1>1, <1>2, <1>6, <2>1
    <3> QED
      BY <1>4, <3>1 DEF Dead
  <2>2. CASE s # ctx[r].session
    BY <1>4, <1>5, <2>2 DEF Dead
  <2> QED
    BY <2>1, <2>2
<1>8. ctx[r].session \in DOMAIN sessions => sessions'[ctx[r].session].txn = txn
  BY <1>2, <1>6
<1> QED
  BY <1>4, <1>5, <1>7, <1>8

\* What is backed, known or ended stays so while rows are kept.
LEMMA KeptRowsFacts ==
    ASSUME RowsKept
    PROVE  /\ \A s, u : Started(s, u) => Started(s, u)'
           /\ \A s, u : Ended(s, u) => Ended(s, u)'
  BY DEF RowsKept, Started, Ended

\* A logout ends its session, which has a row.
LEMMA LogoutRows ==
    ASSUME IInv, LInv, TInv, NEW r \in Request, Logout(r)
    PROVE  LInv'
<1>1. ctx[r].user \in User /\ Started(ctx[r].session, ctx[r].user)
  BY DEF Logout, IInv, StageInv, StageOK, LInv, RowInv, RowOK
<1>2. /\ RowsKept /\ DOMAIN sessions' = DOMAIN sessions
      /\ Dead(ctx[r].session)'
  BY <1>1, LogoutRowsKept DEF Started
<1>3. PICK f \in ForceLocals : /\ f.user = ctx[r].user
                               /\ force' = [force EXCEPT ![r] = f]
                               /\ pc' = [pc EXCEPT ![r] = "force"]
  <2>1. BeginForce(r, ctx[r].user, TRUE, TRUE)
    BY DEF Logout
  <2> QED
    BY <1>1, <2>1, BeginForceFacts DEF BeginForce, Goto
<1>4. UNCHANGED <<now, jar, cookies, parsedAt, ctx, issue, reply, loggedOut, lastForced>>
  BY DEF Logout, historyVars
<1>5. \A q \in Request \ {r} : pc'[q] = pc[q] /\ force'[q] = force[q]
  BY <1>3 DEF IInv, TypeOK
<1>6. pc'[r] = "force" /\ force'[r] = f
  BY <1>3 DEF IInv, TypeOK
<1>7. HeldInv'
  <2> SUFFICES ASSUME NEW c \in Cookies, Held(c)' PROVE (Backed(c) /\ Aged(c))'
    BY DEF HeldInv
  <2>1. Backed(c) /\ Aged(c)
    BY <1>4 DEF LInv, HeldInv, Held
  <2>2. Backed(c)'
    BY <1>2, <2>1, KeptRowsFacts DEF Backed
  <2>3. \A q \in Request : Storing(q)' => Storing(q) /\ force'[q] = force[q]
    BY <1>5, <1>6 DEF Storing
  <2> QED
    BY <1>4, <2>1, <2>2, <2>3 DEF Aged
<1>8. RowInv'
  <2> SUFFICES ASSUME NEW q \in Request PROVE RowOK(q)'
    BY DEF RowInv
  <2>1. RowOK(q)
    BY DEF LInv, RowInv
  <2>2. CASE q = r
    <3>1. Ended(ctx[r].session, f.user)'
      BY <1>1, <1>2, <1>3, <1>4, KeptRowsFacts DEF Ended
    <3> QED
      BY <1>1, <1>2, <1>4, <1>6, <2>2, <3>1, KeptRowsFacts DEF RowOK, IssueStage
  <2>3. CASE q # r
    BY <1>2, <1>4, <1>5, <2>1, <2>3, KeptRowsFacts DEF RowOK
  <2> QED
    BY <2>2, <2>3
<1>9. StartInv'
  <2>1. \A q \in Request : Starting(q)' => Starting(q)
    BY <1>4, <1>5, <1>6 DEF Starting, IssueStage
  <2> QED
    BY <1>4, <2>1 DEF LInv, StartInv
<1>10. EndedInv'
  BY <1>2, <1>4 DEF LInv, EndedInv, RowsKept
<1> QED
  BY <1>7, <1>8, <1>9, <1>10 DEF LInv

\* The session that UpsertSession finds is not dead: its user exists.
LEMMA UpsertAlive ==
    ASSUME IInv, LInv, TInv, NEW r \in Request, UpsertSession(r), issue[r].session \in DOMAIN sessions
    PROVE  ~InCreateUser(r) /\ sessions[issue[r].session].txn = "committed" /\ ~Dead(issue[r].session)
<1> DEFINE s == issue[r].session
<1>1. pc[r] = "upsert" /\ UserExists(r) /\ issue[r] \in IssueLocals
  BY DEF UpsertSession, IInv, TypeOK
<1>2. ~issue[r].start
  BY <1>1 DEF LInv, RowInv, RowOK, IssueStage
<1>3. ~InCreateUser(r)
  BY <1>1, <1>2 DEF InCreateUser, TInv, CreateInv, CreateOK, Creating, IssueStage
<1>4. sessions[s].user = issue[r].user
  BY <1>1, <1>2 DEF LInv, RowInv, RowOK, Started, IssueStage, IssueLocals
<1>5. sessions[s].txn = "committed"
  BY <1>1, <1>3, <1>4 DEF UserExists, TInv, UserInv
<1>6. ~sessions[s].invalidated
  <2>1. Upsert(r) /\ ~sessions'[s].invalidated
    BY DEF UpsertSession
  <2> QED
    BY <2>1, UpsertRowsKept
<1> QED
  BY <1>3, <1>5, <1>6 DEF Dead

\* The session is stored, if it was not, and its tokens are in the response: nobody
\* is logging it out, since it is not dead.
LEMMA UpsertSessionRows ==
    ASSUME IInv, LInv, TInv, NEW r \in Request, UpsertSession(r)
    PROVE  LInv'
<1> DEFINE i == issue[r]
           auth == [user |-> i.user, session |-> i.session, roles |-> i.roles, iat |-> i.iat]
           refresh == [user |-> i.user, session |-> i.session, exp |-> i.refreshExp]
           new == [auth |-> auth, refresh |-> refresh]
           c == setSessionState(i.user, i.session, i.roles)
<1>1. i \in IssueLocals /\ pc[r] = "upsert" /\ RowOK(r)
  BY DEF UpsertSession, IInv, TypeOK, LInv, RowInv
<1>2. /\ Upsert(r)
      /\ ctx' = [ctx EXCEPT ![r] = c]
      /\ reply' = [reply EXCEPT ![r] = setSessionCookies(auth, refresh)]
      /\ issue' = [issue EXCEPT ![r] = NoIssue] /\ pc' = [pc EXCEPT ![r] = i.then]
      /\ UNCHANGED <<now, jar, cookies, parsedAt, force, loggedOut, lastForced>>
  BY DEF UpsertSession, Goto, historyVars
<1>3. i.then \in {"resolve", "respond", "commit"} /\ i.start \in BOOLEAN
  BY <1>1 DEF IssueLocals
<1>4. /\ RowsKept /\ i.session \in DOMAIN sessions'
      /\ \A x \in DOMAIN sessions : sessions'[x] = sessions[x]
      /\ \A x : x \notin DOMAIN sessions /\ x # i.session => x \notin DOMAIN sessions'
      /\ i.session \notin DOMAIN sessions => sessions'[i.session].user = i.user
  BY <1>2, UpsertRowsKept
<1>5. i.session \in DOMAIN sessions' /\ sessions'[i.session].user = i.user
  <2>1. CASE i.start
    <3>1. i.session \notin DOMAIN sessions
      BY <1>1, <2>1 DEF RowOK, IssueStage
    <3> QED
      BY <1>4, <3>1
  <2>2. CASE ~i.start
    <3>1. Started(i.session, i.user)
      BY <1>1, <2>2 DEF RowOK, IssueStage
    <3> QED
      BY <1>4, <3>1 DEF Started
  <2> QED
    BY <1>3, <2>1, <2>2
<1>6. i.iat <= now
  BY <1>1 DEF RowOK, IssueStage
<1>7. i.session \notin DOMAIN loggedOut
  BY UpsertAlive DEF LInv, EndedInv
<1>8. ASSUME NEW q \in Request, Storing(q) PROVE ctx[q].session # i.session
  <2>1. Ended(ctx[q].session, force[q].user)
    BY <1>8 DEF LInv, RowInv, RowOK, Storing, ForceStage
  <2> QED
    BY <2>1, UpsertAlive DEF Ended, Started
<1>9. \A q \in Request \ {r} : /\ pc'[q] = pc[q] /\ ctx'[q] = ctx[q] /\ issue'[q] = issue[q]
                               /\ reply'[q] = reply[q]
  BY <1>2 DEF IInv, TypeOK
<1>10. pc'[r] = i.then /\ ctx'[r] = c /\ issue'[r] = NoIssue /\ reply'[r] = setSessionCookies(auth, refresh)
  BY <1>2 DEF IInv, TypeOK
<1>11. /\ new.auth.user = i.user /\ new.auth.session = i.session /\ new.auth.iat = i.iat
       /\ new.refresh.user = i.user /\ new.refresh.session = i.session
       /\ setSessionCookies(auth, refresh).cookies = new
       /\ c.session = i.session /\ c.user = i.user
  BY DEF setSessionCookies, setSessionState
<1> HIDE DEF i, auth, refresh, new, c
<1>12. \A q \in Request : Storing(q)' => Storing(q) /\ force'[q] = force[q] /\ ctx'[q] = ctx[q]
  BY <1>2, <1>3, <1>9, <1>10 DEF Storing
<1>13. HeldInv'
  <2> SUFFICES ASSUME NEW d \in Cookies, Held(d)' PROVE (Backed(d) /\ Aged(d))'
    BY DEF HeldInv
  <2>1. CASE d = new
    <3>1. Backed(d)'
      BY <1>5, <1>11, <2>1 DEF Backed, Started
    <3>2. Aged(d)'
      BY <1>2, <1>6, <1>7, <1>8, <1>11, <1>12, <2>1 DEF Aged
    <3> QED
      BY <3>1, <3>2
  <2>2. CASE d # new
    <3>1. Held(d)
      BY <1>2, <1>9, <1>10, <1>11, <2>2 DEF Held
    <3>2. Backed(d) /\ Aged(d)
      BY <3>1 DEF LInv, HeldInv
    <3>3. Backed(d)'
      BY <1>4, <3>2, KeptRowsFacts DEF Backed
    <3>4. Aged(d)'
      BY <1>2, <1>12, <3>2 DEF Aged
    <3> QED
      BY <3>3, <3>4
  <2> QED
    BY <2>1, <2>2
<1>14. RowInv'
  <2> SUFFICES ASSUME NEW q \in Request PROVE RowOK(q)'
    BY DEF RowInv
  <2>1. CASE q = r
    BY <1>3, <1>5, <1>10, <1>11, <2>1 DEF RowOK, Started, IssueStage, ForceStage
  <2>2. CASE q # r
    <3>1. RowOK(q)
      BY DEF LInv, RowInv
    <3>2. ASSUME pc[q] \in IssueStage, issue[q].start PROVE issue[q].session \notin DOMAIN sessions'
      <4>1. issue[q].session \notin DOMAIN sessions
        BY <3>1, <3>2 DEF RowOK
      <4>2. issue[q].session # i.session
        <5>1. CASE i.start
          BY <1>1, <2>2, <3>2, <5>1 DEF LInv, StartInv, Starting, IssueStage, i
        <5>2. CASE ~i.start
          BY <1>1, <4>1, <5>2 DEF RowOK, Started, IssueStage, i
        <5> QED
          BY <1>3, <5>1, <5>2
      <4> QED
        BY <1>4, <4>1, <4>2
    <3> QED
      BY <1>2, <1>4, <1>9, <2>2, <3>1, <3>2, KeptRowsFacts DEF RowOK
  <2> QED
    BY <2>1, <2>2
<1>15. StartInv'
  <2>1. \A q \in Request : Starting(q)' => Starting(q) /\ issue'[q] = issue[q]
    BY <1>3, <1>9, <1>10 DEF Starting, IssueStage
  <2> QED
    BY <2>1 DEF LInv, StartInv
<1>16. EndedInv'
  BY <1>2, <1>4 DEF LInv, EndedInv, RowsKept
<1> QED
  BY <1>13, <1>14, <1>15, <1>16 DEF LInv

\* The transaction of CreateUser ends: nobody knew of its session.
LEMMA CommitRows ==
    ASSUME IInv, LInv, TInv, NEW r \in Request, Commit(r) \/ CommitFails(r)
    PROVE  LInv'
<1>1. /\ pc[r] = "commit" /\ pc' = [pc EXCEPT ![r] = "respond"]
      /\ UNCHANGED <<now, jar, cookies, parsedAt, ctx, issue, force, reply, loggedOut, lastForced>>
  BY DEF Commit, CommitFails, Goto, historyVars
<1>2. RowsKept /\ DOMAIN sessions' = DOMAIN sessions
  BY <1>1, EndTransactionRowsKept DEF Commit, CommitFails
<1>3. \A q \in Request \ {r} : pc'[q] = pc[q]
  BY <1>1 DEF IInv, TypeOK
<1>4. pc'[r] = "respond"
  BY <1>1 DEF IInv, TypeOK
<1>5. HeldInv'
  <2> SUFFICES ASSUME NEW c \in Cookies, Held(c)' PROVE (Backed(c) /\ Aged(c))'
    BY DEF HeldInv
  <2>1. Backed(c) /\ Aged(c)
    BY <1>1 DEF LInv, HeldInv, Held
  <2>2. Backed(c)'
    BY <1>2, <2>1, KeptRowsFacts DEF Backed
  <2>3. \A q \in Request : Storing(q)' => Storing(q)
    BY <1>1, <1>3, <1>4 DEF Storing
  <2> QED
    BY <1>1, <2>1, <2>2, <2>3 DEF Aged
<1>6. RowInv'
  <2> SUFFICES ASSUME NEW q \in Request PROVE RowOK(q)'
    BY DEF RowInv
  <2>1. RowOK(q)
    BY DEF LInv, RowInv
  <2>2. CASE q = r
    BY <1>1, <1>2, <1>4, <2>1, <2>2, KeptRowsFacts DEF RowOK, IssueStage, ForceStage
  <2>3. CASE q # r
    BY <1>1, <1>2, <1>3, <2>1, <2>3, KeptRowsFacts DEF RowOK
  <2> QED
    BY <2>2, <2>3
<1>7. StartInv'
  <2>1. \A q \in Request : Starting(q)' => Starting(q)
    BY <1>1, <1>3, <1>4 DEF Starting, IssueStage
  <2> QED
    BY <1>1, <2>1 DEF LInv, StartInv
<1>8. EndedInv'
  BY <1>1, <1>2 DEF LInv, EndedInv, RowsKept
<1> QED
  BY <1>5, <1>6, <1>7, <1>8 DEF LInv

\* The time is stored: the logout that is now complete had read it after every token
\* of its session was issued.
LEMMA SetTimeRows ==
    ASSUME IInv, LInv, NEW r \in Request, SetTime(r)
    PROVE  LInv'
<1> DEFINE f == force[r]
           s == ctx[r].session
           logs == f.invalidated /\ s \notin DOMAIN loggedOut
<1>1. /\ f \in ForceLocals /\ f.user \in User /\ pc[r] = "setTime" /\ RowOK(r)
      /\ lastForced \in [User -> Nat] /\ loggedOut \in [DOMAIN loggedOut -> Nat]
      /\ \A x \in DOMAIN sessions : sessions[x].user \in User
  BY DEF SetTime, IInv, TypeOK, StageInv, StageOK, ForceStage, LInv, RowInv, Row
<1>2. f.time \in Nat /\ f.invalidated \in BOOLEAN
  BY <1>1 DEF ForceLocals
<1>3. /\ lastForced' = [lastForced EXCEPT ![f.user] = IF @ < f.time THEN f.time ELSE @]
      /\ loggedOut' = IF logs THEN [x \in DOMAIN loggedOut \cup {s} |-> IF x = s THEN f.time ELSE loggedOut[x]]
                      ELSE loggedOut
      /\ force' = [force EXCEPT ![r] = NoForce] /\ pc' = [pc EXCEPT ![r] = "respond"]
      /\ UNCHANGED <<now, sessions, jar, cookies, parsedAt, issue>>
  BY DEF SetTime, AfterForce, Goto
<1>4. \/ UNCHANGED <<ctx, reply>>
      \/ ctx' = [ctx EXCEPT ![r] = clearSessionState] /\ reply' = [reply EXCEPT ![r] = clearSessionCookies]
  BY DEF SetTime, AfterForce
<1>5. \A q \in Request \ {r} : pc'[q] = pc[q] /\ ctx'[q] = ctx[q] /\ force'[q] = force[q] /\ reply'[q] = reply[q]
  BY <1>3, <1>4 DEF IInv, TypeOK
<1>6. /\ pc'[r] = "respond" /\ (ctx'[r] = ctx[r] \/ ctx'[r] = clearSessionState)
      /\ (reply'[r] = reply[r] \/ reply'[r] = clearSessionCookies)
  BY <1>3, <1>4 DEF IInv, TypeOK
<1>7. \A q \in Request : Storing(q)' => Storing(q) /\ force'[q] = force[q] /\ ctx'[q] = ctx[q]
  BY <1>5, <1>6 DEF Storing
<1>8. \A u \in User : lastForced[u] <= lastForced'[u]
  BY <1>1, <1>2, <1>3
<1>9. logs => Storing(r) /\ Ended(s, f.user) /\ f.time <= lastForced'[f.user]
  <2>1. f.time <= lastForced'[f.user]
    BY <1>1, <1>2, <1>3
  <2> QED
    BY <1>1, <2>1 DEF Storing, RowOK, ForceStage
<1>10. \A x \in DOMAIN loggedOut' : \/ x \in DOMAIN loggedOut /\ loggedOut'[x] = loggedOut[x]
                                    \/ logs /\ x = s /\ loggedOut'[x] = f.time
  BY <1>3
<1> HIDE DEF logs
<1>11. HeldInv'
  <2> SUFFICES ASSUME NEW c \in Cookies, Held(c)' PROVE (Backed(c) /\ Aged(c))'
    BY DEF HeldInv
  <2>1. Backed(c) /\ Aged(c)
    <3>1. Held(c) \/ c = NoCookies
      BY <1>3, <1>5, <1>6 DEF Held, clearSessionCookies
    <3> QED
      BY <3>1, NoCookiesOK DEF LInv, HeldInv
  <2>2. Backed(c)'
    BY <1>3, <2>1 DEF Backed, Started
  <2>3. Aged(c)'
    BY <1>3, <1>7, <1>9, <1>10, <2>1 DEF Aged
  <2> QED
    BY <2>2, <2>3
<1>12. RowInv'
  <2> SUFFICES ASSUME NEW q \in Request PROVE RowOK(q)'
    BY DEF RowInv
  <2>1. RowOK(q)
    BY DEF LInv, RowInv
  <2>2. CASE q = r
    BY <1>3, <1>6, <2>1, <2>2, ValueTypes DEF RowOK, Started, IssueStage, ForceStage
  <2>3. CASE q # r
    BY <1>3, <1>5, <2>1, <2>3 DEF RowOK, Started, Ended, Dead
  <2> QED
    BY <2>2, <2>3
<1>13. StartInv'
  <2>1. \A q \in Request : Starting(q)' => Starting(q)
    BY <1>3, <1>5, <1>6 DEF Starting, IssueStage
  <2> QED
    BY <1>3, <2>1 DEF LInv, StartInv
<1>14. EndedInv'
  <2> SUFFICES ASSUME NEW x \in DOMAIN loggedOut'
               PROVE  /\ x \in DOMAIN sessions /\ Dead(x)
                      /\ loggedOut'[x] <= lastForced'[sessions[x].user]
    BY <1>3 DEF EndedInv, Dead
  <2>1. CASE x \in DOMAIN loggedOut /\ loggedOut'[x] = loggedOut[x]
    <3>1. /\ x \in DOMAIN sessions /\ Dead(x)
          /\ loggedOut[x] <= lastForced[sessions[x].user]
      BY <2>1 DEF LInv, EndedInv
    <3>2. sessions[x].user \in User /\ loggedOut[x] \in Nat
      BY <1>1, <2>1, <3>1
    <3>3. lastForced[sessions[x].user] \in Nat /\ lastForced'[sessions[x].user] \in Nat
      BY <1>1, <1>2, <1>3, <3>2
    <3> QED
      BY <1>8, <2>1, <3>1, <3>2, <3>3
  <2>2. CASE logs /\ x = s /\ loggedOut'[x] = f.time
    BY <1>9, <2>2 DEF Ended, Started
  <2> QED
    BY <1>10, <2>1, <2>2
<1> QED
  BY <1>11, <1>12, <1>13, <1>14 DEF LInv

----------------------------------------------------------------------------
\* Every step keeps the inductive invariant.
LEMMA NextLInv == IInv /\ LInv /\ TInv /\ [Next]_vars => LInv'
<1> SUFFICES ASSUME IInv, LInv, TInv, [Next]_vars PROVE LInv'
  OBVIOUS
<1>1. CASE Tick
  BY <1>1, TickRows
<1>2. ASSUME NEW r \in Request, NEW c \in Client, SendRequest(r, c) PROVE LInv'
  BY <1>2, SendRequestRows
<1>3. ASSUME NEW r \in Request, NEW u \in User, SetRolesOfUser(r, u) PROVE LInv'
  BY <1>3, SetRolesOfUserRows
<1>4. ASSUME NEW r \in Request, ContinueSession(r) PROVE LInv'
  BY <1>4, ContinueWithoutSessionRows, ParseAuthTokenRows, RejectAuthTokenRows, AcceptAuthTokenRows,
     RefreshAuthTokenRows, RejectRefreshTokenRows, AcceptRefreshTokenRows DEF ContinueSession
<1>5. ASSUME NEW r \in Request, issueSessionTokens(r) PROVE LInv'
  BY <1>5, ReadRolesRows, ReadRolesFailsRows, GenerateAuthTokenRows, UpsertSessionRows,
     UpsertInvalidatedRows, UpsertFailsRows DEF issueSessionTokens
<1>6. ASSUME NEW r \in Request, Resolver(r) PROVE LInv'
  BY <1>6, QueryRows, LoginRows, CreateUserRows, CommitRows, LogoutNobodyRows, LogoutRows, InvalidateFailsRows,
     OptInForRolesRows, OptOutForRolesRows DEF Resolver
<1>7. ASSUME NEW r \in Request, ForceAuthTokenRefresh(r) PROVE LInv'
  BY <1>7, ReadForceTimeRows, SetTimeRows, SetTimeFailsRows DEF ForceAuthTokenRefresh
<1>8. ASSUME NEW r \in Request, Deliver(r) \/ Lose(r) PROVE LInv'
  BY <1>8, FinishRows
<1>9. CASE UNCHANGED vars
  BY <1>9 DEF vars, storeVars, historyVars, LInv, HeldInv, Held, Backed, Aged, Storing, Started,
     RowInv, RowOK, Ended, Dead, StartInv, Starting, EndedInv
<1> QED
  BY <1>1, <1>2, <1>3, <1>4, <1>5, <1>6, <1>7, <1>8, <1>9 DEF Next

----------------------------------------------------------------------------
(* Users and the transactions that create them.                            *)

\* A step of request r that neither ends CreateUser nor is seen by one that runs: users,
\* rows and the replies of others stay, a user that r begins to create is new, and a
\* context that r comes to has a session whose transaction is over.
Unseen(r) ==
    /\ UNCHANGED <<users, sessions>>
    /\ \A q \in Request \ {r} : /\ pc'[q] = pc[q] /\ ctx'[q] = ctx[q] /\ issue'[q] = issue[q]
                                /\ reply'[q] = reply[q]
    /\ pc[r] # "commit" /\ pc'[r] # "commit"
    /\ \A c \in Cookies : Out(c)' => Out(c) \/ c = NoCookies
    /\ Creating(r)' =>
          \/ Creating(r) /\ issue'[r].user = issue[r].user /\ issue'[r].start = issue[r].start
          \/ /\ issue'[r].start /\ issue'[r].user \notin users
             /\ \A s \in DOMAIN sessions : sessions[s].user # issue'[r].user
             /\ \A q \in Request : issue[q].user # issue'[r].user
    /\ ctx'[r].authed => ctx'[r] = ctx[r] \/ Settled(ctx'[r].session)

\* A step that is not seen disturbs no transaction.
LEMMA UnseenStep ==
    ASSUME TInv, NEW r \in Request, Unseen(r)
    PROVE  TInv'
<1>1. SettledInv'
  <2>1. ASSUME NEW c \in Cookies, Out(c)' PROVE TokensSettled(c)'
    <3>1. TokensSettled(c)
      BY <2>1 DEF Unseen, TInv, SettledInv, TokensSettled, NoCookies
    <3> QED
      BY <3>1 DEF Unseen, TokensSettled, Settled
  <2>2. ASSUME NEW q \in Request, pc'[q] # "commit", ctx'[q].authed PROVE Settled(ctx[q].session)'
    <3>1. Settled(ctx'[q].session)
      BY <2>2 DEF Unseen, TInv, SettledInv
    <3> QED
      BY <3>1 DEF Unseen, Settled
  <2> QED
    BY <2>1, <2>2 DEF SettledInv
<1>2. UserInv'
  BY DEF Unseen, TInv, UserInv
<1>3. ASSUME NEW q \in Request PROVE CreateOK(q)'
  <2>1. CASE q = r
    BY <2>1 DEF Unseen, TInv, CreateInv, CreateOK
  <2>2. CASE q # r
    BY <2>2 DEF Unseen, TInv, CreateInv, CreateOK, Creating
  <2> QED
    BY <2>1, <2>2
<1>4. ASSUME NEW p \in Request, NEW q \in Request, Creating(p)', Creating(q)',
             issue'[p].user = issue'[q].user, p # q
      PROVE  FALSE
  <2>1. ASSUME NEW x \in Request \ {r}, Creating(x)' PROVE Creating(x) /\ issue'[x] = issue[x]
    BY <2>1 DEF Unseen, Creating
  <2>2. ASSUME NEW x \in Request \ {r}, Creating(x)', Creating(r)', issue'[x].user = issue'[r].user
        PROVE  FALSE
    BY <2>1, <2>2 DEF Unseen, TInv, CreateInv
  <2> QED
    BY <1>4, <2>1, <2>2 DEF TInv, CreateInv
<1>5. \A p, q \in Request : pc'[p] = "commit" /\ pc'[q] = "commit" /\ ctx'[p].session = ctx'[q].session => p = q
  BY DEF Unseen, TInv, CreateInv
<1> QED
  BY <1>1, <1>2, <1>3, <1>4, <1>5 DEF TInv, CreateInv

\* What ContinueSession believes are cookies that came with the request.
LEMMA ContinueSessionUnseen ==
    ASSUME IInv, LInv, TInv, NEW r \in Request, ContinueSession(r)
    PROVE  Unseen(r)
<1>1. CASE ContinueWithoutSession(r) \/ AcceptRefreshToken(r)
  <2>1. PICK u, s, start : BeginIssue(r, u, s, start, "resolve")
    BY <1>1 DEF ContinueWithoutSession, AcceptRefreshToken
  <2>2. issue' = [issue EXCEPT ![r] = [NoIssue EXCEPT !.user = u, !.session = s, !.start = start, !.then = "resolve"]]
        /\ pc' = [pc EXCEPT ![r] = "roles"]
    BY <2>1 DEF BeginIssue, Goto
  <2>3. issue'[r].then = "resolve"
    BY <2>2 DEF NoIssue, IInv, TypeOK
  <2>4. pc[r] \in {"continue", "refresh"} /\ UNCHANGED <<users, sessions, jar, cookies, ctx, reply>>
    BY <1>1 DEF ContinueWithoutSession, AcceptRefreshToken, storeVars
  <2> QED
    BY <2>2, <2>3, <2>4 DEF Unseen, Out, Creating, IInv, TypeOK
<1>2. CASE ParseAuthToken(r) \/ RejectAuthToken(r) \/ RefreshAuthToken(r)
  BY <1>2 DEF ParseAuthToken, RejectAuthToken, RefreshAuthToken, Goto, storeVars, Unseen, Out, Creating,
     IssueStage, IInv, TypeOK
<1>3. CASE AcceptAuthToken(r)
  <2> DEFINE t == cookies[r].auth
             c == setSessionState(t.user, t.session, t.roles)
  <2>1. t # NoToken /\ t.session # NoSession
    BY <1>3, NoneAssumption DEF AcceptAuthToken, IInv, StageInv, StageOK
  <2>2. Settled(c.session)
    <3>1. cookies[r] \in Cookies /\ Out(cookies[r])
      BY DEF IInv, TypeOK, Out
    <3>2. TokensSettled(cookies[r])
      BY <3>1 DEF TInv, SettledInv
    <3> QED
      BY <2>1, <3>2 DEF TokensSettled, setSessionState
  <2>3. /\ pc[r] = "check" /\ pc' = [pc EXCEPT ![r] = "resolve"] /\ ctx' = [ctx EXCEPT ![r] = c]
        /\ UNCHANGED <<users, sessions, jar, cookies, issue, reply>>
    BY <1>3 DEF AcceptAuthToken, Goto, storeVars
  <2> HIDE DEF c, t
  <2> QED
    BY <2>2, <2>3 DEF Unseen, Out, Creating, IssueStage, IInv, TypeOK
<1>4. CASE RejectRefreshToken(r)
  BY <1>4, ValueTypes DEF RejectRefreshToken, Goto, storeVars, Unseen, Out, Creating,
     IssueStage, IInv, TypeOK, clearSessionCookies
<1> QED
  BY <1>1, <1>2, <1>3, <1>4 DEF ContinueSession

\* Tokens that are not issued are not seen.
LEMMA IssueUnseen ==
    ASSUME IInv, LInv, TInv, NEW r \in Request, issueSessionTokens(r), ~UpsertSession(r)
    PROVE  Unseen(r)
<1>1. CASE ReadRoles(r) \/ GenerateAuthToken(r)
  <2>1. issue[r] \in IssueLocals
    BY DEF IInv, TypeOK
  <2>2. /\ issue'[r].then = issue[r].then /\ issue'[r].user = issue[r].user /\ issue'[r].start = issue[r].start
        /\ \A q \in Request \ {r} : issue'[q] = issue[q]
    BY <1>1, <2>1 DEF ReadRoles, GenerateAuthToken, IInv, TypeOK, IssueLocals
  <2>3. /\ pc[r] \in {"roles", "generate"} /\ pc'[r] \in {"generate", "upsert"}
        /\ \A q \in Request \ {r} : pc'[q] = pc[q]
        /\ UNCHANGED <<users, sessions, jar, cookies, ctx, reply>>
    BY <1>1 DEF ReadRoles, GenerateAuthToken, Goto, storeVars, IInv, TypeOK
  <2> QED
    BY <2>2, <2>3 DEF Unseen, Out, Creating, IssueStage
<1>2. CASE ReadRolesFails(r) \/ UpsertFails(r) \/ UpsertInvalidated(r)
  <2> DEFINE to == IF issue[r].then = "resolve" THEN "resolve" ELSE "respond"
  <2>1. /\ pc[r] \in {"roles", "upsert"} /\ pc' = [pc EXCEPT ![r] = to]
        /\ ctx' = [ctx EXCEPT ![r] = clearSessionState]
        /\ issue' = [issue EXCEPT ![r] = NoIssue]
        /\ reply' = reply \/ reply' = [reply EXCEPT ![r] = clearSessionCookies]
        /\ UNCHANGED <<users, jar, cookies>>
    BY <1>2 DEF ReadRolesFails, UpsertFails, UpsertInvalidated, IssueFailed, Goto, storeVars, IInv, TypeOK
  <2>2. sessions' = sessions
    BY <1>2, InvalidatedRowsKept DEF ReadRolesFails, UpsertFails, storeVars
  <2>3. to \in {"resolve", "respond"}
    OBVIOUS
  <2> HIDE DEF to
  <2>4. \A q \in Request : reply'[q] = reply[q] \/ (q = r /\ reply'[q] = clearSessionCookies)
    BY <2>1 DEF IInv, TypeOK
  <2>5. \A q \in Request \ {r} : pc'[q] = pc[q] /\ ctx'[q] = ctx[q] /\ issue'[q] = issue[q]
    BY <2>1 DEF IInv, TypeOK
  <2>6. pc'[r] = to /\ ~ctx'[r].authed
    BY <2>1, ValueTypes DEF IInv, TypeOK
  <2>7. ~Creating(r)'
    BY <2>3, <2>6 DEF Creating, IssueStage
  <2>8. \A c \in Cookies : Out(c)' => Out(c) \/ c = NoCookies
    BY <2>1, <2>4, <2>5 DEF Out, clearSessionCookies
  <2> QED
    BY <2>1, <2>2, <2>3, <2>4, <2>5, <2>6, <2>7, <2>8 DEF Unseen
<1> QED
  BY <1>1, <1>2 DEF issueSessionTokens

\* Resolvers, but for logouts that find a row and the end of CreateUser.
LEMMA ResolverUnseen ==
    ASSUME IInv, LInv, TInv, NEW r \in Request, Resolver(r), ~Logout(r), ~Commit(r), ~CommitFails(r)
    PROVE  Unseen(r)
<1>1. CASE Query(r)
  BY <1>1 DEF Query, Goto, storeVars, Unseen, Out, Creating, IssueStage, IInv, TypeOK
<1>2. CASE LogoutNobody(r)
  BY <1>2, ValueTypes DEF LogoutNobody, Goto, storeVars, Unseen, Out, Creating, IssueStage,
     IInv, TypeOK, clearSessionCookies
<1>3. CASE (\E u \in User : Login(r, u)) \/ CreateUser(r)
  <2>1. PICK u \in User, s \in SessionID, then \in {"respond", "commit"} :
           /\ BeginIssue(r, u, s, TRUE, then)
           /\ then = "commit" => u \in FreshUserID
    BY <1>3 DEF Login, CreateUser, FreshUserID, FreshSessionID
  <2>2. PICK i \in IssueLocals :
           /\ i.user = u /\ i.start
           /\ issue' = [issue EXCEPT ![r] = i] /\ pc' = [pc EXCEPT ![r] = "roles"]
           /\ i.then = then
    <3> DEFINE i == [NoIssue EXCEPT !.user = u, !.session = s, !.start = TRUE, !.then = then]
    <3>1. i \in IssueLocals /\ i.user = u /\ i.start /\ i.then = then
      BY DEF NoIssue, IssueLocals
    <3>2. issue' = [issue EXCEPT ![r] = i] /\ pc' = [pc EXCEPT ![r] = "roles"]
      BY <2>1 DEF BeginIssue, Goto
    <3> HIDE DEF i
    <3> QED
      BY <3>1, <3>2
  <2>3. pc[r] = "resolve" /\ UNCHANGED <<users, sessions, jar, cookies, ctx, reply>>
    BY <1>3 DEF Login, CreateUser, storeVars
  <2>4. /\ issue'[r] = i /\ pc'[r] = "roles" /\ ctx'[r] = ctx[r]
        /\ \A q \in Request \ {r} : pc'[q] = pc[q] /\ ctx'[q] = ctx[q] /\ issue'[q] = issue[q]
    BY <2>2, <2>3 DEF IInv, TypeOK
  <2>5. then = "commit" => /\ u \notin users
                           /\ \A x \in DOMAIN sessions : sessions[x].user # u
                           /\ \A q \in Request : issue[q].user # u
    BY <2>1 DEF FreshUserID
  <2> QED
    BY <2>2, <2>3, <2>4, <2>5 DEF Unseen, Out, Creating
<1>4. CASE InvalidateFails(r) \/ OptInForRoles(r) \/ OptOutForRoles(r)
  BY <1>4 DEF InvalidateFails, OptInForRoles, OptOutForRoles, BeginForce, Goto, storeVars, Unseen, Out,
     Creating, IssueStage, IInv, TypeOK
<1> QED
  BY <1>1, <1>2, <1>3, <1>4 DEF Resolver

\* Requests that come and go, and forced refreshes.
LEMMA OthersUnseen ==
    ASSUME IInv, LInv, TInv, NEW r \in Request,
           \/ \E c \in Client : SendRequest(r, c)
           \/ \E u \in User : SetRolesOfUser(r, u)
           \/ ForceAuthTokenRefresh(r) \/ Deliver(r) \/ Lose(r)
    PROVE  Unseen(r)
<1>1. CASE \E c \in Client : SendRequest(r, c)
  BY <1>1 DEF SendRequest, Goto, storeVars, Unseen, Out, Creating, IssueStage, IInv, TypeOK
<1>2. CASE (\E u \in User : SetRolesOfUser(r, u)) \/ ReadForceTime(r)
  BY <1>2 DEF SetRolesOfUser, BeginForce, ReadForceTime, Goto, storeVars, Unseen, Out, Creating,
     IssueStage, IInv, TypeOK
<1>3. CASE SetTime(r) \/ SetTimeFails(r)
  <2>1. /\ pc[r] = "setTime" /\ pc' = [pc EXCEPT ![r] = "respond"]
        /\ \/ UNCHANGED <<ctx, reply>>
           \/ ctx' = [ctx EXCEPT ![r] = clearSessionState] /\ reply' = [reply EXCEPT ![r] = clearSessionCookies]
        /\ UNCHANGED <<users, sessions, jar, cookies, issue>>
    BY <1>3 DEF SetTime, SetTimeFails, AfterForce, Goto, storeVars
  <2> QED
    BY <2>1, ValueTypes DEF Unseen, Out, Creating, IssueStage, IInv, TypeOK, clearSessionCookies
<1>4. CASE Deliver(r) \/ Lose(r)
  <2>1. /\ pc[r] = "respond" /\ pc' = [pc EXCEPT ![r] = "idle"] /\ cookies' = [cookies EXCEPT ![r] = NoCookies]
        /\ ctx' = [ctx EXCEPT ![r] = clearSessionState] /\ reply' = [reply EXCEPT ![r] = KeepCookies]
        /\ UNCHANGED <<users, sessions, issue>>
    BY <1>4 DEF Deliver, Lose, Finish, Goto, storeVars
  <2>2. \A k \in Client : jar'[k] = jar[k] \/ jar'[k] = reply[r].cookies
    BY <1>4 DEF Deliver, Lose, IInv, TypeOK
  <2> QED
    BY <2>1, <2>2, ValueTypes DEF Unseen, Out, Creating, IssueStage, IInv, TypeOK, KeepCookies
<1> QED
  BY <1>1, <1>2, <1>3, <1>4 DEF ForceAuthTokenRefresh

\* A logout leaves users and the ends of transactions alone.
LEMMA LogoutTxn ==
    ASSUME IInv, LInv, TInv, NEW r \in Request, Logout(r)
    PROVE  TInv'
<1>1. /\ RowsKept /\ DOMAIN sessions' = DOMAIN sessions
      /\ \A s \in DOMAIN sessions : sessions'[s].txn = sessions[s].txn
  BY LogoutRowsKept
<1>2. \A s \in DOMAIN sessions : sessions'[s].user = sessions[s].user
  BY <1>1 DEF RowsKept
<1>3. /\ pc[r] = "resolve" /\ pc' = [pc EXCEPT ![r] = "force"]
      /\ UNCHANGED <<users, jar, cookies, ctx, issue, reply>>
  BY DEF Logout, BeginForce, Goto
<1>4. pc'[r] = "force" /\ \A q \in Request \ {r} : pc'[q] = pc[q]
  BY <1>3 DEF IInv, TypeOK
<1>5. SettledInv'
  <2>1. ASSUME NEW c \in Cookies, Out(c)' PROVE TokensSettled(c)'
    <3>1. Out(c) /\ TokensSettled(c) /\ Backed(c)
      BY <1>3, <1>4, <2>1, HeldOK DEF Out, TInv, SettledInv
    <3> QED
      BY <1>1, <3>1 DEF TokensSettled, Backed, Settled, Started
  <2>2. ASSUME NEW q \in Request, pc'[q] # "commit", ctx'[q].authed PROVE Settled(ctx[q].session)'
    <3>1. pc[q] # "commit" /\ ctx[q].authed
      BY <1>3, <1>4, <2>2
    <3>2. Settled(ctx[q].session) /\ Started(ctx[q].session, ctx[q].user)
      BY <3>1 DEF TInv, SettledInv, LInv, RowInv, RowOK
    <3> QED
      BY <1>1, <1>3, <3>2 DEF Settled, Started
  <2> QED
    BY <2>1, <2>2 DEF SettledInv
<1>6. UserInv'
  BY <1>1, <1>2, <1>3 DEF TInv, UserInv
<1>7. CreateInv'
  <2>1. ASSUME NEW q \in Request PROVE CreateOK(q)'
    <3>1. Creating(q)' => Creating(q)
      BY <1>3, <1>4 DEF Creating, IssueStage
    <3>2. pc'[q] = "commit" => pc[q] = "commit" /\ ctx[q].session \in DOMAIN sessions
      BY <1>4 DEF LInv, RowInv, RowOK, Started, IInv, StageInv, StageOK
    <3> QED
      BY <1>1, <1>2, <1>3, <3>1, <3>2 DEF TInv, CreateInv, CreateOK
  <2>2. \A q \in Request : Creating(q)' => Creating(q)
    BY <1>3, <1>4 DEF Creating, IssueStage
  <2> QED
    BY <1>3, <1>4, <2>1, <2>2 DEF TInv, CreateInv
<1> QED
  BY <1>5, <1>6, <1>7 DEF TInv

\* A session is stored: committed when its user is, open when CreateUser stores it.
LEMMA UpsertSessionTxn ==
    ASSUME IInv, LInv, TInv, NEW r \in Request, UpsertSession(r)
    PROVE  TInv'
<1> DEFINE i == issue[r]
           auth == [user |-> i.user, session |-> i.session, roles |-> i.roles, iat |-> i.iat]
           refresh == [user |-> i.user, session |-> i.session, exp |-> i.refreshExp]
           new == [auth |-> auth, refresh |-> refresh]
           c == setSessionState(i.user, i.session, i.roles)
<1>1. /\ i \in IssueLocals /\ pc[r] = "upsert" /\ UserExists(r) /\ Upsert(r)
      /\ ctx' = [ctx EXCEPT ![r] = c]
      /\ reply' = [reply EXCEPT ![r] = setSessionCookies(auth, refresh)]
      /\ issue' = [issue EXCEPT ![r] = NoIssue] /\ pc' = [pc EXCEPT ![r] = i.then]
      /\ UNCHANGED <<users, jar, cookies>>
  BY DEF UpsertSession, Goto, IInv, TypeOK
<1>2. i.then \in {"resolve", "respond", "commit"}
  BY <1>1 DEF IssueLocals
<1>3. /\ \A x \in DOMAIN sessions : x \in DOMAIN sessions' /\ sessions'[x] = sessions[x]
      /\ \A x : x \notin DOMAIN sessions /\ x # i.session => x \notin DOMAIN sessions'
      /\ i.session \in DOMAIN sessions'
      /\ i.session \notin DOMAIN sessions =>
            /\ sessions'[i.session].user = i.user
            /\ sessions'[i.session].txn = IF i.then = "commit" THEN "open" ELSE "committed"
  BY <1>1, UpsertRowsKept DEF RowsKept, InCreateUser
<1>4. i.session \in DOMAIN sessions => i.then # "commit" /\ sessions[i.session].txn = "committed"
  BY UpsertAlive DEF InCreateUser
<1>5. i.then # "commit" => i.user \in users
  BY <1>1 DEF UserExists, InCreateUser
<1>6. i.then = "commit" => i.user \notin users /\ \A s \in DOMAIN sessions : sessions[s].user # i.user
  BY <1>1 DEF TInv, CreateInv, CreateOK, Creating, IssueStage
<1>7. \A q \in Request \ {r} : /\ pc'[q] = pc[q] /\ ctx'[q] = ctx[q] /\ issue'[q] = issue[q]
                               /\ reply'[q] = reply[q]
  BY <1>1 DEF IInv, TypeOK
<1>8. pc'[r] = i.then /\ ctx'[r] = c /\ reply'[r] = setSessionCookies(auth, refresh)
  BY <1>1 DEF IInv, TypeOK
<1>9. /\ new.auth.session = i.session /\ new.refresh.session = i.session
      /\ setSessionCookies(auth, refresh).cookies = new
      /\ c.session = i.session /\ c.user = i.user
  BY DEF setSessionCookies, setSessionState
<1>10. \A q \in Request : Creating(q) /\ q # r /\ i.then = "commit" => issue[q].user # i.user
  BY <1>1 DEF TInv, CreateInv, Creating, IssueStage
<1> HIDE DEF i, auth, refresh, new, c
<1>11. \A s : Settled(s) /\ s \in DOMAIN sessions => Settled(s)'
  BY <1>3 DEF Settled
<1>12. i.then # "commit" => sessions'[i.session].txn # "open"
  BY <1>3, <1>4
<1>13. SettledInv'
  <2>1. ASSUME NEW d \in Cookies, Out(d)' PROVE TokensSettled(d)'
    <3>1. Out(d) \/ (d = new /\ i.then # "commit")
      BY <1>1, <1>7, <1>8, <1>9, <2>1 DEF Out
    <3>2. CASE Out(d)
      <4>1. Backed(d) /\ TokensSettled(d)
        BY <3>2, HeldOK DEF Out, TInv, SettledInv
      <4> QED
        BY <1>11, <4>1 DEF Backed, Started, TokensSettled
    <3>3. CASE d = new /\ i.then # "commit"
      BY <1>9, <1>12, <3>3 DEF TokensSettled, Settled
    <3> QED
      BY <3>1, <3>2, <3>3
  <2>2. ASSUME NEW q \in Request, pc'[q] # "commit", ctx'[q].authed PROVE Settled(ctx[q].session)'
    <3>1. CASE q = r
      BY <1>8, <1>9, <1>12, <2>2, <3>1 DEF Settled
    <3>2. CASE q # r
      <4>1. Settled(ctx[q].session) /\ Started(ctx[q].session, ctx[q].user)
        BY <1>7, <2>2, <3>2 DEF TInv, SettledInv, LInv, RowInv, RowOK
      <4> QED
        BY <1>7, <1>11, <3>2, <4>1 DEF Started
    <3> QED
      BY <3>1, <3>2
  <2> QED
    BY <2>1, <2>2 DEF SettledInv
<1>14. UserInv'
  <2> SUFFICES ASSUME NEW s \in DOMAIN sessions'
               PROVE  sessions'[s].txn = "committed" <=> sessions'[s].user \in users
    BY <1>1 DEF UserInv
  <2>1. CASE s \in DOMAIN sessions
    BY <1>3, <2>1 DEF TInv, UserInv
  <2>2. CASE s \notin DOMAIN sessions
    BY <1>3, <1>5, <1>6, <2>2
  <2> QED
    BY <2>1, <2>2
<1>15. ASSUME NEW q \in Request, pc[q] = "commit"
       PROVE  /\ Started(ctx[q].session, ctx[q].user) /\ CreateOK(q)
              /\ ctx[q].user # i.user
  <2>1. Started(ctx[q].session, ctx[q].user) /\ CreateOK(q)
    BY <1>15 DEF LInv, RowInv, RowOK, IInv, StageInv, StageOK, TInv, CreateInv
  <2>2. ctx[q].user \notin users
    BY <1>15, <2>1 DEF Started, CreateOK, TInv, UserInv
  <2> QED
    BY <1>2, <1>5, <1>6, <2>1, <2>2 DEF Started
<1>16. ASSUME NEW q \in Request PROVE CreateOK(q)'
  <2>1. CASE q = r
    BY <1>1, <1>2, <1>3, <1>4, <1>6, <1>8, <1>9, <2>1 DEF CreateOK, Creating, IssueStage
  <2>2. CASE q # r
    <3>1. ASSUME Creating(q)'
          PROVE  /\ issue[q].start /\ issue[q].user \notin users
                 /\ \A s \in DOMAIN sessions' : sessions'[s].user # issue[q].user
      <4>1. Creating(q) /\ CreateOK(q)
        BY <1>7, <2>2, <3>1 DEF Creating, TInv, CreateInv
      <4>2. i.user # issue[q].user
        BY <1>2, <1>5, <1>10, <2>2, <4>1 DEF CreateOK
      <4> QED
        BY <1>3, <4>1, <4>2 DEF CreateOK
    <3>2. ASSUME pc'[q] = "commit"
          PROVE  /\ sessions'[ctx[q].session].txn = "open"
                 /\ \A s \in DOMAIN sessions' : sessions'[s].user = ctx[q].user => s = ctx[q].session
                 /\ reply[q].cookies.auth.session = ctx[q].session
                 /\ reply[q].cookies.refresh.session = ctx[q].session
      <4>1. pc[q] = "commit"
        BY <1>7, <2>2, <3>2
      <4> QED
        BY <1>3, <1>15, <4>1 DEF Started, CreateOK
    <3> QED
      BY <1>1, <1>7, <2>2, <3>1, <3>2 DEF CreateOK
  <2> QED
    BY <2>1, <2>2
<1>17. \A q \in Request : Creating(q)' => Creating(q) /\ issue'[q] = issue[q]
  BY <1>2, <1>7, <1>8 DEF Creating, IssueStage
<1>18. ASSUME NEW p \in Request, NEW q \in Request, pc'[p] = "commit", pc'[q] = "commit",
              ctx'[p].session = ctx'[q].session, p # q
       PROVE  FALSE
  <2>1. ASSUME NEW x \in Request, x # r, pc'[x] = "commit", ctx'[x].session = i.session, i.then = "commit"
        PROVE  FALSE
    BY <1>4, <1>7, <1>15, <2>1 DEF Started
  <2>2. CASE p = r
    BY <1>8, <1>9, <1>18, <2>1, <2>2
  <2>3. CASE q = r
    BY <1>8, <1>9, <1>18, <2>1, <2>3
  <2>4. CASE p # r /\ q # r
    BY <1>7, <1>18, <2>4 DEF TInv, CreateInv
  <2> QED
    BY <2>2, <2>3, <2>4
<1> QED
  BY <1>13, <1>14, <1>16, <1>17, <1>18 DEF TInv, CreateInv

\* The transaction of CreateUser ends, and its user and session with it.
LEMMA CommitTxn ==
    ASSUME IInv, LInv, TInv, NEW r \in Request, Commit(r) \/ CommitFails(r)
    PROVE  TInv'
<1> DEFINE s == ctx[r].session
           u == ctx[r].user
<1>1. /\ pc[r] = "commit" /\ pc' = [pc EXCEPT ![r] = "respond"]
      /\ UNCHANGED <<jar, cookies, ctx, issue, reply>>
  BY DEF Commit, CommitFails, Goto
<1>2. PICK txn \in {"committed", "rolledBack"} :
         EndTransaction(r, txn) /\ users' = IF txn = "committed" THEN users \cup {u} ELSE users
  BY DEF Commit, CommitFails
<1>3. Started(s, u) /\ CreateOK(r)
  BY <1>1 DEF LInv, RowInv, RowOK, IInv, StageInv, StageOK, TInv, CreateInv
<1>4. /\ RowsKept /\ DOMAIN sessions' = DOMAIN sessions
      /\ \A x \in DOMAIN sessions : x # s => sessions'[x] = sessions[x]
      /\ sessions'[s].txn = txn
  BY <1>1, <1>2, <1>3, EndTransactionRowsKept DEF Started
<1>5. pc'[r] = "respond" /\ \A q \in Request \ {r} : pc'[q] = pc[q]
  BY <1>1 DEF IInv, TypeOK
<1>6. \A x \in DOMAIN sessions : sessions'[x].user = sessions[x].user
  BY <1>4 DEF RowsKept
<1>7. \A x \in DOMAIN sessions : sessions[x].user = u => x = s
  BY <1>1, <1>3 DEF CreateOK
<1>8. u \notin users
  BY <1>1, <1>3 DEF Started, CreateOK, TInv, UserInv
<1>9. \A x : x = s \/ (Settled(x) /\ x \in DOMAIN sessions) => Settled(x)'
  BY <1>2, <1>4 DEF Settled
<1> HIDE DEF s, u
<1>10. SettledInv'
  <2>1. ASSUME NEW c \in Cookies, Out(c)' PROVE TokensSettled(c)'
    <3>1. Out(c) \/ c = reply[r].cookies
      BY <1>1, <1>5, <2>1 DEF Out
    <3>2. CASE Out(c)
      <4>1. Backed(c) /\ TokensSettled(c)
        BY <3>2, HeldOK DEF Out, TInv, SettledInv
      <4> QED
        BY <1>9, <4>1 DEF Backed, Started, TokensSettled
    <3>3. CASE c = reply[r].cookies
      BY <1>1, <1>3, <1>9, <3>3 DEF TokensSettled, CreateOK, s
    <3> QED
      BY <3>1, <3>2, <3>3
  <2>2. ASSUME NEW q \in Request, pc'[q] # "commit", ctx'[q].authed PROVE Settled(ctx[q].session)'
    <3>1. CASE q = r
      BY <1>1, <1>9, <3>1 DEF s
    <3>2. CASE q # r
      <4>1. Settled(ctx[q].session) /\ Started(ctx[q].session, ctx[q].user)
        BY <1>1, <1>5, <2>2, <3>2 DEF TInv, SettledInv, LInv, RowInv, RowOK
      <4> QED
        BY <1>1, <1>9, <4>1 DEF Started
    <3> QED
      BY <3>1, <3>2
  <2> QED
    BY <2>1, <2>2 DEF SettledInv
<1>11. UserInv'
  <2> SUFFICES ASSUME NEW x \in DOMAIN sessions
               PROVE  sessions'[x].txn = "committed" <=> sessions[x].user \in users'
    BY <1>4, <1>6 DEF UserInv
  <2>1. CASE x = s
    <3>1. sessions[x].user = u
      BY <1>3, <2>1 DEF Started, s, u
    <3> QED
      BY <1>2, <1>4, <1>8, <2>1, <3>1
  <2>2. CASE x # s
    <3>1. sessions[x].user # u /\ sessions'[x] = sessions[x]
      BY <1>4, <1>7, <2>2
    <3> QED
      BY <1>2, <3>1 DEF TInv, UserInv
  <2> QED
    BY <2>1, <2>2
<1>12. \A q \in Request : Creating(q)' => Creating(q)
  BY <1>1, <1>5 DEF Creating, IssueStage
<1>13. ASSUME NEW q \in Request PROVE CreateOK(q)'
  <2>1. CreateOK(q)
    BY DEF TInv, CreateInv
  <2>2. ASSUME Creating(q)
        PROVE  /\ issue[q].start /\ issue[q].user \notin users'
               /\ \A x \in DOMAIN sessions' : sessions'[x].user # issue[q].user
    <3>1. issue[q].user # u
      BY <1>3, <2>1, <2>2 DEF CreateOK, Started, s, u
    <3> QED
      BY <1>2, <1>4, <1>6, <2>1, <2>2, <3>1 DEF CreateOK
  <2>3. ASSUME pc'[q] = "commit"
        PROVE  /\ sessions'[ctx[q].session].txn = "open"
               /\ \A x \in DOMAIN sessions' : sessions'[x].user = ctx[q].user => x = ctx[q].session
    <3>1. pc[q] = "commit" /\ q # r
      BY <1>5, <2>3
    <3>2. ctx[q].session # s
      BY <1>1, <3>1 DEF TInv, CreateInv, s
    <3>3. ctx[q].session \in DOMAIN sessions
      BY <3>1 DEF LInv, RowInv, RowOK, Started, IInv, StageInv, StageOK
    <3> QED
      BY <1>4, <1>6, <2>1, <3>1, <3>2, <3>3 DEF CreateOK
  <2>4. pc'[q] = "commit" => pc[q] = "commit"
    BY <1>5
  <2> QED
    BY <1>1, <1>12, <2>1, <2>2, <2>3, <2>4 DEF CreateOK
<1>14. \A q \in Request : pc'[q] = "commit" => pc[q] = "commit"
  BY <1>5
<1> QED
  BY <1>1, <1>10, <1>11, <1>12, <1>13, <1>14 DEF TInv, CreateInv

\* Every step keeps users, rows and transactions in agreement.
LEMMA NextTInv == IInv /\ LInv /\ TInv /\ [Next]_vars => TInv'
<1> SUFFICES ASSUME IInv, LInv, TInv, [Next]_vars PROVE TInv'
  OBVIOUS
<1>1. CASE Tick \/ UNCHANGED vars
  <2>1. UNCHANGED <<users, sessions, jar, pc, cookies, ctx, issue, reply>>
    BY <1>1 DEF Tick, vars, storeVars
  <2> QED
    BY <2>1 DEF TInv, SettledInv, Out, TokensSettled, Settled, UserInv, CreateInv, CreateOK, Creating
<1>2. ASSUME NEW r \in Request,
             \/ \E c \in Client : SendRequest(r, c)
             \/ \E u \in User : SetRolesOfUser(r, u)
             \/ ForceAuthTokenRefresh(r) \/ Deliver(r) \/ Lose(r)
      PROVE  TInv'
  BY <1>2, OthersUnseen, UnseenStep
<1>3. ASSUME NEW r \in Request, ContinueSession(r) PROVE TInv'
  BY <1>3, ContinueSessionUnseen, UnseenStep
<1>4. ASSUME NEW r \in Request, issueSessionTokens(r) PROVE TInv'
  BY <1>4, IssueUnseen, UnseenStep, UpsertSessionTxn
<1>5. ASSUME NEW r \in Request, Resolver(r) PROVE TInv'
  BY <1>5, ResolverUnseen, UnseenStep, LogoutTxn, CommitTxn
<1> QED
  BY <1>1, <1>2, <1>3, <1>4, <1>5 DEF Next

\* Rows, tokens and logouts agree in every state the sessions can reach.
THEOREM RowInvariance == Spec => [](LInv /\ TInv)
  BY InitLInv, InitTInv, NextLInv, NextTInv, Invariance, PTL DEF Spec

\* Every token a client holds or is sent has a row of its user in the sessions table,
\* or its session's user was never created, whatever fails and however requests interleave.
THEOREM TokensAlwaysHaveSessions == Spec => []TokensHaveSessions
<1>1. IInv /\ LInv /\ TInv => TokensHaveSessions
  <2> SUFFICES ASSUME IInv, LInv, TInv,
                      NEW c \in {jar[k] : k \in Client}
                             \cup {reply[r].cookies : r \in {q \in Request : pc[q] # "commit"}}
               PROVE  /\ c.auth # NoToken /\ c.auth.session # NoSession => HasRow(c.auth.session, c.auth.user)
                      /\ c.refresh # NoToken => HasRow(c.refresh.session, c.refresh.user)
    BY DEF TokensHaveSessions
  <2>1. Backed(c)
    BY HeldOK
  <2>2. TokensSettled(c)
    <3>1. c \in Cookies /\ Out(c)
      BY DEF IInv, TypeOK, Reply, Out
    <3> QED
      BY <3>1 DEF TInv, SettledInv
  <2>3. ASSUME NEW s, NEW u, Started(s, u), Settled(s) PROVE HasRow(s, u)
    <3>1. sessions[s].txn \in {"committed", "rolledBack"}
      BY <2>3 DEF Started, Settled, IInv, TypeOK, Row
    <3> QED
      BY <2>3, <3>1 DEF HasRow, Started, TInv, UserInv
  <2> QED
    BY <2>1, <2>2, <2>3 DEF Backed, TokensSettled
<1> QED
  BY <1>1, Invariance, RowInvariance, PTL

\* A request is let in on its refresh token by UpsertSession only.
LEMMA OnlyUpsert ==
    ASSUME IInv, Next, NEW r \in Request, Refreshes(r)
    PROVE  UpsertSession(r)
<1>0. pc[r] = "upsert" /\ pc'[r] # "upsert" /\ ctx'[r].authed
  BY DEF Refreshes
<1>1. CASE Tick
  BY <1>0, <1>1 DEF Tick
<1>2. ASSUME NEW q \in Request, NEW stage, pc' = [pc EXCEPT ![q] = stage], q # r PROVE FALSE
  BY <1>0, <1>2 DEF IInv, TypeOK
<1>3. ASSUME NEW q \in Request, \E c \in Client : SendRequest(q, c) PROVE UpsertSession(r)
  BY <1>0, <1>2, <1>3 DEF SendRequest, Goto
<1>4. ASSUME NEW q \in Request, \E u \in User : SetRolesOfUser(q, u) PROVE UpsertSession(r)
  BY <1>0, <1>2, <1>4 DEF SetRolesOfUser, BeginForce, Goto
<1>5. ASSUME NEW q \in Request, ContinueSession(q) PROVE UpsertSession(r)
  BY <1>0, <1>2, <1>5 DEF ContinueSession, ContinueWithoutSession, ParseAuthToken, RejectAuthToken,
     AcceptAuthToken, RefreshAuthToken, RejectRefreshToken, AcceptRefreshToken, BeginIssue, Goto
<1>6. ASSUME NEW q \in Request, issueSessionTokens(q) PROVE UpsertSession(r)
  <2>1. CASE q # r
    BY <1>2, <1>6, <2>1 DEF issueSessionTokens, ReadRoles, ReadRolesFails, GenerateAuthToken,
       UpsertSession, UpsertInvalidated, UpsertFails, IssueFailed, Goto
  <2>2. CASE q = r
    <3>1. ~UpsertInvalidated(r) /\ ~UpsertFails(r)
      <4>1. ASSUME ctx' = [ctx EXCEPT ![r] = clearSessionState] PROVE FALSE
        BY <1>0, <4>1, ValueTypes DEF IInv, TypeOK
      <4> QED
        BY <4>1 DEF UpsertInvalidated, UpsertFails, IssueFailed
    <3> QED
      BY <1>0, <1>6, <2>2, <3>1 DEF issueSessionTokens, ReadRoles, ReadRolesFails, GenerateAuthToken
  <2> QED
    BY <2>1, <2>2
<1>7. ASSUME NEW q \in Request, Resolver(q) PROVE UpsertSession(r)
  BY <1>0, <1>2, <1>7 DEF Resolver, Query, Login, CreateUser, Commit, CommitFails, LogoutNobody, Logout, InvalidateFails, OptInForRoles,
     OptOutForRoles, BeginIssue, BeginForce, Goto
<1>8. ASSUME NEW q \in Request, ForceAuthTokenRefresh(q) PROVE UpsertSession(r)
  BY <1>0, <1>2, <1>8 DEF ForceAuthTokenRefresh, ReadForceTime, SetTime, SetTimeFails, AfterForce, Goto
<1>9. ASSUME NEW q \in Request, Deliver(q) \/ Lose(q) PROVE UpsertSession(r)
  BY <1>0, <1>2, <1>9 DEF Deliver, Lose, Finish, Goto
<1> QED
  BY <1>1, <1>3, <1>4, <1>5, <1>6, <1>7, <1>8, <1>9 DEF Next

\* A token of a session that was logged out is believed only if it was issued in the
\* second of the logout: before it, as all of them, and not before the forced refresh.
LEMMA AcceptedOfEnded ==
    ASSUME IInv, LInv, NEW r \in Request, AcceptAuthToken(r),
           cookies[r].auth.session \in DOMAIN loggedOut
    PROVE  cookies[r].auth.iat = loggedOut[cookies[r].auth.session]
<1> DEFINE t == cookies[r].auth
<1>1. t \in AuthToken \ {NoToken} /\ t.session \in SessionID
  BY DEF AcceptAuthToken, IInv, StageInv, StageOK
<1>2. t.user \in User /\ t.iat \in Nat /\ t.session # NoSession
  BY <1>1, NoneAssumption DEF AuthToken
<1>3. sessions[t.session].user = t.user /\ t.iat <= loggedOut[t.session]
  BY <1>1, <1>2, HeldOK DEF Backed, Aged, Started
<1>4. loggedOut[t.session] <= lastForced[t.user]
  BY <1>3 DEF LInv, EndedInv
<1>5. t.iat >= lastForced[t.user]
  BY AcceptedIsNew
<1>6. loggedOut[t.session] \in Nat /\ lastForced[t.user] \in Nat
  BY <1>2 DEF IInv, TypeOK
<1> QED
  BY <1>2, <1>3, <1>4, <1>5, <1>6

\* A session that is continued or started has not been logged out.
LEMMA UpsertedIsNotEnded ==
    ASSUME IInv, LInv, TInv, NEW r \in Request, UpsertSession(r)
    PROVE  ctx'[r].session \notin DOMAIN loggedOut
<1>1. ctx'[r].session = issue[r].session
  BY DEF UpsertSession, setSessionState, IInv, TypeOK
<1> QED
  BY <1>1, UpsertAlive DEF LInv, EndedInv

\* A logout that has completed is never undone: its session issues no token and none
\* it issued is believed, save one issued in the very second of the logout.
THEOREM LogoutIsKept == Spec => LoggedOutStaysOut
<1>1. ASSUME IInv, LInv, TInv, [Next]_vars
      PROVE  [\A r \in Request :
                 /\ AcceptsToken(r) /\ cookies[r].auth.session \in DOMAIN loggedOut =>
                       cookies[r].auth.iat = loggedOut[cookies[r].auth.session]
                 /\ Refreshes(r) => ctx'[r].session \notin DOMAIN loggedOut]_vars
  <2>1. CASE UNCHANGED vars
    BY <2>1
  <2>2. ASSUME Next, NEW r \in Request, AcceptsToken(r), cookies[r].auth.session \in DOMAIN loggedOut
        PROVE  cookies[r].auth.iat = loggedOut[cookies[r].auth.session]
    BY <1>1, <2>2, OnlyAccept, AcceptedOfEnded DEF AcceptsToken, IInv
  <2>3. ASSUME Next, NEW r \in Request, Refreshes(r)
        PROVE  ctx'[r].session \notin DOMAIN loggedOut
    BY <1>1, <2>3, OnlyUpsert, UpsertedIsNotEnded
  <2> QED
    BY <1>1, <2>1, <2>2, <2>3
<1> QED
  BY <1>1, Invariance, RowInvariance, PTL DEF Spec, LoggedOutStaysOut
============================================================================
