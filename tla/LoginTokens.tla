---------------------------- MODULE LoginTokens ----------------------------
(***************************************************************************)
(* What a client proves its identity with at login (service/auth): a       *)
(* nonce it signs, and a one-time login token that another device shows as *)
(* a QR code.  Both are good for one login and for a limited time.  A      *)
(* nonce is a row that one UPDATE consumes.  A one-time token is a JWT no  *)
(* server remembers issuing: a server that accepts it stores it in Redis,  *)
(* if it is not there, until it would have expired anyway, and a minute    *)
(* longer because the servers' clocks differ.                              *)
(*                                                                         *)
(* now is the time of Postgres and Redis; server s reads now + Skew[s].    *)
(* A server takes at most Stall from parsing a token to storing it.        *)
(***************************************************************************)
EXTENDS Naturals, FiniteSets

CONSTANTS
    Request,      \* logins the servers are working on at one time
    Server,
    Skew,         \* how far each server's clock is ahead
    Token,        \* one-time tokens that are ever generated
    Nonce,        \* values that GenerateNonce can return
    NoToken, NoNonce,
    TokenTTL,     \* validity of a one-time token (5 minutes)
    NonceTTL,     \* validity of a nonce (1 hour)
    Wiggle,       \* the extra minute of the Redis key
    Stall,        \* longest time from parsing a token to storing it
    Attempts,     \* tries of GenerateAuthNonce (4)
    MaxTime       \* bound on the clock

ASSUME TimeAssumption ==
    /\ TokenTTL \in Nat /\ NonceTTL \in Nat /\ Wiggle \in Nat /\ Stall \in Nat
    /\ Attempts \in Nat \ {0} /\ MaxTime \in Nat
    /\ Skew \in [Server -> Nat]
\* What the extra minute is for: it covers clock differences and slow servers.
ASSUME WiggleAssumption ==
    \A s, t \in Server : Skew[s] + Stall <= Skew[t] + Wiggle
ASSUME NoneAssumption == NoToken \notin Token /\ NoNonce \notin Nonce

VARIABLES
    now,
    issued,      \* token -> its claims
    consumed,    \* Redis: token -> when the key expires
    nonces,      \* nonces: value -> row
    pc,          \* where each request is
    local,       \* its server, its arguments and locals
    logins,      \* history: how often each token authenticated somebody
    nonceLogins  \* history: how often each nonce did

vars == <<now, issued, consumed, nonces, pc, local, logins, nonceLogins>>

clock(s) == now + Skew[s]

Claims == [iat : Nat, exp : Nat]
NonceRow == [createdAt : Nat, consumed : BOOLEAN]
Local == [server : Server, token : Token \cup {NoToken}, parsedAt : Nat, ttl : Nat,
          nonce : Nonce \cup {NoNonce}, attempt : Nat]
NewLocal(s) == [server |-> s, token |-> NoToken, parsedAt |-> 0, ttl |-> 0,
                nonce |-> NoNonce, attempt |-> 0]
Stage == {"idle", "setNX", "generateNonce", "consumeNonce"}

----------------------------------------------------------------------------
Init ==
    /\ now = 0
    /\ issued = [t \in {} |-> [iat |-> 0, exp |-> 0]]
    /\ consumed = [t \in {} |-> 0]
    /\ nonces = [v \in {} |-> [createdAt |-> 0, consumed |-> FALSE]]
    /\ pc = [p \in Request |-> "idle"]
    /\ local \in [Request -> {NewLocal(s) : s \in Server}]
    /\ logins = [t \in Token |-> 0]
    /\ nonceLogins = [v \in Nonce |-> 0]

Goto(p, stage) == pc' = [pc EXCEPT ![p] = stage]
Return(p) == Goto(p, "idle") /\ local' = [local EXCEPT ![p] = NewLocal(@.server)]

\* External: time passes, Redis drops expired keys.
Tick ==
    /\ now < MaxTime
    /\ \A p \in Request : pc[p] = "setNX" => now < local[p].parsedAt + Stall
    /\ now' = now + 1
    /\ consumed' = [t \in {x \in DOMAIN consumed : now' < consumed[x]} |-> consumed[t]]
    /\ UNCHANGED <<issued, nonces, pc, local, logins, nonceLogins>>

----------------------------------------------------------------------------
(* One-time login tokens                                                   *)

\* GenerateQRCodeLoginToken on server s.
GenerateOneTimeLoginToken(s, t) ==
    /\ t \notin DOMAIN issued
    /\ issued' = [x \in DOMAIN issued \cup {t} |->
                    IF x = t THEN [iat |-> clock(s), exp |-> clock(s) + TokenTTL] ELSE issued[x]]
    /\ UNCHANGED <<now, consumed, nonces, pc, local, logins, nonceLogins>>

\* Mutant: the key goes when the server thinks the token expires.
ttl_NoWiggle(s, t) == issued[t].exp - clock(s)

\* time.Until(expiresAt) + time.Minute.
ttl(s, t) == issued[t].exp - clock(s) + Wiggle

\* Authenticate, a request on any server: ParseOneTimeLoginToken rejects a token
\* that has expired or that was issued later than now.
ParseOneTimeLoginToken(p, s, t) ==
    /\ pc[p] = "idle"
    /\ t \in DOMAIN issued
    /\ issued[t].iat <= clock(s) /\ clock(s) < issued[t].exp
    /\ local' = [local EXCEPT ![p] = [NewLocal(s) EXCEPT !.token = t, !.parsedAt = now,
                                                         !.ttl = ttl(s, t)]]
    /\ Goto(p, "setNX")
    /\ UNCHANGED <<now, issued, consumed, nonces, logins, nonceLogins>>

\* SetNX sets the key: the token is used.
SetNX(p) ==
    LET t == local[p].token
    IN  /\ pc[p] = "setNX"
        /\ t \notin DOMAIN consumed
        /\ consumed' = [x \in DOMAIN consumed \cup {t} |->
                          IF x = t THEN now + local[p].ttl ELSE consumed[x]]
        /\ Return(p)
        /\ UNCHANGED <<now, issued, nonces, nonceLogins>>

\* Authenticate reads the user, who is logged in ...
ConsumeToken(p) == SetNX(p) /\ logins' = [logins EXCEPT ![local[p].token] = @ + 1]

\* ... or fails: Redis set the key and did not answer, or the user is not found.
\* The token is used up all the same.
WasteToken(p) == SetNX(p) /\ UNCHANGED logins

\* "token already used".
TokenAlreadyUsed(p) ==
    /\ pc[p] = "setNX"
    /\ local[p].token \in DOMAIN consumed
    /\ Return(p)
    /\ UNCHANGED <<now, issued, consumed, nonces, logins, nonceLogins>>

----------------------------------------------------------------------------
(* Nonces                                                                  *)

\* GenerateAuthNonce begins.
GenerateAuthNonce(p, s) ==
    /\ pc[p] = "idle"
    /\ local' = [local EXCEPT ![p] = NewLocal(s)]
    /\ Goto(p, "generateNonce")
    /\ UNCHANGED <<now, issued, consumed, nonces, logins, nonceLogins>>

\* InsertNonce stores a new value ...
InsertNonce(p, v) ==
    /\ pc[p] = "generateNonce"
    /\ v \notin DOMAIN nonces
    /\ nonces' = [x \in DOMAIN nonces \cup {v} |->
                    IF x = v THEN [createdAt |-> now, consumed |-> FALSE] ELSE nonces[x]]
    /\ Return(p)
    /\ UNCHANGED <<now, issued, consumed, logins, nonceLogins>>

\* ... and a value that is there, or an error, makes another attempt.
InsertNonceFails(p) ==
    /\ pc[p] = "generateNonce"
    /\ IF local[p].attempt + 1 < Attempts
       THEN local' = [local EXCEPT ![p].attempt = @ + 1] /\ UNCHANGED pc
       ELSE Return(p)
    /\ UNCHANGED <<now, issued, consumed, nonces, logins, nonceLogins>>

\* NonceAuthenticator: the signature of a message with nonce v is valid.
VerifySignature(p, s, v) ==
    /\ pc[p] = "idle"
    /\ local' = [local EXCEPT ![p] = [NewLocal(s) EXCEPT !.nonce = v]]
    /\ Goto(p, "consumeNonce")
    /\ UNCHANGED <<now, issued, consumed, nonces, logins, nonceLogins>>

\* Mutant: the statement does not look whether the nonce is consumed.
consumable_Again(v) == v \in DOMAIN nonces /\ nonces[v].createdAt + NonceTTL > now

\* The condition of ConsumeNonce.
consumable(v) ==
    v \in DOMAIN nonces /\ ~nonces[v].consumed /\ nonces[v].createdAt + NonceTTL > now

\* ConsumeAuthNonce: one statement.
UseNonce(p) ==
    LET v == local[p].nonce
    IN  /\ pc[p] = "consumeNonce"
        /\ consumable(v)
        /\ nonces' = [nonces EXCEPT ![v].consumed = TRUE]
        /\ Return(p)
        /\ UNCHANGED <<now, issued, consumed, logins>>

\* Then the user of the address is authenticated ...
ConsumeNonce(p) == UseNonce(p) /\ nonceLogins' = [nonceLogins EXCEPT ![local[p].nonce] = @ + 1]

\* ... or cannot be read, or the answer was lost: the nonce is used up all the same.
WasteNonce(p) == UseNonce(p) /\ UNCHANGED nonceLogins

\* "nonce does not exist or is expired".
NonceRejected(p) ==
    /\ pc[p] = "consumeNonce"
    /\ ~consumable(local[p].nonce)
    /\ Return(p)
    /\ UNCHANGED <<now, issued, consumed, nonces, logins, nonceLogins>>

\* Redis or Postgres cannot be reached: an error, and nothing is used up.
StoreFails(p) ==
    /\ pc[p] \in {"setNX", "consumeNonce"}
    /\ Return(p)
    /\ UNCHANGED <<now, issued, consumed, nonces, logins, nonceLogins>>

----------------------------------------------------------------------------
Next ==
    \/ Tick
    \/ \E s \in Server, t \in Token : GenerateOneTimeLoginToken(s, t)
    \/ \E p \in Request :
          \/ \E s \in Server, t \in Token : ParseOneTimeLoginToken(p, s, t)
          \/ ConsumeToken(p) \/ WasteToken(p) \/ TokenAlreadyUsed(p)
          \/ \E s \in Server : GenerateAuthNonce(p, s)
          \/ \E v \in Nonce : InsertNonce(p, v)
          \/ InsertNonceFails(p)
          \/ \E s \in Server, v \in Nonce : VerifySignature(p, s, v)
          \/ ConsumeNonce(p) \/ WasteNonce(p) \/ NonceRejected(p) \/ StoreFails(p)

Spec == Init /\ [][Next]_vars

----------------------------------------------------------------------------
(* Properties                                                              *)

TypeOK ==
    /\ now \in Nat
    /\ DOMAIN issued \subseteq Token /\ issued \in [DOMAIN issued -> Claims]
    /\ DOMAIN consumed \subseteq Token /\ consumed \in [DOMAIN consumed -> Nat]
    /\ DOMAIN nonces \subseteq Nonce /\ nonces \in [DOMAIN nonces -> NonceRow]
    /\ pc \in [Request -> Stage]
    /\ local \in [Request -> Local]
    /\ logins \in [Token -> Nat]
    /\ nonceLogins \in [Nonce -> Nat]

\* A one-time login token logs in one client, on whichever servers it is tried,
\* although Redis forgets it and the servers do not agree on when it expires.
OneTimeTokenOnce == \A t \in Token : logins[t] <= 1

\* A nonce authenticates at most one request, of any number that sign it at once.
NonceOnce == \A v \in Nonce : nonceLogins[v] <= 1
============================================================================
