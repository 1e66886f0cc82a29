----------------------------- MODULE PushTokens -----------------------------
(***************************************************************************)
(* The push tokens of devices: CreatePushTokenForUser and                  *)
(* DeletePushTokenByPushToken of publicapi/user.go, and the logout of a    *)
(* device.  Each call looks the token up in one statement and acts on what *)
(* it found in another; other calls run in between.  The table has a       *)
(* unique index on the push tokens that are not deleted.                   *)
(***************************************************************************)
EXTENDS Naturals, Sequences

CONSTANTS User, Token, Call, NoUser, NoToken, MaxRows
PushTokensAssumption == NoUser \notin User /\ NoToken \notin Token /\ MaxRows \in Nat

VARIABLES
    rows,       \* push_notification_tokens, a row's id is its index
    call        \* the requests under way

vars == <<rows, call>>

Ids == 1..Len(rows)
Live(t) == {i \in Ids : rows[i].token = t /\ ~rows[i].deleted}

Idle == [op |-> "none", user |-> NoUser, token |-> NoToken, pc |-> "idle", found |-> 0]

\* The call returns, with or without an error.
Return(c) == call' = [call EXCEPT ![c] = Idle]

Init == rows = <<>> /\ call = [c \in Call |-> Idle]

\* A request of a user who is logged in.
Begin(c, op, u, t) ==
    /\ call[c] = Idle
    /\ call' = [call EXCEPT ![c] = [Idle EXCEPT !.op = op, !.user = u, !.token = t, !.pc = "look"]]
    /\ UNCHANGED rows

----------------------------------------------------------------------------
GetPushTokenByPushToken(t) == Live(t)

\* The token is there: it is the caller's, or the call is refused.
LookFound(c) ==
    /\ call[c].pc = "look" /\ call[c].op # "logout"
    /\ \E i \in GetPushTokenByPushToken(call[c].token) :
        IF rows[i].user = call[c].user /\ call[c].op = "unregister"
        THEN call' = [call EXCEPT ![c].pc = "delete", ![c].found = i]
        ELSE Return(c)
    /\ UNCHANGED rows

\* ErrNoRows.
LookMissing(c) ==
    /\ call[c].pc = "look" /\ call[c].op # "logout"
    /\ GetPushTokenByPushToken(call[c].token) = {}
    /\ IF call[c].op = "register" THEN call' = [call EXCEPT ![c].pc = "insert"] ELSE Return(c)
    /\ UNCHANGED rows

\* The statement inserts the row unless the unique index refuses it.
CreatePushTokenForUser(c) ==
    /\ call[c].pc = "insert" /\ Len(rows) < MaxRows
    /\ rows' = IF Live(call[c].token) # {} THEN rows
               ELSE Append(rows, [user |-> call[c].user, token |-> call[c].token,
                                  deleted |-> FALSE])
    /\ Return(c)

\* Mutant: the row is named by its token.
DeletePushTokensByIDs_ByToken(c) == Live(call[c].token)

\* The rows that the statement deletes: by id, unless deleted before.
DeletePushTokensByIDs(c) == {i \in {call[c].found} : ~rows[i].deleted}

Delete(c) ==
    /\ call[c].pc = "delete"
    /\ rows' = [i \in Ids |->
        IF i \in DeletePushTokensByIDs(c) THEN [rows[i] EXCEPT !.deleted = TRUE] ELSE rows[i]]
    /\ Return(c)

\* A statement fails for another reason, without effect.
Fails(c) ==
    /\ call[c].pc \in {"look", "insert", "delete"} /\ call[c].op # "logout"
    /\ Return(c) /\ UNCHANGED rows

\* The resolver of logout drops its argument pushTokenToUnregister.
Logout(c) ==
    /\ call[c].pc = "look" /\ call[c].op = "logout"
    /\ Return(c) /\ UNCHANGED rows

Next ==
    \E c \in Call :
        \/ \E op \in {"register", "unregister", "logout"}, u \in User, t \in Token : Begin(c, op, u, t)
        \/ LookFound(c) \/ LookMissing(c) \/ CreatePushTokenForUser(c) \/ Delete(c) \/ Fails(c)
        \/ Logout(c)

Spec == Init /\ [][Next]_vars

----------------------------------------------------------------------------
\* A device stops getting a user's notifications only because that user asked
\* for it: whatever was registered and deleted since DeletePushTokenByPushToken
\* looked the token up, it deletes no row of another user.
OnlyOwnerRemoves ==
    [][\A i \in Ids : rows'[i].deleted /\ ~rows[i].deleted =>
          \E c \in Call : /\ call[c].pc = "delete" /\ call'[c] = Idle
                          /\ call[c].user = rows[i].user /\ call[c].token = rows[i].token]_vars

=============================================================================
