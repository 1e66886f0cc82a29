------------------------------- MODULE Users -------------------------------
(***************************************************************************)
(* Users and their wallets (publicapi/user.go, service/user,               *)
(* service/persist/postgres/user.go).  A user row lists the IDs of its     *)
(* wallets and one primary wallet; a wallet row has an address.  Requests  *)
(* of several servers change both tables.  CreateUser runs in one          *)
(* transaction; adding a wallet is a series of statements, each committed  *)
(* by itself; removing wallets is one short transaction per wallet, after  *)
(* checks on a row read before.                                            *)
(*                                                                         *)
(* Postgres runs at READ COMMITTED: a statement sees what is committed     *)
(* when it starts, an UPDATE re-checks its condition on the row it locks,  *)
(* and an insert waits for a transaction that has inserted the same key.   *)
(* What a transaction writes is applied when it commits.  All chains the   *)
(* code knows have the same L1 chain, so an address stands for an address  *)
(* and its L1 chain.                                                       *)
(***************************************************************************)
EXTENDS Naturals, FiniteSets

CONSTANTS
    Request,      \* requests that change users at one time
    UserID,
    WalletID,
    Address,
    Username,
    NoUser,       \* the empty user ID
    NoWallet,     \* the empty wallet ID, and a null primary_wallet_id
    NoAddress,    \* the address of a user who signs up with an email address
    Member,       \* the ID of a user that is there from the start
    Universal,    \* the ID of a universal user that is there from the start
    MemberAddress, UniversalAddress,
    MemberWallet, UniversalWallet,
    MemberName, UniversalName,
    Faults        \* whether calls to Postgres may fail

ASSUME NoneAssumption == NoUser \notin UserID /\ NoWallet \notin WalletID /\ NoAddress \notin Address
ASSUME StartAssumption ==
    /\ Member \in UserID /\ Universal \in UserID /\ Member # Universal
    /\ MemberWallet \in WalletID /\ UniversalWallet \in WalletID /\ MemberWallet # UniversalWallet
    /\ MemberAddress \in Address /\ UniversalAddress \in Address /\ MemberAddress # UniversalAddress
    /\ MemberName \in Username /\ UniversalName \in Username /\ MemberName # UniversalName
ASSUME FaultsAssumption == Faults \in BOOLEAN

VARIABLES
    users,      \* users: ID -> row
    wallets,    \* wallets: ID -> row
    cookies,    \* users whose session cookies were put in a response
    pc,         \* where each request is
    local       \* its arguments and what it has read

vars == <<users, wallets, cookies, pc, local>>

UserRow == [universal : BOOLEAN, deleted : BOOLEAN, wallets : SUBSET WalletID,
            primary : WalletID \cup {NoWallet}, username : Username]
WalletRow == [address : Address, deleted : BOOLEAN]

\* create: the request is CreateUser, and its statements run in a transaction.
\* wallet and owner are what createWalletWithTx read; ids is what is left to
\* remove.
Local == [create : BOOLEAN, user : UserID \cup {NoUser}, address : Address \cup {NoAddress},
          username : Username, wallet : WalletID \cup {NoWallet}, owner : UserID \cup {NoUser}, ids : SUBSET WalletID]
Idle == [create |-> FALSE, user |-> NoUser, address |-> NoAddress, username |-> MemberName,
         wallet |-> NoWallet, owner |-> NoUser, ids |-> {}]

Stage == {"idle", "username", "getWallet", "getOwner", "deleteUser", "deleteWallet", "insert",
          "session", "commit", "remove", "rename"}

live(u) == u \in DOMAIN users /\ ~users[u].deleted
liveWallet(w) == w \in DOMAIN wallets /\ ~wallets[w].deleted

\* GetUserByAddressAndL1 and GetUserByWalletID.
ownersOf(w) == {u \in DOMAIN users : live(u) /\ w \in users[u].wallets}
walletsAt(a) == {w \in DOMAIN wallets : liveWallet(w) /\ wallets[w].address = a}
ownedByMember(a) == \E w \in walletsAt(a) : \E u \in ownersOf(w) : ~users[u].universal

\* GetUserByUsername.
named(n) == {u \in DOMAIN users : live(u) /\ users[u].username = n}

\* A user that can be logged in.
member(u) == live(u) /\ ~users[u].universal

\* persist.GenerateID.
freshUserIDs == UserID \ (DOMAIN users \cup cookies \cup {local[p].user : p \in Request})
freshWalletIDs == WalletID \ DOMAIN wallets

----------------------------------------------------------------------------
Init ==
    /\ users = [u \in {Member, Universal} |->
                  IF u = Member
                  THEN [universal |-> FALSE, deleted |-> FALSE, wallets |-> {MemberWallet},
                        primary |-> MemberWallet, username |-> MemberName]
                  ELSE [universal |-> TRUE, deleted |-> FALSE, wallets |-> {UniversalWallet},
                        primary |-> UniversalWallet, username |-> UniversalName]]
    /\ wallets = [w \in {MemberWallet, UniversalWallet} |->
                    [address |-> IF w = MemberWallet THEN MemberAddress ELSE UniversalAddress,
                     deleted |-> FALSE]]
    /\ cookies = {}
    /\ pc = [p \in Request |-> "idle"]
    /\ local = [p \in Request |-> Idle]

Goto(p, stage) == pc' = [pc EXCEPT ![p] = stage]
Begin(p, stage, args) == Goto(p, stage) /\ local' = [local EXCEPT ![p] = args]

\* The request returns, with or without an error; a transaction is rolled back.
Return(p) == Begin(p, "idle", Idle)

----------------------------------------------------------------------------
(* createWalletWithTx                                                      *)

\* GetWalletByAddressAndL1Chain.
GetWallet(p) ==
    /\ pc[p] = "getWallet"
    /\ LET found == walletsAt(local[p].address)
       IN  IF found = {}
           THEN Goto(p, "insert") /\ UNCHANGED local
           ELSE \E w \in found : Begin(p, "getOwner", [local[p] EXCEPT !.wallet = w])
    /\ UNCHANGED <<users, wallets, cookies>>

\* Mutants: a universal owner's wallet is deleted and the user stays; a wallet is
\* taken from any owner.
afterOwner_KeepUniversal(p, u) ==
    IF users[u].universal THEN "deleteWallet" ELSE "idle"
afterOwner_TakeAny(p, u) == "deleteUser"

\* Where GetUserByWalletID sends createWalletWithTx when the wallet has an owner:
\* a universal user is deleted, any other one keeps its wallet.
afterOwner(p, u) ==
    IF u # local[p].user /\ users[u].universal THEN "deleteUser" ELSE "idle"

\* GetUserByWalletID finds an owner.
GetOwner(p) ==
    /\ pc[p] = "getOwner"
    /\ \E u \in ownersOf(local[p].wallet) :
          IF afterOwner(p, u) = "idle" THEN Return(p)
          ELSE Begin(p, IF local[p].create THEN "insert" ELSE afterOwner(p, u),
                     [local[p] EXCEPT !.owner = u])
    /\ UNCHANGED <<users, wallets, cookies>>

\* It finds none: the wallet is a leftover.
GetNoOwner(p) ==
    /\ pc[p] = "getOwner"
    /\ ownersOf(local[p].wallet) = {}
    /\ Goto(p, IF local[p].create THEN "insert" ELSE "deleteWallet")
    /\ UNCHANGED <<users, wallets, cookies, local>>

deleteUser(u) == [x \in DOMAIN users |-> IF x = u THEN [users[x] EXCEPT !.deleted = TRUE] ELSE users[x]]
deleteWallet(w) == [x \in DOMAIN wallets |-> IF x = w THEN [wallets[x] EXCEPT !.deleted = TRUE] ELSE wallets[x]]

DeleteUserByID(p) ==
    /\ pc[p] = "deleteUser"
    /\ users' = deleteUser(local[p].owner)
    /\ Goto(p, "deleteWallet")
    /\ UNCHANGED <<wallets, cookies, local>>

DeleteWalletByID(p) ==
    /\ pc[p] = "deleteWallet"
    /\ wallets' = deleteWallet(local[p].wallet)
    /\ Goto(p, "insert")
    /\ UNCHANGED <<users, cookies, local>>

\* The unique index on live wallets waits for a transaction that has inserted the
\* address.
indexFree(p) ==
    \A q \in Request \ {p} : pc[q] \in {"session", "commit"} => local[q].address # local[p].address

addWallet(rows, w, a) ==
    [x \in DOMAIN rows \cup {w} |-> IF x = w THEN [address |-> a, deleted |-> FALSE] ELSE rows[x]]

\* The user row after InsertWallet: the first wallet is the primary one.
withWallet(row, w) ==
    [row EXCEPT !.wallets = @ \cup {w}, !.primary = IF @ = NoWallet THEN w ELSE @]

\* The unique index has the address, in a row the transaction has not deleted.
indexHas(p) ==
    walletsAt(local[p].address) \ (IF local[p].create THEN {local[p].wallet} ELSE {}) # {}

\* InsertWallet outside a transaction: the wallet row, and the user row if the
\* user is not deleted, in one statement.
InsertWallet(p) ==
    LET u == local[p].user
    IN  /\ pc[p] = "insert"
        /\ ~local[p].create
        /\ indexFree(p)
        /\ ~indexHas(p)
        /\ \E w \in freshWalletIDs :
              /\ wallets' = addWallet(wallets, w, local[p].address)
              /\ users' = IF live(u) THEN [users EXCEPT ![u] = withWallet(@, w)] ELSE users
        /\ Return(p)
        /\ UNCHANGED cookies

\* ErrWalletCreateFailed.
InsertConflict(p) ==
    /\ pc[p] = "insert"
    /\ indexFree(p)
    /\ indexHas(p)
    /\ Return(p)
    /\ UNCHANGED <<users, wallets, cookies>>

\* A statement fails and the request returns; what it did before stays done.
StatementFails(p) ==
    /\ Faults
    /\ pc[p] \in {"username", "getWallet", "getOwner", "deleteUser", "deleteWallet", "insert",
                  "session", "remove", "rename"}
    /\ Return(p)
    /\ UNCHANGED <<users, wallets, cookies>>

----------------------------------------------------------------------------
(* Adding and removing wallets, the primary wallet                         *)

\* AddWalletToUser: the user proves it holds the address, which no other user has.
AddWalletToUser(p, u, a) ==
    /\ pc[p] = "idle"
    /\ member(u)
    /\ ~ownedByMember(a)
    /\ Begin(p, "getWallet", [Idle EXCEPT !.user = u, !.address = a])
    /\ UNCHANGED <<users, wallets, cookies>>

\* AddWalletToUserUnchecked of the admin API asks for no proof and does not look
\* for an owner.
AddWalletToUserUnchecked(p, u, a) ==
    /\ pc[p] = "idle"
    /\ live(u)
    /\ Begin(p, "getWallet", [Idle EXCEPT !.user = u, !.address = a])
    /\ UNCHANGED <<users, wallets, cookies>>

\* RemoveWalletsFromUser: the checks, on the row as it is now.
RemoveWalletsFromUser(p, u, ids) ==
    /\ pc[p] = "idle"
    /\ member(u)
    /\ users[u].primary \notin ids
    /\ Cardinality(users[u].wallets) > Cardinality(ids)
    /\ Begin(p, "remove", [Idle EXCEPT !.user = u, !.ids = ids])
    /\ UNCHANGED <<users, wallets, cookies>>

\* Mutant: the statement relies on the check made before.
removable_Unchecked(u, w) == w \in users[u].wallets

\* The condition of removeWalletFromUserStmt; a null primary wallet makes it false.
removable(u, w) ==
    /\ users[u].primary # NoWallet /\ users[u].primary # w
    /\ w \in users[u].wallets

\* RemoveWallet: one wallet, off the list and deleted, in one transaction.
RemoveWallet(p, w) ==
    LET u == local[p].user
    IN  /\ pc[p] = "remove"
        /\ w \in local[p].ids
        /\ IF removable(u, w)
           THEN /\ users' = [users EXCEPT ![u].wallets = @ \ {w}]
                /\ wallets' = deleteWallet(w)
           ELSE UNCHANGED <<users, wallets>>
        /\ IF local[p].ids = {w} THEN Return(p)
           ELSE Begin(p, "remove", [local[p] EXCEPT !.ids = @ \ {w}])
        /\ UNCHANGED cookies

\* UpdateUserPrimaryWallet: one statement, for a live wallet of the user's list.
UpdateUserPrimaryWallet(u, w) ==
    /\ member(u)
    /\ w \in users[u].wallets
    /\ liveWallet(w)
    /\ users' = [users EXCEPT ![u].primary = w]
    /\ UNCHANGED <<wallets, cookies, pc, local>>

----------------------------------------------------------------------------
(* Usernames and new users                                                 *)

\* UpdateUserInfo: is the username taken by somebody else?
UpdateUserInfo(p, u, n) ==
    /\ pc[p] = "idle"
    /\ member(u)
    /\ named(n) \subseteq {u}
    /\ Begin(p, "rename", [Idle EXCEPT !.user = u, !.username = n])
    /\ UNCHANGED <<users, wallets, cookies>>

UpdateInfoStmt(p) ==
    /\ pc[p] = "rename"
    /\ users' = [users EXCEPT ![local[p].user].username = local[p].username]
    /\ Return(p)
    /\ UNCHANGED <<wallets, cookies>>

BeginCreate(p, a, n) ==
    \E u \in freshUserIDs :
        Begin(p, "username", [Idle EXCEPT !.create = TRUE, !.user = u, !.address = a, !.username = n])

\* CreateUser: the address proved to be the client's has no owner but a universal
\* user; the transaction begins.
CreateUser(p, a, n) ==
    /\ pc[p] = "idle"
    /\ ~ownedByMember(a)
    /\ BeginCreate(p, a, n)
    /\ UNCHANGED <<users, wallets, cookies>>

\* CreateUser after a magic link: there is an email address and no wallet.
CreateUserWithEmail(p, n) ==
    /\ pc[p] = "idle"
    /\ BeginCreate(p, NoAddress, n)
    /\ UNCHANGED <<users, wallets, cookies>>

\* Create: the username is free; InsertUser; createWalletWithTx if there is an address.
CheckUsername(p) ==
    /\ pc[p] = "username"
    /\ IF named(local[p].username) = {}
       THEN Goto(p, IF local[p].address = NoAddress THEN "session" ELSE "getWallet") /\ UNCHANGED local
       ELSE Return(p)
    /\ UNCHANGED <<users, wallets, cookies>>

\* createWalletWithTx in the transaction: deletions and InsertWallet.
TxInsertWallet(p) ==
    /\ pc[p] = "insert"
    /\ local[p].create
    /\ indexFree(p)
    /\ ~indexHas(p)
    /\ Goto(p, "session")
    /\ UNCHANGED <<users, wallets, cookies, local>>

\* StartSession, in the transaction; the cookies are in the response.
StartSession(p) ==
    /\ pc[p] = "session"
    /\ cookies' = cookies \cup {local[p].user}
    /\ Goto(p, "commit")
    /\ UNCHANGED <<users, wallets, local>>

newUser(n) ==
    [universal |-> FALSE, deleted |-> FALSE, wallets |-> {}, primary |-> NoWallet, username |-> n]

addUser(rows, u, row) == [x \in DOMAIN rows \cup {u} |-> IF x = u THEN row ELSE rows[x]]

\* The transaction commits, with a wallet ...
Commit(p) ==
    LET l == local[p]
    IN  /\ pc[p] = "commit"
        /\ l.address # NoAddress
        /\ \E w \in freshWalletIDs :
              /\ wallets' = addWallet(deleteWallet(l.wallet), w, l.address)
              /\ users' = addUser(deleteUser(l.owner), l.user, withWallet(newUser(l.username), w))
        /\ Return(p)
        /\ UNCHANGED cookies

\* ... or without one.
CommitWithoutWallet(p) ==
    /\ pc[p] = "commit"
    /\ local[p].address = NoAddress
    /\ users' = addUser(users, local[p].user, newUser(local[p].username))
    /\ Return(p)
    /\ UNCHANGED <<wallets, cookies>>

\* It does not: an error, and the transaction is rolled back.
CommitFails(p) ==
    /\ Faults
    /\ pc[p] = "commit"
    /\ Return(p)
    /\ UNCHANGED <<users, wallets, cookies>>

----------------------------------------------------------------------------
Next ==
    \/ \E u \in UserID, w \in WalletID : UpdateUserPrimaryWallet(u, w)
    \/ \E p \in Request :
          \/ \E u \in UserID, a \in Address : AddWalletToUser(p, u, a) \/ AddWalletToUserUnchecked(p, u, a)
          \/ \E u \in UserID, ids \in SUBSET WalletID \ {{}} : RemoveWalletsFromUser(p, u, ids)
          \/ \E u \in UserID, n \in Username : UpdateUserInfo(p, u, n)
          \/ \E a \in Address, n \in Username : CreateUser(p, a, n)
          \/ \E n \in Username : CreateUserWithEmail(p, n)
          \/ GetWallet(p) \/ GetOwner(p) \/ GetNoOwner(p)
          \/ DeleteUserByID(p) \/ DeleteWalletByID(p) \/ InsertWallet(p) \/ InsertConflict(p)
          \/ \E w \in WalletID : RemoveWallet(p, w)
          \/ UpdateInfoStmt(p) \/ CheckUsername(p) \/ TxInsertWallet(p)
          \/ StartSession(p) \/ Commit(p) \/ CommitWithoutWallet(p) \/ CommitFails(p) \/ StatementFails(p)

Spec == Init /\ [][Next]_vars

----------------------------------------------------------------------------
(* Properties                                                              *)

TypeOK ==
    /\ DOMAIN users \subseteq UserID /\ users \in [DOMAIN users -> UserRow]
    /\ DOMAIN wallets \subseteq WalletID /\ wallets \in [DOMAIN wallets -> WalletRow]
    /\ cookies \subseteq UserID
    /\ pc \in [Request -> Stage]
    /\ local \in [Request -> Local]

\* A live user with wallets has a primary wallet and it is one of them, although
\* removals act on a row read earlier and the primary wallet may have changed since.
\* So a user who has had a wallet always has one, whatever is removed at once.
PrimaryIsOwned ==
    \A u \in DOMAIN users : live(u) =>
        IF users[u].primary = NoWallet THEN users[u].wallets = {}
        ELSE users[u].primary \in users[u].wallets

\* Every wallet a live user lists is live and on no other live user's list: what
\* createWalletWithTx deletes after reading it in an earlier statement is nobody's.
ListedWalletsLive ==
    \A u \in DOMAIN users : live(u) =>
        \A w \in users[u].wallets : liveWallet(w) /\ ownersOf(w) = {u}

\* A user who is not universal loses a wallet only to a removal of its own: no
\* other request, however it interleaves, takes an address over.
NotTakenOver ==
    [][\A u \in DOMAIN users : member(u) =>
          /\ ~users'[u].deleted
          /\ \A w \in users[u].wallets \ users'[u].wallets :
                \E p \in Request : pc[p] = "remove" /\ local[p].user = u /\ w \in local[p].ids]_vars

\* The comment before InsertWallet: there is no live wallet with the address then.
NoWalletBeforeInsert ==
    \A p \in Request : pc[p] = "insert" /\ ~local[p].create => walletsAt(local[p].address) = {}

\* A username that is not available is not given to a second user.
UsernamesUnique ==
    \A n \in Username : Cardinality(named(n)) <= 1

\* The session is in the database before its cookies are in a response: after the
\* transaction of CreateUser has ended, cookies are for a user that is there.
CookiesForUsers ==
    \A u \in cookies : u \in DOMAIN users \/ \E p \in Request : local[p].user = u
============================================================================
