--------------------------- MODULE DatabaseProofs ---------------------------
(***************************************************************************)
(* Proofs about what the system keeps in Postgres: users and their wallets *)
(* (Users), the keys under which accounts are found (ChainAddresses) and   *)
(* the schema that migrations build (Migrations).                          *)
(*                                                                         *)
(* The first needs to know what a request may rely on between two          *)
(* statements (RequestOK): in particular that nobody else owns the wallet  *)
(* it is going to delete.  Every step keeps that for the requests that do  *)
(* not move because it stays within Frame.                                 *)
(***************************************************************************)
EXTENDS MCDatabase, Integers, WellFoundedInduction, TLAPS

----------------------------------------------------------------------------
(* Users and wallets                                                       *)

\* The stages in which createWalletWithTx is going to delete the wallet it read,
\* at once or when the transaction commits.
Deleting(p) ==
    \/ pc[p] \in {"deleteUser", "deleteWallet"}
    \/ local[p].create /\ pc[p] \in {"insert", "session", "commit"}

\* What a request may rely on: a new user's ID is nobody's; a wallet that is going
\* to be deleted has no owner but the universal user that goes with it; whoever
\* removes wallets or changes a name is a member.
RequestOK(p) ==
    /\ local[p].create =>
          /\ local[p].user \in UserID \ DOMAIN users
          /\ \A q \in Request \ {p} : local[q].user # local[p].user
    /\ pc[p] \in {"username", "session", "commit"} => local[p].create
    /\ pc[p] \in {"deleteUser", "deleteWallet", "remove", "rename"} => ~local[p].create
    /\ pc[p] = "idle" => local[p] = Idle
    /\ pc[p] \in {"getWallet", "getOwner", "deleteUser", "deleteWallet", "insert"} =>
          local[p].address \in Address
    /\ local[p].wallet # NoWallet => local[p].wallet \in DOMAIN wallets
    /\ local[p].owner # NoUser => local[p].owner \in DOMAIN users /\ users[local[p].owner].universal
    /\ pc[p] \in {"username", "getWallet", "getOwner"} => local[p].owner = NoUser
    /\ pc[p] \in {"username", "getWallet"} => local[p].wallet = NoWallet
    /\ pc[p] \in {"getOwner", "deleteUser", "deleteWallet"} => local[p].wallet # NoWallet
    /\ pc[p] = "deleteUser" => local[p].owner # NoUser
    /\ pc[p] \in {"remove", "rename"} => member(local[p].user)
    /\ Deleting(p) => ownersOf(local[p].wallet) \subseteq {local[p].owner}
    /\ pc[p] = "deleteWallet" => ownersOf(local[p].wallet) = {}

\* All requests may rely on what they have read.
RequestsOK == \A p \in Request : RequestOK(p)

\* The inductive invariant of Users.
UsersInv == TypeOK /\ PrimaryIsOwned /\ ListedWalletsLive /\ RequestsOK

\* What no step does to the tables: a row never goes, nobody becomes universal or
\* ceases to be, a member is not deleted, and a wallet that is there gets no new
\* owner.
Frame ==
    /\ DOMAIN users \subseteq DOMAIN users' /\ DOMAIN wallets \subseteq DOMAIN wallets'
    /\ \A u \in DOMAIN users : users'[u].universal = users[u].universal
    /\ \A u \in DOMAIN users : member(u) => ~users'[u].deleted
    /\ \A w \in DOMAIN wallets : ownersOf(w)' \subseteq ownersOf(w)

\* The invariant holds of the tables the service starts with.
LEMMA UsersInit == Init => UsersInv
<1> SUFFICES ASSUME Init PROVE UsersInv
  OBVIOUS
<1>1. TypeOK
  BY NoneAssumption, StartAssumption DEF Init, TypeOK, UserRow, WalletRow, Local, Idle, Stage
<1>2. PrimaryIsOwned
  BY NoneAssumption, StartAssumption DEF Init, PrimaryIsOwned, live
<1>3. ListedWalletsLive
  BY StartAssumption DEF Init, ListedWalletsLive, live, liveWallet, ownersOf
<1>4. RequestsOK
  BY DEF Init, RequestsOK, RequestOK, Idle, Deleting
<1> QED
  BY <1>1, <1>2, <1>3, <1>4 DEF UsersInv

\* Nobody has the empty wallet ID on the list.
LEMMA NoWalletUnlisted == TypeOK' => ownersOf(NoWallet)' = {}
  BY NoneAssumption DEF TypeOK, UserRow, ownersOf

\* A request that does not move is as well off after a step as before.
LEMMA OthersOK ==
    ASSUME TypeOK', RequestsOK, Frame, NEW q \in Request,
           pc'[q] = pc[q], local'[q] = local[q],
           local[q].create => local[q].user \notin DOMAIN users',
           local[q].create => \A r \in Request \ {q} : local'[r].user # local[q].user
    PROVE  RequestOK(q)'
<1>1. RequestOK(q)
  BY DEF RequestsOK
<1> DEFINE w == local[q].wallet
           o == local[q].owner
<1>2. member(local[q].user) => member(local[q].user)'
  BY DEF Frame, member, live
<1>3. Deleting(q)' = Deleting(q)
  BY DEF Deleting
<1>4. o # NoUser => o \in DOMAIN users' /\ users'[o].universal
  BY <1>1 DEF RequestOK, Frame
<1>5. ownersOf(w)' \subseteq ownersOf(w)
  <2>1. CASE w = NoWallet
    BY <2>1, NoWalletUnlisted DEF ownersOf
  <2>2. CASE w \in DOMAIN wallets
    BY <2>2 DEF Frame, ownersOf
  <2> QED
    BY <1>1, <2>1, <2>2 DEF RequestOK
<1>6. /\ Deleting(q)' => ownersOf(w)' \subseteq {o}
      /\ pc'[q] = "deleteWallet" => ownersOf(w)' = {}
  BY <1>1, <1>3, <1>5 DEF RequestOK
<1> QED
  BY <1>1, <1>2, <1>4, <1>6 DEF RequestOK, Frame

\* Only request p moves.
Moves(p) ==
    /\ pc' \in [Request -> Stage] /\ local' \in [Request -> Local]
    /\ \A q \in Request \ {p} : pc'[q] = pc[q] /\ local'[q] = local[q]

\* What it means that a request begins,
LEMMA BeginMoves ==
    ASSUME TypeOK, NEW p \in Request, NEW stage \in Stage, NEW args \in Local, Begin(p, stage, args)
    PROVE  Moves(p) /\ pc'[p] = stage /\ local'[p] = args
  BY DEF TypeOK, Begin, Goto, Moves

\* goes on to its next statement,
LEMMA GotoMoves ==
    ASSUME TypeOK, NEW p \in Request, NEW stage \in Stage, Goto(p, stage), local' = local
    PROVE  Moves(p) /\ pc'[p] = stage /\ local'[p] = local[p]
  BY DEF TypeOK, Goto, Moves

\* or has nothing to do.
LEMMA IdleType == Idle \in Local
  BY StartAssumption DEF Idle, Local

\* A request that returned relies on nothing.
LEMMA IdleOK ==
    ASSUME NEW p \in Request, pc'[p] = "idle", local'[p] = Idle
    PROVE  RequestOK(p)'
  BY DEF RequestOK, Deleting, Idle

\* A request that returns moves nobody else.
LEMMA ReturnMoves ==
    ASSUME TypeOK, NEW p \in Request, Return(p)
    PROVE  Moves(p) /\ RequestOK(p)' /\ pc'[p] = "idle" /\ local'[p] = Idle
<1>1. Moves(p) /\ pc'[p] = "idle" /\ local'[p] = Idle
  BY BeginMoves, IdleType DEF Return, Stage
<1> QED
  BY <1>1, IdleOK

\* A new user's ID stays apart from those of the other requests when p moves and
\* keeps its user, returns, or takes one that is there.
Apart(p) == local'[p].user \in {local[p].user, NoUser} \cup DOMAIN users

\* The other requests' new users stay apart from p's.
LEMMA StaysApart ==
    ASSUME TypeOK, RequestsOK, NEW p \in Request, Moves(p), Apart(p)
    PROVE  \A q \in Request \ {p} : local[q].create =>
              \A r \in Request \ {q} : local'[r].user # local[q].user
  BY NoneAssumption DEF RequestsOK, RequestOK, Moves, Apart

\* The same for p itself, if it is a new user's request.
LEMMA OwnApart ==
    ASSUME RequestsOK, NEW p \in Request, Moves(p), local'[p].user = local[p].user, local[p].create
    PROVE  \A q \in Request \ {p} : local'[q].user # local'[p].user
  BY DEF RequestsOK, RequestOK, Moves

\* A step that moves p and leaves the tables alone.
LEMMA ReadStep ==
    ASSUME UsersInv, NEW p \in Request, Moves(p), RequestOK(p)',
           Apart(p) \/ (local'[p].user \notin {local[q].user : q \in Request}),
           UNCHANGED <<users, wallets>>, cookies' \subseteq UserID
    PROVE  UsersInv' /\ Frame
<1> USE DEF UsersInv
<1>1. TypeOK'
  BY DEF TypeOK, Moves
<1>2. Frame
  BY DEF Frame, member, live, ownersOf
<1>3. PrimaryIsOwned' /\ ListedWalletsLive'
  BY DEF PrimaryIsOwned, ListedWalletsLive, live, liveWallet, ownersOf
<1>4. \A q \in Request \ {p} : local[q].create =>
          \A r \in Request \ {q} : local'[r].user # local[q].user
  <2>1. CASE Apart(p)
    BY <2>1, StaysApart
  <2>2. CASE local'[p].user \notin {local[q].user : q \in Request}
    BY <2>2 DEF Moves, RequestsOK, RequestOK
  <2> QED
    BY <2>1, <2>2
<1>5. ASSUME NEW q \in Request \ {p} PROVE RequestOK(q)'
  <2>1. local[q].create => local[q].user \notin DOMAIN users'
    BY DEF RequestsOK, RequestOK
  <2> QED
    BY <1>1, <1>2, <1>4, <2>1, OthersOK DEF Moves
<1> QED
  BY <1>1, <1>2, <1>3, <1>5 DEF RequestsOK

\* Requests that begin.
LEMMA BeginSteps ==
    ASSUME UsersInv, NEW p \in Request,
           \/ \E u \in UserID, a \in Address : AddWalletToUser(p, u, a) \/ AddWalletToUserUnchecked(p, u, a)
           \/ \E u \in UserID, ids \in SUBSET WalletID \ {{}} : RemoveWalletsFromUser(p, u, ids)
           \/ \E u \in UserID, n \in Username : UpdateUserInfo(p, u, n)
           \/ \E a \in Address, n \in Username : CreateUser(p, a, n)
           \/ \E n \in Username : CreateUserWithEmail(p, n)
    PROVE  UsersInv' /\ Frame
<1> USE DEF UsersInv
<1>1. ASSUME NEW u \in UserID, NEW a \in Address, live(u),
             Begin(p, "getWallet", [Idle EXCEPT !.user = u, !.address = a]),
             UNCHANGED <<users, wallets, cookies>>
      PROVE  UsersInv' /\ Frame
  <2> DEFINE args == [Idle EXCEPT !.user = u, !.address = a]
  <2>1. args \in Local
    BY StartAssumption DEF Local, Idle
  <2>2. Moves(p) /\ pc'[p] = "getWallet" /\ local'[p] = args
    BY <1>1, <2>1, BeginMoves DEF Stage
  <2>3. RequestOK(p)'
    BY <2>2 DEF RequestOK, Deleting, Idle
  <2> QED
    BY <1>1, <2>2, <2>3, ReadStep DEF Apart, live, Idle, TypeOK
<1>2. ASSUME NEW u \in UserID, NEW ids \in SUBSET WalletID, member(u),
             Begin(p, "remove", [Idle EXCEPT !.user = u, !.ids = ids]),
             UNCHANGED <<users, wallets, cookies>>
      PROVE  UsersInv' /\ Frame
  <2> DEFINE args == [Idle EXCEPT !.user = u, !.ids = ids]
  <2>1. args \in Local
    BY StartAssumption DEF Local, Idle
  <2>2. Moves(p) /\ pc'[p] = "remove" /\ local'[p] = args
    BY <1>2, <2>1, BeginMoves DEF Stage
  <2>3. RequestOK(p)'
    BY <1>2, <2>2 DEF RequestOK, Deleting, Idle, member, live
  <2> QED
    BY <1>2, <2>2, <2>3, ReadStep DEF Apart, member, live, Idle, TypeOK
<1>3. ASSUME NEW u \in UserID, NEW n \in Username, member(u),
             Begin(p, "rename", [Idle EXCEPT !.user = u, !.username = n]),
             UNCHANGED <<users, wallets, cookies>>
      PROVE  UsersInv' /\ Frame
  <2> DEFINE args == [Idle EXCEPT !.user = u, !.username = n]
  <2>1. args \in Local
    BY StartAssumption DEF Local, Idle
  <2>2. Moves(p) /\ pc'[p] = "rename" /\ local'[p] = args
    BY <1>3, <2>1, BeginMoves DEF Stage
  <2>3. RequestOK(p)'
    BY <1>3, <2>2 DEF RequestOK, Deleting, Idle, member, live
  <2> QED
    BY <1>3, <2>2, <2>3, ReadStep DEF Apart, member, live, Idle, TypeOK
<1>4. ASSUME NEW a \in Address \cup {NoAddress}, NEW n \in Username, BeginCreate(p, a, n),
             UNCHANGED <<users, wallets, cookies>>
      PROVE  UsersInv' /\ Frame
  <2>1. PICK u \in freshUserIDs :
          Begin(p, "username", [Idle EXCEPT !.create = TRUE, !.user = u, !.address = a, !.username = n])
    BY <1>4 DEF BeginCreate
  <2> DEFINE args == [Idle EXCEPT !.create = TRUE, !.user = u, !.address = a, !.username = n]
  <2>2. u \in UserID \ DOMAIN users /\ u \notin {local[q].user : q \in Request}
    BY DEF freshUserIDs
  <2>3. args \in Local
    BY <2>2, StartAssumption DEF Local, Idle
  <2>4. Moves(p) /\ pc'[p] = "username" /\ local'[p] = args
    BY <2>1, <2>3, BeginMoves DEF Stage
  <2>5. args.user = u /\ \A q \in Request \ {p} : local'[q].user # u
    BY <2>2, <2>4 DEF Moves, Idle
  <2>6. RequestOK(p)'
    BY <1>4, <2>2, <2>4, <2>5 DEF RequestOK, Deleting, Idle
  <2>7. local'[p].user \notin {local[q].user : q \in Request}
    BY <2>2, <2>4, <2>5
  <2> QED
    BY <1>4, <2>4, <2>6, <2>7, ReadStep DEF TypeOK
<1> QED
  BY <1>1, <1>2, <1>3, <1>4
     DEF AddWalletToUser, AddWalletToUserUnchecked, RemoveWalletsFromUser, UpdateUserInfo, CreateUser,
         CreateUserWithEmail, member

\* Steps of a request that only read, return, or put cookies in a response.
LEMMA ReadSteps ==
    ASSUME UsersInv, NEW p \in Request,
           \/ GetWallet(p) \/ GetOwner(p) \/ GetNoOwner(p) \/ InsertConflict(p) \/ CheckUsername(p)
           \/ TxInsertWallet(p) \/ StartSession(p) \/ CommitFails(p) \/ StatementFails(p)
    PROVE  UsersInv' /\ Frame
<1> USE DEF UsersInv
<1>0. RequestOK(p) /\ local[p] \in Local
  BY DEF RequestsOK, TypeOK
<1>1. CASE GetWallet(p)
  <2>0. UNCHANGED <<users, wallets, cookies>> /\ pc[p] = "getWallet"
    BY <1>1 DEF GetWallet
  <2>1. CASE walletsAt(local[p].address) = {}
    <3>1. Moves(p) /\ pc'[p] = "insert" /\ local'[p] = local[p]
      BY <1>1, <2>1, GotoMoves DEF GetWallet, Stage
    <3>2. local[p].create => \A q \in Request \ {p} : local'[q].user # local'[p].user
      BY <3>1, OwnApart
    <3>3. TypeOK' /\ local'[p].wallet = NoWallet
      BY <1>0, <2>0, <3>1 DEF TypeOK, Moves, RequestOK
    <3>4. RequestOK(p)'
      BY <1>0, <2>0, <3>1, <3>2, <3>3, NoWalletUnlisted DEF RequestOK, Deleting
    <3> QED
      BY <2>0, <3>1, <3>4, ReadStep DEF Apart, TypeOK
  <2>2. CASE walletsAt(local[p].address) # {}
    <3>1. PICK w \in walletsAt(local[p].address) : Begin(p, "getOwner", [local[p] EXCEPT !.wallet = w])
      BY <1>1, <2>2 DEF GetWallet
    <3>2. w \in DOMAIN wallets /\ w \in WalletID
      BY <3>1 DEF walletsAt, TypeOK
    <3> DEFINE args == [local[p] EXCEPT !.wallet = w]
    <3>3. args \in Local
      BY <1>0, <3>2 DEF Local
    <3>4. Moves(p) /\ pc'[p] = "getOwner" /\ local'[p] = args
      BY <3>1, <3>3, BeginMoves DEF Stage
    <3>5. /\ args.user = local[p].user /\ args.create = local[p].create /\ args.wallet = w
          /\ args.owner = local[p].owner /\ args.address = local[p].address
      BY <1>0 DEF Local
    <3>6. local[p].create => \A q \in Request \ {p} : local'[q].user # local'[p].user
      BY <3>4, <3>5, OwnApart
    <3> HIDE DEF args
    <3>7. w # NoWallet
      BY <3>2, NoneAssumption
    <3>8. RequestOK(p)'
      BY <1>0, <2>0, <3>2, <3>4, <3>5, <3>6, <3>7 DEF RequestOK, Deleting
    <3> QED
      BY <2>0, <3>4, <3>5, <3>8, ReadStep DEF Apart, TypeOK
  <2> QED
    BY <2>1, <2>2
<1>2. CASE GetOwner(p)
  <2>0. UNCHANGED <<users, wallets, cookies>> /\ pc[p] = "getOwner"
    BY <1>2 DEF GetOwner
  <2>1. PICK u \in ownersOf(local[p].wallet) :
          IF afterOwner(p, u) = "idle" THEN Return(p)
          ELSE Begin(p, IF local[p].create THEN "insert" ELSE afterOwner(p, u),
                     [local[p] EXCEPT !.owner = u])
    BY <1>2 DEF GetOwner
  <2>2. CASE afterOwner(p, u) = "idle"
    BY <2>0, <2>1, <2>2, ReturnMoves, ReadStep DEF Apart, Idle, TypeOK
  <2>3. CASE afterOwner(p, u) # "idle"
    <3> DEFINE args == [local[p] EXCEPT !.owner = u]
               stage == IF local[p].create THEN "insert" ELSE "deleteUser"
    <3>1. u \in DOMAIN users /\ u \in UserID /\ users[u].universal
      BY <2>1, <2>3 DEF afterOwner, ownersOf, TypeOK
    <3>2. ownersOf(local[p].wallet) = {u}
      BY <2>1 DEF ListedWalletsLive, ownersOf
    <3>3. args \in Local /\ stage \in Stage
      BY <1>0, <3>1 DEF Local, Stage
    <3>4. Moves(p) /\ pc'[p] = stage /\ local'[p] = args
      BY <2>1, <2>3, <3>3, BeginMoves DEF afterOwner
    <3>5. /\ args.user = local[p].user /\ args.create = local[p].create /\ args.wallet = local[p].wallet
          /\ args.owner = u /\ args.address = local[p].address
      BY <1>0 DEF Local
    <3>6. local[p].create => \A q \in Request \ {p} : local'[q].user # local'[p].user
      BY <3>4, <3>5, OwnApart
    <3>7. ownersOf(local[p].wallet)' \subseteq {u}
      BY <2>0, <3>2, <3>4, <3>5 DEF ownersOf, live
    <3>8. u # NoUser
      BY <3>1, NoneAssumption
    <3>9. RequestOK(p)'
      BY <1>0, <2>0, <3>1, <3>4, <3>5, <3>6, <3>7, <3>8 DEF RequestOK, Deleting
    <3> QED
      BY <2>0, <3>4, <3>5, <3>9, ReadStep DEF Apart, TypeOK
  <2> QED
    BY <2>2, <2>3
<1>3. CASE GetNoOwner(p)
  <2>0. UNCHANGED <<users, wallets, cookies>> /\ pc[p] = "getOwner" /\ ownersOf(local[p].wallet) = {}
    BY <1>3 DEF GetNoOwner
  <2> DEFINE stage == IF local[p].create THEN "insert" ELSE "deleteWallet"
  <2>1. Moves(p) /\ pc'[p] = stage /\ local'[p] = local[p]
    BY <1>3, GotoMoves DEF GetNoOwner, Stage
  <2>2. local[p].create => \A q \in Request \ {p} : local'[q].user # local'[p].user
    BY <2>1, OwnApart
  <2>3. ownersOf(local[p].wallet)' = {}
    BY <2>0, <2>1 DEF ownersOf, live
  <2>4. RequestOK(p)'
    BY <1>0, <2>0, <2>1, <2>2, <2>3 DEF RequestOK, Deleting
  <2> QED
    BY <2>0, <2>1, <2>4, ReadStep DEF Apart, TypeOK
<1>4. CASE Return(p) /\ UNCHANGED <<users, wallets, cookies>>
  BY <1>4, ReturnMoves, ReadStep DEF Apart, Idle, TypeOK
<1>5. CASE CheckUsername(p) /\ ~Return(p)
  <2>0. UNCHANGED <<users, wallets, cookies>> /\ pc[p] = "username"
    BY <1>5 DEF CheckUsername
  <2> DEFINE stage == IF local[p].address = NoAddress THEN "session" ELSE "getWallet"
  <2>1. Moves(p) /\ pc'[p] = stage /\ local'[p] = local[p]
    BY <1>5, GotoMoves DEF CheckUsername, Stage
  <2>2. local[p].create => \A q \in Request \ {p} : local'[q].user # local'[p].user
    BY <2>1, OwnApart
  <2>3. TypeOK' /\ local'[p].wallet = NoWallet
    BY <1>0, <2>0, <2>1 DEF TypeOK, Moves, RequestOK
  <2>4. stage = "getWallet" => local[p].address \in Address
    BY <1>0 DEF Local
  <2>5. RequestOK(p)'
    BY <1>0, <2>0, <2>1, <2>2, <2>3, <2>4, NoWalletUnlisted DEF RequestOK, Deleting
  <2> QED
    BY <2>0, <2>1, <2>5, ReadStep DEF Apart, TypeOK
<1>6. CASE TxInsertWallet(p) \/ StartSession(p)
  <2> DEFINE stage == IF pc[p] = "insert" THEN "session" ELSE "commit"
  <2>0. /\ UNCHANGED <<users, wallets, local>> /\ pc[p] \in {"insert", "session"} /\ local[p].create
        /\ Goto(p, stage)
    BY <1>0, <1>6 DEF TxInsertWallet, StartSession, RequestOK
  <2>1. Moves(p) /\ pc'[p] = stage /\ local'[p] = local[p]
    BY <2>0, GotoMoves DEF Stage
  <2>2. \A q \in Request \ {p} : local'[q].user # local'[p].user
    BY <2>0, <2>1, OwnApart
  <2>3. ownersOf(local[p].wallet)' \subseteq {local[p].owner}
    BY <1>0, <2>0, <2>1 DEF ownersOf, live, RequestOK, Deleting
  <2>4. RequestOK(p)'
    BY <1>0, <2>0, <2>1, <2>2, <2>3 DEF RequestOK, Deleting
  <2>5. cookies' \subseteq UserID
    BY <1>0, <1>6, <2>0 DEF TxInsertWallet, StartSession, RequestOK, TypeOK
  <2> QED
    BY <2>0, <2>1, <2>4, <2>5, ReadStep DEF Apart
<1> QED
  BY <1>1, <1>2, <1>3, <1>4, <1>5, <1>6 DEF InsertConflict, CheckUsername, CommitFails, StatementFails

\* A step that moves p and changes the tables, within what Frame allows; the only
\* new user may be the one whose request p is.
LEMMA WriteStep ==
    ASSUME UsersInv, NEW p \in Request, Moves(p), RequestOK(p)', Apart(p), Frame, TypeOK',
           PrimaryIsOwned', ListedWalletsLive', DOMAIN users' \subseteq DOMAIN users \cup {local[p].user}
    PROVE  UsersInv'
<1> USE DEF UsersInv
<1>1. ASSUME NEW q \in Request \ {p} PROVE RequestOK(q)'
  <2>1. local[q].create => local[q].user \notin DOMAIN users'
    BY DEF RequestsOK, RequestOK
  <2>2. local[q].create => \A r \in Request \ {q} : local'[r].user # local[q].user
    BY StaysApart
  <2> QED
    BY <2>1, <2>2, OthersOK DEF Moves
<1> QED
  BY <1>1 DEF RequestsOK

\* The universal user whose wallet is wanted is deleted.
LEMMA DeleteUserStep ==
    ASSUME UsersInv, NEW p \in Request, DeleteUserByID(p)
    PROVE  UsersInv' /\ Frame
<1> USE DEF UsersInv
<1> DEFINE o == local[p].owner
           w == local[p].wallet
<1>0. RequestOK(p) /\ local[p] \in Local /\ pc[p] = "deleteUser" /\ ~local[p].create
  BY DEF RequestsOK, RequestOK, TypeOK, DeleteUserByID
<1>1. o \in DOMAIN users /\ users[o].universal /\ ownersOf(w) \subseteq {o}
  BY <1>0 DEF RequestOK, Deleting
<1>2. Moves(p) /\ pc'[p] = "deleteWallet" /\ local'[p] = local[p]
  BY GotoMoves DEF DeleteUserByID, Stage
<1>3. /\ DOMAIN users' = DOMAIN users /\ wallets' = wallets /\ cookies' = cookies
      /\ users'[o] = [users[o] EXCEPT !.deleted = TRUE]
      /\ \A u \in DOMAIN users \ {o} : users'[u] = users[u]
  BY <1>1 DEF DeleteUserByID, deleteUser
<1>4. [users[o] EXCEPT !.deleted = TRUE] \in UserRow
  BY <1>1 DEF TypeOK, UserRow
<1>5. TypeOK'
  <2>1. \A u \in DOMAIN users' : users'[u] \in UserRow
    BY <1>3, <1>4 DEF TypeOK
  <2>2. users' = [u \in DOMAIN users' |-> users'[u]]
    BY DEF DeleteUserByID, deleteUser
  <2> QED
    BY <1>2, <1>3, <2>1, <2>2 DEF TypeOK, Moves
<1>6. /\ users'[o].deleted /\ users'[o].universal = users[o].universal
      /\ \A u \in DOMAIN users : users'[u].wallets = users[u].wallets /\ users'[u].primary = users[u].primary
  <2>1. users[o] \in UserRow
    BY <1>1 DEF TypeOK
  <2>2. /\ users'[o].deleted /\ users'[o].universal = users[o].universal
        /\ users'[o].wallets = users[o].wallets /\ users'[o].primary = users[o].primary
    BY <1>3, <2>1 DEF UserRow
  <2> QED
    BY <1>3, <2>2
<1>7. \A u \in DOMAIN users : live(u)' <=> live(u) /\ u # o
  BY <1>3, <1>6 DEF live
<1>8. \A x : ownersOf(x)' = ownersOf(x) \ {o}
  BY <1>3, <1>6, <1>7 DEF ownersOf, live
<1>9. Frame
  BY <1>1, <1>3, <1>6, <1>8 DEF Frame, member, live
<1>10. PrimaryIsOwned'
  BY <1>3, <1>6, <1>7 DEF PrimaryIsOwned
<1>11. ListedWalletsLive'
  BY <1>3, <1>6, <1>7, <1>8 DEF ListedWalletsLive, liveWallet
<1>12. ownersOf(w)' = {}
  BY <1>1, <1>2, <1>3, <1>6, <1>7 DEF ownersOf, live
<1>13. RequestOK(p)'
  BY <1>0, <1>1, <1>2, <1>3, <1>6, <1>12 DEF RequestOK, Deleting
<1> QED
  BY <1>2, <1>3, <1>5, <1>9, <1>10, <1>11, <1>13, WriteStep DEF Apart

\* The leftover wallet is deleted: nobody lists it.
LEMMA DeleteWalletStep ==
    ASSUME UsersInv, NEW p \in Request, DeleteWalletByID(p)
    PROVE  UsersInv' /\ Frame
<1> USE DEF UsersInv
<1> DEFINE w == local[p].wallet
<1>0. RequestOK(p) /\ local[p] \in Local /\ pc[p] = "deleteWallet" /\ ~local[p].create
  BY DEF RequestsOK, RequestOK, TypeOK, DeleteWalletByID
<1>1. w \in DOMAIN wallets /\ ownersOf(w) = {}
  BY <1>0 DEF RequestOK
<1>2. Moves(p) /\ pc'[p] = "insert" /\ local'[p] = local[p]
  BY GotoMoves DEF DeleteWalletByID, Stage
<1>3. /\ DOMAIN wallets' = DOMAIN wallets /\ users' = users /\ cookies' = cookies
      /\ wallets'[w] = [wallets[w] EXCEPT !.deleted = TRUE]
      /\ \A x \in DOMAIN wallets \ {w} : wallets'[x] = wallets[x]
  BY <1>1 DEF DeleteWalletByID, deleteWallet
<1>4. TypeOK'
  <2>1. [wallets[w] EXCEPT !.deleted = TRUE] \in WalletRow
    BY <1>1 DEF TypeOK, WalletRow
  <2>2. \A x \in DOMAIN wallets' : wallets'[x] \in WalletRow
    BY <1>3, <2>1 DEF TypeOK
  <2>3. wallets' = [x \in DOMAIN wallets' |-> wallets'[x]]
    BY DEF DeleteWalletByID, deleteWallet
  <2> QED
    BY <1>2, <1>3, <2>2, <2>3 DEF TypeOK, Moves
<1>5. \A x : ownersOf(x)' = ownersOf(x)
  BY <1>3 DEF ownersOf, live
<1>6. Frame
  BY <1>3, <1>5 DEF Frame, member, live
<1>7. PrimaryIsOwned'
  BY <1>3 DEF PrimaryIsOwned, live
<1>8. ListedWalletsLive'
  BY <1>1, <1>3 DEF ListedWalletsLive, liveWallet, ownersOf, live
<1>9. RequestOK(p)'
  BY <1>0, <1>1, <1>2, <1>3 DEF RequestOK, Deleting
<1> QED
  BY <1>2, <1>3, <1>4, <1>6, <1>7, <1>8, <1>9, WriteStep DEF Apart

\* The primary wallet becomes another one of the list.
LEMMA UpdatePrimaryStep ==
    ASSUME UsersInv, NEW u \in UserID, NEW w \in WalletID, UpdateUserPrimaryWallet(u, w)
    PROVE  UsersInv' /\ Frame
<1> USE DEF UsersInv
<1>0. /\ u \in DOMAIN users /\ w \in users[u].wallets /\ UNCHANGED <<wallets, cookies, pc, local>>
      /\ users' = [users EXCEPT ![u].primary = w]
  BY DEF UpdateUserPrimaryWallet, member, live
<1>1. /\ DOMAIN users' = DOMAIN users
      /\ users'[u] = [users[u] EXCEPT !.primary = w]
      /\ \A x \in DOMAIN users \ {u} : users'[x] = users[x]
  BY <1>0 DEF TypeOK
<1>2. [users[u] EXCEPT !.primary = w] \in UserRow
  BY <1>0 DEF TypeOK, UserRow
<1>3. TypeOK'
  BY <1>0, <1>1, <1>2 DEF TypeOK
<1>4. /\ users'[u].primary = w
      /\ \A x \in DOMAIN users : /\ users'[x].wallets = users[x].wallets
                                 /\ users'[x].deleted = users[x].deleted
                                 /\ users'[x].universal = users[x].universal
  BY <1>0, <1>1 DEF TypeOK, UserRow
<1>5. \A x : ownersOf(x)' = ownersOf(x)
  BY <1>1, <1>4 DEF ownersOf, live
<1>6. Frame
  BY <1>0, <1>1, <1>4, <1>5 DEF Frame, member, live
<1>7. PrimaryIsOwned'
  BY <1>0, <1>1, <1>4, NoneAssumption DEF PrimaryIsOwned, live
<1>8. ListedWalletsLive'
  BY <1>0, <1>1, <1>4 DEF ListedWalletsLive, liveWallet, ownersOf, live
<1>9. ASSUME NEW q \in Request PROVE RequestOK(q)'
  <2>1. RequestOK(q)
    BY DEF RequestsOK
  <2> QED
    BY <1>0, <1>1, <1>3, <1>6, <2>1, OthersOK DEF RequestOK
<1> QED
  BY <1>3, <1>6, <1>7, <1>8, <1>9 DEF RequestsOK

\* A username changes and nothing else does.
LEMMA RenameStep ==
    ASSUME UsersInv, NEW p \in Request, UpdateInfoStmt(p)
    PROVE  UsersInv' /\ Frame
<1> USE DEF UsersInv
<1> DEFINE u == local[p].user
<1>0. /\ RequestOK(p) /\ local[p] \in Local /\ u \in DOMAIN users /\ UNCHANGED <<wallets, cookies>>
      /\ users' = [users EXCEPT ![u].username = local[p].username]
  BY DEF RequestsOK, RequestOK, TypeOK, UpdateInfoStmt, member, live
<1>1. Moves(p) /\ RequestOK(p)' /\ local'[p] = Idle
  BY ReturnMoves DEF UpdateInfoStmt
<1>2. /\ DOMAIN users' = DOMAIN users
      /\ users'[u] = [users[u] EXCEPT !.username = local[p].username]
      /\ \A x \in DOMAIN users \ {u} : users'[x] = users[x]
  BY <1>0 DEF TypeOK
<1>3. [users[u] EXCEPT !.username = local[p].username] \in UserRow
  <2>1. users[u] \in UserRow /\ local[p].username \in Username
    BY <1>0 DEF TypeOK, Local
  <2> QED
    BY <2>1 DEF UserRow
<1>4. TypeOK'
  BY <1>0, <1>1, <1>2, <1>3 DEF TypeOK, Moves
<1>5. \A x \in DOMAIN users : /\ users'[x].wallets = users[x].wallets
                              /\ users'[x].primary = users[x].primary
                              /\ users'[x].deleted = users[x].deleted
                              /\ users'[x].universal = users[x].universal
  BY <1>0, <1>2 DEF TypeOK, UserRow
<1>6. \A x : ownersOf(x)' = ownersOf(x)
  BY <1>2, <1>5 DEF ownersOf, live
<1>7. Frame
  BY <1>0, <1>2, <1>5, <1>6 DEF Frame, member, live
<1>8. PrimaryIsOwned'
  BY <1>2, <1>5 DEF PrimaryIsOwned, live
<1>9. ListedWalletsLive'
  BY <1>0, <1>2, <1>5 DEF ListedWalletsLive, liveWallet, ownersOf, live
<1> QED
  BY <1>1, <1>2, <1>4, <1>7, <1>8, <1>9, WriteStep DEF Apart, Idle

\* A wallet leaves the list of its only owner and is deleted.
LEMMA RemoveStep ==
    ASSUME UsersInv, NEW p \in Request, NEW w \in WalletID, RemoveWallet(p, w)
    PROVE  /\ UsersInv' /\ Frame
           /\ \A u \in DOMAIN users : users[u].wallets \ users'[u].wallets \subseteq {w}
           /\ \A u \in DOMAIN users \ {local[p].user} : users'[u] = users[u]
<1> USE DEF UsersInv
<1> DEFINE u == local[p].user
           args == [local[p] EXCEPT !.ids = @ \ {w}]
<1>0. /\ RequestOK(p) /\ local[p] \in Local /\ pc[p] = "remove" /\ member(u) /\ u \in DOMAIN users
      /\ ~local[p].create /\ cookies' = cookies
  BY DEF RequestsOK, RequestOK, TypeOK, RemoveWallet, member, live
<1>1. Moves(p) /\ ((local'[p] = Idle /\ pc'[p] = "idle") \/ (local'[p] = args /\ pc'[p] = "remove"))
  <2>1. args \in Local
    <3>1. local[p].ids \ {w} \in SUBSET WalletID
      BY <1>0 DEF Local
    <3> QED
      BY <1>0, <3>1 DEF Local
  <2>2. CASE Return(p)
    <3>1. Moves(p) /\ pc'[p] = "idle" /\ local'[p] = Idle
      BY <2>2, ReturnMoves
    <3> QED
      BY <3>1
  <2>3. CASE Begin(p, "remove", args)
    BY <2>1, <2>3, BeginMoves DEF Stage
  <2> QED
    BY <2>2, <2>3 DEF RemoveWallet
<1>2. /\ args.user = u /\ ~args.create /\ args.wallet = local[p].wallet
      /\ args.owner = local[p].owner
  BY <1>0 DEF Local
<1> HIDE DEF args
<1>3. Apart(p)
  BY <1>1, <1>2 DEF Apart, Idle
<1>4. ASSUME Frame PROVE RequestOK(p)'
  <2>1. CASE local'[p] = Idle /\ pc'[p] = "idle"
    BY <2>1, IdleOK
  <2>2. CASE local'[p] = args /\ pc'[p] = "remove"
    <3>1. member(local[p].user)' /\ (args.owner # NoUser => args.owner \in DOMAIN users' /\ users'[args.owner].universal)
      BY <1>0, <1>2, <1>4, <2>2 DEF Frame, member, live, RequestOK
    <3> QED
      BY <1>0, <1>2, <1>4, <2>2, <3>1 DEF RequestOK, Deleting, Frame
  <2> QED
    BY <1>1, <2>1, <2>2
<1>5. CASE ~removable(u, w)
  <2>1. UNCHANGED <<users, wallets>>
    BY <1>5 DEF RemoveWallet
  <2>2. Frame
    BY <2>1 DEF Frame, member, live, ownersOf
  <2>3. UsersInv'
    BY <1>0, <1>1, <1>3, <1>4, <2>1, <2>2, ReadStep DEF TypeOK
  <2> QED
    BY <2>1, <2>2, <2>3
<1>6. CASE removable(u, w)
  <2>0. /\ users' = [users EXCEPT ![u].wallets = @ \ {w}] /\ wallets' = deleteWallet(w)
        /\ users[u].primary # NoWallet /\ users[u].primary # w /\ w \in users[u].wallets
    BY <1>6 DEF RemoveWallet, removable
  <2>1. w \in DOMAIN wallets /\ ownersOf(w) = {u}
    BY <1>0, <2>0 DEF ListedWalletsLive, liveWallet, member
  <2>2. /\ DOMAIN users' = DOMAIN users
        /\ users'[u] = [users[u] EXCEPT !.wallets = @ \ {w}]
        /\ \A x \in DOMAIN users \ {u} : users'[x] = users[x]
    BY <1>0, <2>0 DEF TypeOK
  <2>3. /\ DOMAIN wallets' = DOMAIN wallets
        /\ wallets'[w] = [wallets[w] EXCEPT !.deleted = TRUE]
        /\ \A x \in DOMAIN wallets \ {w} : wallets'[x] = wallets[x]
    BY <2>0, <2>1 DEF deleteWallet
  <2>4. users[u] \in UserRow /\ wallets[w] \in WalletRow
    BY <1>0, <2>1 DEF TypeOK
  <2>5. users'[u] \in UserRow /\ wallets'[w] \in WalletRow
    <3>1. users'[u] \in UserRow
      BY <2>2, <2>4 DEF UserRow
    <3>2. wallets'[w] \in WalletRow
      BY <2>3, <2>4 DEF WalletRow
    <3> QED
      BY <3>1, <3>2
  <2>6. TypeOK'
    <3>1. \A x \in DOMAIN users' : users'[x] \in UserRow
      BY <2>2, <2>5 DEF TypeOK
    <3>2. \A x \in DOMAIN wallets' : wallets'[x] \in WalletRow
      BY <2>3, <2>5 DEF TypeOK
    <3>3. users' = [x \in DOMAIN users' |-> users'[x]]
      BY <2>0 DEF TypeOK
    <3>4. wallets' = [x \in DOMAIN wallets' |-> wallets'[x]]
      BY <2>0 DEF deleteWallet
    <3> QED
      BY <1>0, <1>1, <2>2, <2>3, <3>1, <3>2, <3>3, <3>4 DEF TypeOK, Moves
  <2>7. /\ users'[u].wallets = users[u].wallets \ {w} /\ users'[u].primary = users[u].primary
        /\ users'[u].deleted = users[u].deleted /\ users'[u].universal = users[u].universal
    BY <2>2, <2>4 DEF UserRow
  <2>8. \A x \in DOMAIN users : live(x)' <=> live(x)
    BY <2>2, <2>7 DEF live
  <2>9. ownersOf(w)' = {} /\ \A x : x # w => ownersOf(x)' = ownersOf(x)
    <3>1. \A x, y : y \in ownersOf(x) <=> y \in DOMAIN users /\ live(y) /\ x \in users[y].wallets
      BY DEF ownersOf
    <3>2. \A x, y : y \in ownersOf(x)' <=> y \in DOMAIN users' /\ live(y)' /\ x \in users'[y].wallets
      BY DEF ownersOf
    <3>3. \A y \in DOMAIN users \ {u} : w \notin users[y].wallets \/ ~live(y)
      BY <2>1, <3>1
    <3>4. \A y : y \notin ownersOf(w)'
      BY <2>2, <2>7, <2>8, <3>2, <3>3
    <3>5. ASSUME NEW x, x # w, NEW y PROVE y \in ownersOf(x)' <=> y \in ownersOf(x)
      <4>1. y \in DOMAIN users => (x \in users'[y].wallets <=> x \in users[y].wallets)
        BY <2>2, <2>7, <3>5
      <4>2. y \in DOMAIN users => (live(y)' <=> live(y))
        BY <2>8
      <4> QED
        BY <2>2, <3>1, <3>2, <4>1, <4>2, Zenon
    <3>6. \A x : x # w => ownersOf(x)' = ownersOf(x)
      <4> SUFFICES ASSUME NEW x, x # w PROVE ownersOf(x)' = ownersOf(x)
        OBVIOUS
      <4>1. \A y : y \in ownersOf(x)' <=> y \in ownersOf(x)
        BY <3>5
      <4> QED
        BY <4>1 DEF ownersOf
    <3>7. ownersOf(w)' = {}
      BY <3>4 DEF ownersOf
    <3> QED
      BY <3>6, <3>7
  <2>10. Frame
    BY <2>1, <2>2, <2>3, <2>7, <2>9 DEF Frame, member, live
  <2>11. PrimaryIsOwned'
    BY <2>0, <2>2, <2>7, <2>8 DEF PrimaryIsOwned
  <2>12. ListedWalletsLive'
    <3> SUFFICES ASSUME NEW x \in DOMAIN users', live(x)', NEW y \in users'[x].wallets
                 PROVE  liveWallet(y)' /\ ownersOf(y)' = {x}
      BY DEF ListedWalletsLive
    <3>1. x \in DOMAIN users /\ live(x) /\ y \in users[x].wallets
      BY <2>2, <2>7, <2>8
    <3>2. liveWallet(y) /\ ownersOf(y) = {x}
      BY <3>1 DEF ListedWalletsLive
    <3>3. y # w
      BY <2>1, <2>7, <3>2
    <3> QED
      BY <2>3, <2>9, <3>2, <3>3 DEF liveWallet
  <2>13. UsersInv'
    BY <1>1, <1>3, <1>4, <2>2, <2>6, <2>10, <2>11, <2>12, WriteStep
  <2> QED
    BY <2>2, <2>7, <2>10, <2>13
<1> QED
  BY <1>5, <1>6

\* Rows with a new one among them.
LEMMA AddRow ==
    ASSUME NEW T, NEW rows, rows \in [DOMAIN rows -> T], NEW k, NEW row \in T,
           NEW new, new = [x \in DOMAIN rows \cup {k} |-> IF x = k THEN row ELSE rows[x]]
    PROVE  /\ new \in [DOMAIN new -> T] /\ DOMAIN new = DOMAIN rows \cup {k}
           /\ new[k] = row /\ \A x \in DOMAIN rows \ {k} : new[x] = rows[x]
  OBVIOUS

\* A new wallet goes to a user who is there, or to nobody.
LEMMA InsertStep ==
    ASSUME UsersInv, NEW p \in Request, InsertWallet(p)
    PROVE  UsersInv' /\ Frame /\ \A u \in DOMAIN users : users[u].wallets \subseteq users'[u].wallets
<1> USE DEF UsersInv
<1> DEFINE u == local[p].user
<1>0. /\ RequestOK(p) /\ local[p] \in Local /\ pc[p] = "insert" /\ local[p].address \in Address
      /\ cookies' = cookies /\ Return(p)
  BY DEF RequestsOK, RequestOK, TypeOK, InsertWallet
<1>1. Moves(p) /\ RequestOK(p)' /\ local'[p] = Idle
  BY <1>0, ReturnMoves
<1>2. PICK w \in freshWalletIDs :
        /\ wallets' = addWallet(wallets, w, local[p].address)
        /\ users' = IF live(u) THEN [users EXCEPT ![u] = withWallet(@, w)] ELSE users
  BY DEF InsertWallet
<1>3. w \in WalletID /\ w \notin DOMAIN wallets /\ w # NoWallet
  BY <1>2, NoneAssumption DEF freshWalletIDs
<1>4. [address |-> local[p].address, deleted |-> FALSE] \in WalletRow
  BY <1>0 DEF WalletRow
<1>5. /\ wallets' \in [DOMAIN wallets' -> WalletRow] /\ DOMAIN wallets' = DOMAIN wallets \cup {w}
      /\ ~wallets'[w].deleted /\ \A x \in DOMAIN wallets : wallets'[x] = wallets[x]
  BY <1>2, <1>3, <1>4, AddRow DEF addWallet, TypeOK
<1>6. ownersOf(w) = {} /\ \A x \in DOMAIN users : live(x) => w \notin users[x].wallets
  BY <1>3 DEF ListedWalletsLive, liveWallet, ownersOf
<1>7. CASE ~live(u)
  <2>1. users' = users
    BY <1>2, <1>7
  <2>2. TypeOK'
    BY <1>0, <1>1, <1>3, <1>5, <2>1 DEF TypeOK, Moves
  <2>3. Frame /\ PrimaryIsOwned'
    BY <1>5, <2>1 DEF Frame, PrimaryIsOwned, member, live, ownersOf
  <2>4. ListedWalletsLive'
    BY <1>5, <2>1 DEF ListedWalletsLive, liveWallet, live, ownersOf
  <2> QED
    BY <1>1, <2>1, <2>2, <2>3, <2>4, WriteStep DEF Apart, Idle
<1>8. CASE live(u)
  <2>1. /\ u \in DOMAIN users /\ DOMAIN users' = DOMAIN users /\ users'[u] = withWallet(users[u], w)
        /\ \A x \in DOMAIN users \ {u} : users'[x] = users[x]
    BY <1>2, <1>8 DEF live, TypeOK
  <2>2. users[u] \in UserRow
    BY <2>1 DEF TypeOK
  <2>3. /\ users'[u].wallets = users[u].wallets \cup {w}
        /\ users'[u].primary = IF users[u].primary = NoWallet THEN w ELSE users[u].primary
        /\ users'[u].deleted = users[u].deleted /\ users'[u].universal = users[u].universal
    BY <2>1, <2>2 DEF UserRow, withWallet
  <2>4. users'[u] \in UserRow
    <3>1. /\ users[u].wallets \cup {w} \in SUBSET WalletID
          /\ (IF users[u].primary = NoWallet THEN w ELSE users[u].primary) \in WalletID \cup {NoWallet}
      BY <1>3, <2>2 DEF UserRow
    <3> QED
      BY <2>1, <2>2, <3>1 DEF UserRow, withWallet
  <2>5. TypeOK'
    <3>1. \A x \in DOMAIN users' : users'[x] \in UserRow
      BY <2>1, <2>4 DEF TypeOK
    <3>2. users' = [x \in DOMAIN users' |-> users'[x]]
      BY <1>2, <1>8 DEF TypeOK
    <3> QED
      BY <1>0, <1>1, <1>3, <1>5, <2>1, <3>1, <3>2 DEF TypeOK, Moves
  <2>6. \A x \in DOMAIN users : live(x)' <=> live(x)
    BY <2>1, <2>3 DEF live
  <2>7. ownersOf(w)' = {u} /\ \A x : x # w => ownersOf(x)' = ownersOf(x)
    BY <1>6, <1>8, <2>1, <2>3, <2>6 DEF ownersOf, live
  <2>8. Frame
    BY <1>3, <1>5, <2>1, <2>3, <2>7 DEF Frame, member, live
  <2>9. PrimaryIsOwned'
    BY <1>3, <2>1, <2>3, <2>6 DEF PrimaryIsOwned
  <2>10. ListedWalletsLive'
    <3> SUFFICES ASSUME NEW x \in DOMAIN users', live(x)', NEW y \in users'[x].wallets
                 PROVE  liveWallet(y)' /\ ownersOf(y)' = {x}
      BY DEF ListedWalletsLive
    <3>1. CASE y = w
      <4>1. x = u
        BY <1>6, <2>1, <2>6, <3>1
      <4> QED
        BY <1>5, <2>7, <3>1, <4>1 DEF liveWallet
    <3>2. CASE y # w
      <4>1. x \in DOMAIN users /\ live(x) /\ y \in users[x].wallets
        BY <2>1, <2>3, <2>6, <3>2
      <4>2. liveWallet(y) /\ ownersOf(y) = {x}
        BY <4>1 DEF ListedWalletsLive
      <4> QED
        BY <1>5, <2>7, <3>2, <4>2 DEF liveWallet
    <3> QED
      BY <3>1, <3>2
  <2>11. \A x \in DOMAIN users : users[x].wallets \subseteq users'[x].wallets
    BY <2>1, <2>3
  <2> QED
    BY <1>1, <2>1, <2>5, <2>8, <2>9, <2>10, <2>11, WriteStep DEF Apart, Idle
<1> QED
  BY <1>7, <1>8

\* The new user comes with a new wallet; the wallet the request read and the
\* universal user who had it go.
LEMMA CommitStep ==
    ASSUME UsersInv, NEW p \in Request, Commit(p)
    PROVE  UsersInv' /\ Frame /\ \A u \in DOMAIN users : users[u].wallets = users'[u].wallets
<1> USE DEF UsersInv
<1> DEFINE l == local[p]
<1>0. /\ RequestOK(p) /\ l \in Local /\ pc[p] = "commit" /\ l.address \in Address /\ l.create
      /\ cookies' = cookies /\ Return(p)
  BY DEF RequestsOK, RequestOK, TypeOK, Commit, Local
<1>1. Moves(p) /\ RequestOK(p)' /\ local'[p] = Idle
  BY <1>0, ReturnMoves
<1>2. PICK w \in freshWalletIDs :
        /\ wallets' = addWallet(deleteWallet(l.wallet), w, l.address)
        /\ users' = addUser(deleteUser(l.owner), l.user, withWallet(newUser(l.username), w))
  BY DEF Commit
<1>3. w \in WalletID /\ w \notin DOMAIN wallets /\ w # NoWallet
  BY <1>2, NoneAssumption DEF freshWalletIDs
<1>4. /\ l.user \in UserID \ DOMAIN users /\ ownersOf(l.wallet) \subseteq {l.owner}
      /\ (l.owner # NoUser => l.owner \in DOMAIN users /\ users[l.owner].universal)
  BY <1>0 DEF RequestOK, Deleting
<1>5. /\ wallets' \in [DOMAIN wallets' -> WalletRow] /\ DOMAIN wallets' = DOMAIN wallets \cup {w}
      /\ ~wallets'[w].deleted /\ \A x \in DOMAIN wallets \ {l.wallet} : wallets'[x] = wallets[x]
  <2> DEFINE rows == deleteWallet(l.wallet)
  <2>1. \A x \in DOMAIN wallets : [wallets[x] EXCEPT !.deleted = TRUE] \in WalletRow
    BY DEF TypeOK, WalletRow
  <2>2. /\ rows \in [DOMAIN rows -> WalletRow] /\ DOMAIN rows = DOMAIN wallets
        /\ \A x \in DOMAIN wallets \ {l.wallet} : rows[x] = wallets[x]
    BY <2>1 DEF deleteWallet, TypeOK
  <2>3. [address |-> l.address, deleted |-> FALSE] \in WalletRow
    BY <1>0 DEF WalletRow
  <2>4. wallets' = [x \in DOMAIN rows \cup {w} |->
                      IF x = w THEN [address |-> l.address, deleted |-> FALSE] ELSE rows[x]]
    BY <1>2 DEF addWallet
  <2> HIDE DEF rows
  <2>5. /\ wallets' \in [DOMAIN wallets' -> WalletRow] /\ DOMAIN wallets' = DOMAIN rows \cup {w}
        /\ wallets'[w] = [address |-> l.address, deleted |-> FALSE]
        /\ \A x \in DOMAIN rows \ {w} : wallets'[x] = rows[x]
    BY <2>2, <2>3, <2>4, AddRow
  <2> QED
    BY <1>3, <2>2, <2>5
<1> DEFINE new == withWallet(newUser(l.username), w)
<1>6. /\ new \in UserRow /\ new.wallets = {w} /\ new.primary = w /\ ~new.deleted /\ ~new.universal
  <2>1. l.username \in Username
    BY <1>0 DEF Local
  <2> QED
    BY <1>3, <2>1 DEF UserRow, withWallet, newUser
<1> HIDE DEF new
<1>7. /\ users' \in [DOMAIN users' -> UserRow] /\ DOMAIN users' = DOMAIN users \cup {l.user}
      /\ users'[l.user] = new
      /\ \A x \in DOMAIN users \ {l.owner} : users'[x] = users[x]
      /\ l.owner \in DOMAIN users => users'[l.owner] = [users[l.owner] EXCEPT !.deleted = TRUE]
  <2> DEFINE rows == deleteUser(l.owner)
  <2>1. \A x \in DOMAIN users : [users[x] EXCEPT !.deleted = TRUE] \in UserRow
    BY DEF TypeOK, UserRow
  <2>2. /\ rows \in [DOMAIN rows -> UserRow] /\ DOMAIN rows = DOMAIN users
        /\ \A x \in DOMAIN users \ {l.owner} : rows[x] = users[x]
        /\ l.owner \in DOMAIN users => rows[l.owner] = [users[l.owner] EXCEPT !.deleted = TRUE]
    BY <2>1 DEF deleteUser, TypeOK
  <2>3. users' = [x \in DOMAIN rows \cup {l.user} |-> IF x = l.user THEN new ELSE rows[x]]
    BY <1>2 DEF addUser, new
  <2> HIDE DEF rows
  <2> QED
    BY <1>4, <1>6, <2>2, <2>3, AddRow
<1>8. TypeOK'
  BY <1>0, <1>1, <1>3, <1>4, <1>5, <1>7 DEF TypeOK, Moves
<1>9. /\ l.owner \in DOMAIN users => users'[l.owner].deleted
      /\ \A x \in DOMAIN users : /\ users'[x].wallets = users[x].wallets
                                 /\ users'[x].primary = users[x].primary
                                 /\ users'[x].universal = users[x].universal
  <2>1. \A x \in DOMAIN users : users[x] \in UserRow
    BY DEF TypeOK
  <2>2. l.owner \in DOMAIN users =>
          /\ users'[l.owner].deleted /\ users'[l.owner].wallets = users[l.owner].wallets
          /\ users'[l.owner].primary = users[l.owner].primary
          /\ users'[l.owner].universal = users[l.owner].universal
    BY <1>7, <2>1 DEF UserRow
  <2> QED
    BY <1>7, <2>2
<1>10. /\ ~users'[l.user].deleted
       /\ \A x \in DOMAIN users : live(x)' <=> live(x) /\ x # l.owner
  BY <1>1, <1>4, <1>6, <1>7, <1>9 DEF live
<1>11. ASSUME NEW x \in DOMAIN users, live(x), NEW y \in users[x].wallets
       PROVE  y # w /\ liveWallet(y) /\ ownersOf(y) = {x}
  <2>1. liveWallet(y) /\ ownersOf(y) = {x}
    BY <1>11 DEF ListedWalletsLive
  <2> QED
    BY <1>3, <2>1 DEF liveWallet
<1>12. \A y : y # w => ownersOf(y)' \subseteq ownersOf(y)
  BY <1>6, <1>7, <1>9, <1>10 DEF ownersOf
<1>13. Frame
  <2>1. \A u \in DOMAIN users : member(u) => ~users'[u].deleted
    BY <1>4, <1>7, NoneAssumption DEF member, live, TypeOK
  <2> QED
    BY <1>3, <1>5, <1>7, <1>9, <1>12, <2>1 DEF Frame
<1>14. PrimaryIsOwned'
  BY <1>3, <1>6, <1>7, <1>9, <1>10 DEF PrimaryIsOwned
<1>15. ListedWalletsLive'
  <2> SUFFICES ASSUME NEW x \in DOMAIN users', live(x)', NEW y \in users'[x].wallets
               PROVE  liveWallet(y)' /\ ownersOf(y)' = {x}
    BY DEF ListedWalletsLive
  <2>1. x \in ownersOf(y)'
    BY DEF ownersOf
  <2>2. CASE x = l.user
    <3>1. y = w
      BY <1>6, <1>7, <2>2
    <3>2. ownersOf(y)' \subseteq {x}
      BY <1>7, <1>9, <1>10, <1>11, <2>2, <3>1 DEF ownersOf
    <3> QED
      BY <1>5, <2>1, <3>1, <3>2 DEF liveWallet
  <2>3. CASE x # l.user
    <3>1. x \in DOMAIN users /\ live(x) /\ x # l.owner /\ y \in users[x].wallets
      BY <1>7, <1>9, <1>10, <2>3
    <3>2. y # w /\ liveWallet(y) /\ ownersOf(y) = {x}
      BY <1>11, <3>1
    <3>3. y # l.wallet
      BY <1>4, <3>1, <3>2
    <3> QED
      BY <1>5, <1>12, <2>1, <3>2, <3>3 DEF liveWallet
  <2> QED
    BY <2>2, <2>3
<1> QED
  BY <1>1, <1>7, <1>8, <1>9, <1>13, <1>14, <1>15, WriteStep DEF Apart, Idle

\* The new user of an email address has no wallet.
LEMMA CommitWithoutWalletStep ==
    ASSUME UsersInv, NEW p \in Request, CommitWithoutWallet(p)
    PROVE  UsersInv' /\ Frame /\ \A u \in DOMAIN users : users'[u] = users[u]
<1> USE DEF UsersInv
<1> DEFINE l == local[p]
           new == newUser(l.username)
<1>0. /\ RequestOK(p) /\ l \in Local /\ pc[p] = "commit" /\ l.create
      /\ UNCHANGED <<wallets, cookies>> /\ Return(p)
  BY DEF RequestsOK, RequestOK, TypeOK, CommitWithoutWallet
<1>1. Moves(p) /\ RequestOK(p)' /\ local'[p] = Idle
  BY <1>0, ReturnMoves
<1>2. l.user \in UserID \ DOMAIN users
  BY <1>0 DEF RequestOK
<1>3. new \in UserRow /\ new.wallets = {} /\ new.primary = NoWallet /\ ~new.deleted
  <2>1. l.username \in Username
    BY <1>0 DEF Local
  <2> QED
    BY <2>1 DEF UserRow, newUser
<1>4. users' = [x \in DOMAIN users \cup {l.user} |-> IF x = l.user THEN new ELSE users[x]]
  BY DEF CommitWithoutWallet, addUser
<1> HIDE DEF new
<1>5. /\ users' \in [DOMAIN users' -> UserRow] /\ DOMAIN users' = DOMAIN users \cup {l.user}
      /\ users'[l.user] = new /\ \A x \in DOMAIN users : users'[x] = users[x]
  BY <1>2, <1>3, <1>4, AddRow DEF TypeOK
<1>6. TypeOK'
  BY <1>0, <1>1, <1>2, <1>5 DEF TypeOK, Moves
<1>7. \A y : ownersOf(y)' = ownersOf(y)
  BY <1>2, <1>3, <1>5 DEF ownersOf, live
<1>8. Frame
  BY <1>0, <1>5, <1>7 DEF Frame, member, live
<1>9. PrimaryIsOwned'
  BY <1>3, <1>5 DEF PrimaryIsOwned, live
<1>10. ListedWalletsLive'
  <2> SUFFICES ASSUME NEW x \in DOMAIN users', live(x)', NEW y \in users'[x].wallets
               PROVE  liveWallet(y)' /\ ownersOf(y)' = {x}
    BY DEF ListedWalletsLive
  <2>1. x \in DOMAIN users /\ live(x) /\ y \in users[x].wallets
    BY <1>3, <1>5 DEF live
  <2> QED
    BY <1>0, <1>7, <2>1 DEF ListedWalletsLive, liveWallet
<1> QED
  BY <1>1, <1>5, <1>6, <1>8, <1>9, <1>10, WriteStep DEF Apart, Idle

\* Every step keeps the invariant and stays within the frame; a wallet leaves a
\* list only when a removal of that user's has it among its IDs.
LEMMA UsersStep ==
    ASSUME UsersInv, [Next]_vars
    PROVE  /\ UsersInv' /\ Frame
           /\ \A u \in DOMAIN users : \A w \in users[u].wallets \ users'[u].wallets :
                 \E p \in Request : pc[p] = "remove" /\ local[p].user = u /\ w \in local[p].ids
<1> DEFINE Lost == \A u \in DOMAIN users : \A w \in users[u].wallets \ users'[u].wallets :
                      \E p \in Request : pc[p] = "remove" /\ local[p].user = u /\ w \in local[p].ids
<1>0. ASSUME users' = users PROVE Lost
  BY <1>0
<1>1. CASE UNCHANGED vars
  <2>1. UNCHANGED <<users, wallets, cookies, pc, local>>
    BY <1>1 DEF vars
  <2>2. Frame
    BY <2>1 DEF Frame, member, live, ownersOf
  <2>3. UsersInv'
    BY <2>1 DEF UsersInv, TypeOK, PrimaryIsOwned, ListedWalletsLive, RequestsOK, RequestOK, Deleting,
                live, liveWallet, member, ownersOf
  <2> QED
    BY <1>0, <2>1, <2>2, <2>3
<1>2. ASSUME NEW u \in UserID, NEW w \in WalletID, UpdateUserPrimaryWallet(u, w)
      PROVE  UsersInv' /\ Frame /\ Lost
  <2>1. \A x \in DOMAIN users : users'[x].wallets = users[x].wallets
    BY <1>2 DEF UpdateUserPrimaryWallet, UsersInv, TypeOK, UserRow
  <2> QED
    BY <1>2, <2>1, UpdatePrimaryStep
<1>3. ASSUME NEW p \in Request,
             \/ \E u \in UserID, a \in Address : AddWalletToUser(p, u, a) \/ AddWalletToUserUnchecked(p, u, a)
             \/ \E u \in UserID, ids \in SUBSET WalletID \ {{}} : RemoveWalletsFromUser(p, u, ids)
             \/ \E u \in UserID, n \in Username : UpdateUserInfo(p, u, n)
             \/ \E a \in Address, n \in Username : CreateUser(p, a, n)
             \/ \E n \in Username : CreateUserWithEmail(p, n)
      PROVE  UsersInv' /\ Frame /\ Lost
  <2>1. users' = users
    BY <1>3 DEF AddWalletToUser, AddWalletToUserUnchecked, RemoveWalletsFromUser, UpdateUserInfo, CreateUser,
                CreateUserWithEmail
  <2>2. UsersInv' /\ Frame
    BY <1>3, BeginSteps
  <2> QED
    BY <1>0, <2>1, <2>2
<1>4. ASSUME NEW p \in Request,
             \/ GetWallet(p) \/ GetOwner(p) \/ GetNoOwner(p) \/ InsertConflict(p) \/ CheckUsername(p)
             \/ TxInsertWallet(p) \/ StartSession(p) \/ CommitFails(p) \/ StatementFails(p)
      PROVE  UsersInv' /\ Frame /\ Lost
  <2>1. users' = users
    BY <1>4 DEF GetWallet, GetOwner, GetNoOwner, InsertConflict, CheckUsername, TxInsertWallet, StartSession,
                CommitFails, StatementFails
  <2>2. UsersInv' /\ Frame
    BY <1>4, ReadSteps
  <2> QED
    BY <1>0, <2>1, <2>2
<1>5. ASSUME NEW p \in Request, DeleteUserByID(p) PROVE UsersInv' /\ Frame /\ Lost
  <2>1. \A x \in DOMAIN users : users'[x].wallets = users[x].wallets
    BY <1>5 DEF DeleteUserByID, deleteUser, UsersInv, TypeOK, UserRow
  <2> QED
    BY <1>5, <2>1, DeleteUserStep
<1>6. ASSUME NEW p \in Request, DeleteWalletByID(p) PROVE UsersInv' /\ Frame /\ Lost
  <2>1. users' = users
    BY <1>6 DEF DeleteWalletByID
  <2> QED
    BY <1>0, <1>6, <2>1, DeleteWalletStep
<1>7. ASSUME NEW p \in Request, InsertWallet(p) PROVE UsersInv' /\ Frame /\ Lost
  BY <1>7, InsertStep
<1>8. ASSUME NEW p \in Request, NEW w \in WalletID, RemoveWallet(p, w) PROVE UsersInv' /\ Frame /\ Lost
  <2>1. /\ UsersInv' /\ Frame
        /\ \A u \in DOMAIN users : users[u].wallets \ users'[u].wallets \subseteq {w}
        /\ \A u \in DOMAIN users \ {local[p].user} : users'[u] = users[u]
    BY <1>8, RemoveStep
  <2>2. pc[p] = "remove" /\ w \in local[p].ids
    BY <1>8 DEF RemoveWallet
  <2> QED
    BY <2>1, <2>2
<1>9. ASSUME NEW p \in Request, UpdateInfoStmt(p) PROVE UsersInv' /\ Frame /\ Lost
  <2>1. \A x \in DOMAIN users : users'[x].wallets = users[x].wallets
    BY <1>9 DEF UpdateInfoStmt, UsersInv, TypeOK, UserRow
  <2> QED
    BY <1>9, <2>1, RenameStep
<1>10. ASSUME NEW p \in Request, Commit(p) \/ CommitWithoutWallet(p) PROVE UsersInv' /\ Frame /\ Lost
  BY <1>10, CommitStep, CommitWithoutWalletStep
<1> HIDE DEF Lost
<1>11. UsersInv' /\ Frame /\ Lost
  <2>1. CASE \E u \in UserID, w \in WalletID : UpdateUserPrimaryWallet(u, w)
    BY <1>2, <2>1
  <2>2. CASE Next /\ ~\E u \in UserID, w \in WalletID : UpdateUserPrimaryWallet(u, w)
    <3>1. PICK p \in Request :
            \/ \E u \in UserID, a \in Address : AddWalletToUser(p, u, a) \/ AddWalletToUserUnchecked(p, u, a)
            \/ \E u \in UserID, ids \in SUBSET WalletID \ {{}} : RemoveWalletsFromUser(p, u, ids)
            \/ \E u \in UserID, n \in Username : UpdateUserInfo(p, u, n)
            \/ \E a \in Address, n \in Username : CreateUser(p, a, n)
            \/ \E n \in Username : CreateUserWithEmail(p, n)
            \/ GetWallet(p) \/ GetOwner(p) \/ GetNoOwner(p)
            \/ DeleteUserByID(p) \/ DeleteWalletByID(p) \/ InsertWallet(p) \/ InsertConflict(p)
            \/ \E w \in WalletID : RemoveWallet(p, w)
            \/ UpdateInfoStmt(p) \/ CheckUsername(p) \/ TxInsertWallet(p)
            \/ StartSession(p) \/ Commit(p) \/ CommitWithoutWallet(p) \/ CommitFails(p) \/ StatementFails(p)
      BY <2>2, Zenon DEF Next
    <3>2. CASE \E w \in WalletID : RemoveWallet(p, w)
      BY <1>8, <3>2
    <3> QED
      BY <1>3, <1>4, <1>5, <1>6, <1>7, <1>9, <1>10, <3>1, <3>2
  <2> QED
    BY <1>1, <2>1, <2>2 DEF Lost
<1> QED
  BY <1>11 DEF Lost

\* The invariant holds throughout.
LEMMA UsersInvariant == Spec => []UsersInv
<1>1. UsersInv /\ [Next]_vars => UsersInv'
  BY UsersStep
<1> QED
  BY UsersInit, <1>1, PTL DEF Spec

\* For any number of requests, users, wallets and addresses: a live user's primary
\* wallet is one of its wallets, however removals and changes of the primary wallet
\* interleave.
THEOREM PrimaryWalletOwned == Spec => [](TypeOK /\ PrimaryIsOwned)
<1>1. UsersInv => TypeOK /\ PrimaryIsOwned
  BY DEF UsersInv
<1> QED
  BY UsersInvariant, <1>1, PTL

\* A wallet that a live user lists is live and is on no other list, although
\* createWalletWithTx deletes what it read in an earlier statement.
THEOREM ListedWalletsStayLive == Spec => []ListedWalletsLive
<1>1. UsersInv => ListedWalletsLive
  BY DEF UsersInv
<1> QED
  BY UsersInvariant, <1>1, PTL

\* No request takes a wallet from a user who is not universal, except a removal by
\* that user.
THEOREM MembersKeepWallets == Spec => NotTakenOver
<1>1. UsersInv /\ [Next]_vars =>
        [\A u \in DOMAIN users : member(u) =>
            /\ ~users'[u].deleted
            /\ \A w \in users[u].wallets \ users'[u].wallets :
                  \E p \in Request : pc[p] = "remove" /\ local[p].user = u /\ w \in local[p].ids]_vars
  BY UsersStep DEF Frame
<1> QED
  BY UsersInvariant, <1>1, PTL DEF Spec, NotTakenOver

----------------------------------------------------------------------------
(* Keys of accounts                                                        *)

\* A message and the object that is filled from it: the fields that are set are the
\* ones sent, and the address of a full object, but for a public key, is folded.
MessageOK(m) ==
    /\ status[m] = "new" => obj[m] = Addresses!Zero
    /\ status[m] = "filling" => sent[m].route \in {"address", "pubKey"}
    /\ status[m] = "done" => obj[m].addressSet /\ obj[m].chainSet /\ sent[m].route # Addresses!None
    /\ status[m] \in {"filling", "done"} =>
         /\ obj[m].addressSet => obj[m].address.account = sent[m].address.account
         /\ obj[m].chainSet => obj[m].chain = Addresses!UnmarshalGQL(sent[m].name)
         /\ obj[m].addressSet /\ obj[m].chainSet /\ sent[m].route # "pubKey" => ~obj[m].address.mixed

\* The inductive invariant of ChainAddresses.
KeysInv == Addresses!TypeOK /\ \A m \in Message : MessageOK(m)

\* What is sent,
Sent == [route : {Addresses!None, "address", "pubKey", "row"}, address : Addresses!Addresses \cup {Addresses!ZeroAddress},
         name : Addresses!GQLNames]

\* the object it is unmarshalled into,
Object == [addressSet : BOOLEAN, chainSet : BOOLEAN, address : Addresses!Addresses \cup {Addresses!ZeroAddress},
           chain : Addresses!Chains]

\* and the addresses of both.
Anybody == Addresses!Addresses \cup {Addresses!ZeroAddress}

\* What folding does.
LEMMA FoldedAddress ==
    ASSUME NEW x, NEW b \in [account : {x}, mixed : BOOLEAN]
    PROVE  /\ Addresses!ToLower(b) = [account |-> x, mixed |-> FALSE]
           /\ ~b.mixed => b = [account |-> x, mixed |-> FALSE]
<1>1. ASSUME NEW r \in [account : {x}, mixed : BOOLEAN], ~r.mixed
      PROVE  r = [account |-> x, mixed |-> FALSE]
  <2>1. r = [account |-> r.account, mixed |-> r.mixed]
    OBVIOUS
  <2>2. r.mixed = FALSE /\ r.account = x
    BY <1>1
  <2> QED
    BY <2>1, <2>2
<1>2. Addresses!ToLower(b) \in [account : {x}, mixed : BOOLEAN] /\ ~Addresses!ToLower(b).mixed
  BY DEF Addresses!ToLower
<1> QED
  BY <1>1, <1>2

\* Folding keeps the account and the type.
LEMMA Folding ==
    ASSUME NEW a \in Anybody
    PROVE  Addresses!ToLower(a) \in Anybody /\ Addresses!ToLower(a).account = a.account /\ ~Addresses!ToLower(a).mixed
<1>1. CASE a \in Addresses!Addresses
  BY <1>1 DEF Addresses!ToLower, Addresses!Addresses, Anybody
<1>2. CASE a = Addresses!ZeroAddress
  <2>1. a \in [account : {Addresses!None}, mixed : BOOLEAN] /\ ~a.mixed
    BY <1>2 DEF Addresses!ZeroAddress
  <2>2. Addresses!ToLower(a) = a
    BY <2>1 DEF Addresses!ToLower
  <2> QED
    BY <2>1, <2>2
<1> QED
  BY <1>1, <1>2 DEF Anybody

\* Every chain that GraphQL names has one name, and reads back as it.
LEMMA ChainNames ==
    /\ \A n \in Addresses!GQLNames : Addresses!UnmarshalGQL(n) \in Addresses!Chains /\ Addresses!MarshalGQL(Addresses!UnmarshalGQL(n)) = n
    /\ \A n, k \in Addresses!GQLNames : Addresses!UnmarshalGQL(n) = Addresses!UnmarshalGQL(k) => n = k
<1> USE DEF Addresses!ChainETH, Addresses!ChainArbitrum, Addresses!ChainPolygon, Addresses!ChainOptimism, Addresses!ChainBase
<1>1. /\ Addresses!UnmarshalGQL("Ethereum") = 0 /\ Addresses!UnmarshalGQL("Arbitrum") = 1
      /\ Addresses!UnmarshalGQL("Polygon") = 2 /\ Addresses!UnmarshalGQL("Optimism") = 3
  BY DEF Addresses!UnmarshalGQL
<1>2. /\ Addresses!MarshalGQL(0) = "Ethereum" /\ Addresses!MarshalGQL(1) = "Arbitrum"
      /\ Addresses!MarshalGQL(2) = "Polygon" /\ Addresses!MarshalGQL(3) = "Optimism"
  BY DEF Addresses!MarshalGQL
<1>3. \A n \in Addresses!GQLNames : Addresses!UnmarshalGQL(n) \in Addresses!Chains
  BY <1>1 DEF Addresses!GQLNames, Addresses!Chains
<1>4. \A n \in Addresses!GQLNames : Addresses!MarshalGQL(Addresses!UnmarshalGQL(n)) = n
  BY <1>1, <1>2 DEF Addresses!GQLNames
<1> QED
  BY <1>3, <1>4

\* updateCasing leaves all fields but the address alone, whose account it keeps.
LEMMA Casing ==
    ASSUME NEW route, NEW o \in Object
    PROVE  LET f == Addresses!updateCasing(route, o)
           IN  /\ f \in Object /\ f.addressSet = o.addressSet /\ f.chainSet = o.chainSet /\ f.chain = o.chain
               /\ f.address.account = o.address.account /\ (route # "pubKey" => ~f.address.mixed)
<1>1. /\ o.address \in Anybody
  BY DEF Object, Anybody
<1>2. /\ Addresses!ToLower(o.address) \in Anybody /\ Addresses!ToLower(o.address).account = o.address.account
      /\ ~Addresses!ToLower(o.address).mixed
  BY <1>1, Folding
<1>3. route # "pubKey" => Addresses!IsFolded(route, o.chain)
  BY DEF Addresses!IsFolded, Addresses!L1Chain
<1> QED
  BY <1>2, <1>3 DEF Addresses!updateCasing, Object, Anybody

\* Messages that do not move stay right.
LEMMA MessageSteps ==
    ASSUME KeysInv, NEW m \in Message, sent' \in [Message -> Sent], obj' \in [Message -> Object],
           status' \in [Message -> {"new", "filling", "done", "refused"}],
           \A k \in Message \ {m} : sent'[k] = sent[k] /\ obj'[k] = obj[k] /\ status'[k] = status[k],
           MessageOK(m)'
    PROVE  KeysInv'
<1>1. Addresses!TypeOK'
  BY DEF Addresses!TypeOK, Sent, Object
<1>2. ASSUME NEW k \in Message \ {m} PROVE MessageOK(k)'
  BY DEF KeysInv, MessageOK
<1> QED
  BY <1>1, <1>2 DEF KeysInv

\* Every step of a message keeps the invariant.
LEMMA KeysStep ==
    ASSUME KeysInv, [Addresses!Next]_Addresses!vars
    PROVE  KeysInv'
<1>1. sent \in [Message -> Sent] /\ obj \in [Message -> Object]
      /\ status \in [Message -> {"new", "filling", "done", "refused"}]
  BY DEF KeysInv, Addresses!TypeOK, Sent, Object
<1>2. CASE UNCHANGED Addresses!vars
  BY <1>2 DEF Addresses!vars, KeysInv, Addresses!TypeOK, MessageOK
<1>3. ASSUME NEW m \in Message, NEW a \in Addresses!Addresses, NEW route \in {"address", "pubKey"},
             NEW name \in Addresses!GQLNames, Addresses!Send(m, route, a, name)
      PROVE  KeysInv'
  <2>1. [route |-> route, address |-> a, name |-> name] \in Sent
    BY DEF Sent
  <2>2. /\ sent' \in [Message -> Sent] /\ obj' = obj /\ status[m] = "new" /\ status'[m] = "filling"
        /\ status' \in [Message -> {"new", "filling", "done", "refused"}] /\ sent'[m].route = route
        /\ \A k \in Message \ {m} : sent'[k] = sent[k] /\ status'[k] = status[k]
    BY <1>1, <1>3, <2>1 DEF Addresses!Send
  <2>3. MessageOK(m)'
    BY <2>2 DEF KeysInv, MessageOK, Addresses!Zero
  <2> QED
    BY <1>1, <2>2, <2>3, MessageSteps
<1>4. ASSUME NEW m \in Message, status[m] = "filling", status' = [status EXCEPT ![m] = "refused"],
             UNCHANGED <<obj, sent>>
      PROVE  KeysInv'
  <2>1. /\ status' \in [Message -> {"new", "filling", "done", "refused"}] /\ status'[m] = "refused"
        /\ \A k \in Message \ {m} : status'[k] = status[k]
    BY <1>1, <1>4
  <2>2. MessageOK(m)'
    BY <2>1 DEF MessageOK
  <2> QED
    BY <1>1, <1>4, <2>1, <2>2, MessageSteps
<1>5. ASSUME NEW m \in Message, Addresses!Finish(m) PROVE KeysInv'
  <2>1. /\ status' \in [Message -> {"new", "filling", "done", "refused"}] /\ status'[m] = "done"
        /\ \A k \in Message \ {m} : status'[k] = status[k]
        /\ status[m] = "filling" /\ obj[m].addressSet /\ obj[m].chainSet /\ UNCHANGED <<sent, obj>>
    BY <1>1, <1>5 DEF Addresses!Finish
  <2>2. MessageOK(m)'
    BY <2>1 DEF KeysInv, MessageOK, Addresses!None
  <2> QED
    BY <1>1, <2>1, <2>2, MessageSteps
<1>6. ASSUME NEW m \in Message, status[m] = "filling", ~obj[m].addressSet,
             obj' = [obj EXCEPT ![m] = Addresses!GQLSetAddressFromResolver(sent[m].route, @, sent[m].address)],
             UNCHANGED <<sent, status>>
      PROVE  KeysInv'
  <2> DEFINE a == sent[m].address
             set == [obj[m] EXCEPT !.address = a, !.addressSet = TRUE]
             new == Addresses!GQLSetAddressFromResolver(sent[m].route, obj[m], a)
  <2>1. /\ set \in Object /\ set.address = a /\ set.addressSet /\ set.chainSet = obj[m].chainSet
        /\ set.chain = obj[m].chain
    <3>1. obj[m] \in Object /\ a \in Addresses!Addresses \cup {Addresses!ZeroAddress}
      BY <1>1 DEF Sent
    <3> QED
      BY <3>1 DEF Object
  <2>2. new = IF obj[m].chainSet THEN Addresses!updateCasing(sent[m].route, set) ELSE set
    BY DEF Addresses!GQLSetAddressFromResolver
  <2> HIDE DEF set, new
  <2>3. /\ new \in Object /\ new.addressSet /\ new.chainSet = obj[m].chainSet /\ new.chain = obj[m].chain
        /\ new.address.account = a.account
        /\ (new.chainSet /\ sent[m].route # "pubKey" => ~new.address.mixed)
    BY <2>1, <2>2, Casing
  <2>4. obj' \in [Message -> Object] /\ obj'[m] = new /\ \A k \in Message \ {m} : obj'[k] = obj[k]
    BY <1>1, <1>6, <2>3 DEF new
  <2>5. MessageOK(m)'
    BY <1>6, <2>3, <2>4 DEF KeysInv, MessageOK
  <2> QED
    BY <1>1, <1>6, <2>4, <2>5, MessageSteps
<1>7. ASSUME NEW m \in Message, status[m] = "filling", ~obj[m].chainSet,
             obj' = [obj EXCEPT ![m] = Addresses!GQLSetChainFromResolver(sent[m].route, @, Addresses!UnmarshalGQL(sent[m].name))],
             UNCHANGED <<sent, status>>
      PROVE  KeysInv'
  <2> DEFINE c == Addresses!UnmarshalGQL(sent[m].name)
             set == [obj[m] EXCEPT !.chain = c, !.chainSet = TRUE]
             new == Addresses!GQLSetChainFromResolver(sent[m].route, obj[m], c)
  <2>0. obj[m] \in Object /\ c \in Addresses!Chains
    BY <1>1, ChainNames DEF Sent
  <2> HIDE DEF c
  <2>1. /\ set \in Object /\ set.chain = c /\ set.chainSet /\ set.addressSet = obj[m].addressSet
        /\ set.address = obj[m].address
    BY <2>0 DEF Object
  <2>2. new = IF obj[m].addressSet THEN Addresses!updateCasing(sent[m].route, set) ELSE set
    BY DEF Addresses!GQLSetChainFromResolver
  <2> HIDE DEF set, new
  <2>3. /\ new \in Object /\ new.chainSet /\ new.addressSet = obj[m].addressSet /\ new.chain = c
        /\ new.address.account = obj[m].address.account
        /\ (new.addressSet /\ sent[m].route # "pubKey" => ~new.address.mixed)
    BY <2>1, <2>2, Casing
  <2>4. obj' \in [Message -> Object] /\ obj'[m] = new /\ \A k \in Message \ {m} : obj'[k] = obj[k]
    BY <1>1, <1>7, <2>3 DEF new, c
  <2>5. MessageOK(m)'
    BY <1>7, <2>3, <2>4 DEF KeysInv, MessageOK, c
  <2> QED
    BY <1>1, <1>7, <2>4, <2>5, MessageSteps
<1>8. ASSUME NEW m \in Message, NEW n \in Message, Addresses!ReadWallet(m, n) PROVE KeysInv'
  <2> DEFINE o == [addressSet |-> TRUE, chainSet |-> TRUE, address |-> obj[n].address, chain |-> obj[n].chain]
             new == Addresses!updateCasing("address", o)
             s == [sent[n] EXCEPT !.route = "row"]
  <2>0. status[n] = "done" /\ MessageOK(n)
    BY <1>8 DEF Addresses!ReadWallet, KeysInv
  <2>1. o \in Object /\ s \in Sent /\ s.route = "row" /\ s.address = sent[n].address /\ s.name = sent[n].name
    <3>1. obj[n] \in Object /\ sent[n] \in Sent
      BY <1>1
    <3> QED
      BY <3>1 DEF Object, Sent
  <2>2. o.addressSet /\ o.chainSet /\ o.chain = obj[n].chain /\ o.address = obj[n].address
    OBVIOUS
  <2> HIDE DEF o
  <2>3. /\ new \in Object /\ new.addressSet /\ new.chainSet /\ new.chain = obj[n].chain
        /\ new.address.account = obj[n].address.account /\ ~new.address.mixed
    BY <2>1, <2>2, Casing
  <2>4. obj' = [obj EXCEPT ![m] = new]
    BY <1>8 DEF Addresses!ReadWallet, Addresses!NewChainAddress, o
  <2> HIDE DEF new, s
  <2>5. /\ sent' = [sent EXCEPT ![m] = s] /\ status' = [status EXCEPT ![m] = "done"]
    BY <1>8 DEF Addresses!ReadWallet, s
  <2>6. /\ obj' \in [Message -> Object] /\ obj'[m] = new
        /\ sent' \in [Message -> Sent] /\ sent'[m] = s
        /\ status' \in [Message -> {"new", "filling", "done", "refused"}] /\ status'[m] = "done"
        /\ \A k \in Message \ {m} : sent'[k] = sent[k] /\ obj'[k] = obj[k] /\ status'[k] = status[k]
    BY <1>1, <2>1, <2>3, <2>4, <2>5
  <2>7. MessageOK(m)'
    BY <2>0, <2>1, <2>3, <2>6 DEF MessageOK, Addresses!None
  <2> QED
    BY <2>6, <2>7, MessageSteps
<1> QED
  BY <1>2, <1>3, <1>4, <1>5, <1>6, <1>7, <1>8 DEF Addresses!Next, Addresses!SetAddress, Addresses!SetChain

\* What a finished message is found under: its account, folded, on its chain.
LEMMA FinalKey ==
    ASSUME KeysInv, NEW m \in Message, status[m] = "done"
    PROVE  /\ Addresses!ToL1ChainAddress(Addresses!Final(m)) =
                [address |-> [account |-> sent[m].address.account, mixed |-> FALSE], l1Chain |-> 0]
           /\ Addresses!Final(m) = [addressSet |-> TRUE, chainSet |-> TRUE,
                               address |-> [account |-> sent[m].address.account, mixed |-> FALSE],
                               chain |-> Addresses!UnmarshalGQL(sent[m].name)]
<1> DEFINE a == [account |-> sent[m].address.account, mixed |-> FALSE]
           key == [addressSet |-> TRUE, chainSet |-> TRUE, address |-> a, chain |-> Addresses!UnmarshalGQL(sent[m].name)]
<1>1. /\ obj[m] \in Object /\ obj[m].addressSet /\ obj[m].chainSet /\ obj[m].address \in Anybody
      /\ obj[m].address.account = sent[m].address.account
      /\ obj[m].chain = Addresses!UnmarshalGQL(sent[m].name)
      /\ (sent[m].route # "pubKey" => ~obj[m].address.mixed)
  BY DEF KeysInv, Addresses!TypeOK, MessageOK, Object, Anybody
<1>2. obj[m].address \in [account : {sent[m].address.account}, mixed : BOOLEAN]
  <2>1. CASE obj[m].address \in Addresses!Addresses
    BY <1>1, <2>1 DEF Addresses!Addresses
  <2>2. CASE obj[m].address = Addresses!ZeroAddress
    BY <1>1, <2>2 DEF Addresses!ZeroAddress
  <2> QED
    BY <1>1, <2>1, <2>2 DEF Anybody
<1>3. /\ Addresses!ToLower(obj[m].address) = a
      /\ ~obj[m].address.mixed => obj[m].address = a
  BY <1>1, <1>2, FoldedAddress
<1>4. Addresses!Final(m) = key
  <2>1. CASE sent[m].route = "pubKey"
    <3> DEFINE o == [addressSet |-> TRUE, chainSet |-> TRUE, address |-> obj[m].address, chain |-> obj[m].chain]
    <3>1. Addresses!Final(m) = [o EXCEPT !.address = Addresses!ToLower(o.address)]
      BY <2>1 DEF Addresses!Final, Addresses!ToChainAddress, Addresses!NewChainAddress, Addresses!updateCasing, Addresses!IsFolded,
                  Addresses!L1Chain
    <3>2. Addresses!ToLower(o.address) = a
      BY <1>3
    <3> QED
      BY <1>1, <3>1, <3>2
  <2>2. CASE sent[m].route # "pubKey"
    <3>1. Addresses!Final(m) = obj[m]
      BY <2>2 DEF Addresses!Final, Addresses!ToChainAddress
    <3>2. obj[m].address = a
      BY <1>1, <1>3, <2>2
    <3> QED
      BY <1>1, <3>1, <3>2 DEF Object
  <2> QED
    BY <2>1, <2>2
<1>5. Addresses!ToLower(a) = a
  <2>1. a \in [account : {sent[m].address.account}, mixed : BOOLEAN]
    OBVIOUS
  <2> QED
    BY <2>1, FoldedAddress
<1>6. Addresses!ToL1ChainAddress(key) = [address |-> a, l1Chain |-> 0]
  BY <1>5 DEF Addresses!ToL1ChainAddress, Addresses!NewL1ChainAddress, Addresses!L1Chain, Addresses!ChainETH
<1> QED
  BY <1>4, <1>6

\* No message has been sent at first.
LEMMA KeysInit ==
    ASSUME Addresses!Init
    PROVE  KeysInv
<1>1. Addresses!Zero \in Object
  BY DEF Addresses!Zero, Object, Addresses!Chains, Addresses!ChainETH, Addresses!ChainBase
<1>2. [route |-> Addresses!None, address |-> Addresses!ZeroAddress, name |-> "Ethereum"] \in Sent
  BY DEF Sent, Addresses!GQLNames
<1>3. Addresses!TypeOK
  BY <1>1, <1>2 DEF Addresses!Init, Addresses!TypeOK, Object, Sent
<1> QED
  BY <1>3 DEF Addresses!Init, KeysInv, MessageOK

\* For any number of accounts and messages: messages about one account end with one
\* key, whatever their casing, the order of the resolvers and the way taken, and the
\* address that a login proved is found again for the wallet a mutation names.
THEOREM AccountsAreAlwaysFound == Addresses!Spec => []AccountsAreFound
<1>1. KeysInv => AccountsAreFound
  <2> SUFFICES ASSUME KeysInv PROVE Addresses!AccountsAreFound
    BY DEF AccountsAreFound
  <2>1. Addresses!SameAccountSameKey
    <3> SUFFICES ASSUME NEW m \in Message, NEW n \in Message, status[m] = "done", status[n] = "done"
                 PROVE  Addresses!ToL1ChainAddress(Addresses!Final(m)) = Addresses!ToL1ChainAddress(Addresses!Final(n))
                          <=> sent[m].address.account = sent[n].address.account
      BY DEF Addresses!SameAccountSameKey
    <3>1. Addresses!ToL1ChainAddress(Addresses!Final(m)) =
            [address |-> [account |-> sent[m].address.account, mixed |-> FALSE], l1Chain |-> 0]
      BY FinalKey
    <3>2. Addresses!ToL1ChainAddress(Addresses!Final(n)) =
            [address |-> [account |-> sent[n].address.account, mixed |-> FALSE], l1Chain |-> 0]
      BY FinalKey
    <3> DEFINE a == [account |-> sent[m].address.account, mixed |-> FALSE]
               b == [account |-> sent[n].address.account, mixed |-> FALSE]
    <3>3. a.account = sent[m].address.account /\ b.account = sent[n].address.account
      OBVIOUS
    <3>4. [address |-> a, l1Chain |-> 0].address = a /\ [address |-> b, l1Chain |-> 0].address = b
      OBVIOUS
    <3> QED
      BY <3>1, <3>2, <3>3, <3>4
  <2>2. Addresses!ProvedAddressIsFound
    <3> SUFFICES ASSUME NEW m \in Message, NEW n \in Message, status[m] = "done", status[n] = "done"
                 PROVE  Addresses!GetAuthenticatedAddress(Addresses!Final(m), Addresses!Final(n))
                          <=> /\ sent[m].address.account = sent[n].address.account
                              /\ sent[m].name = sent[n].name
      BY DEF Addresses!ProvedAddressIsFound
    <3>1. sent[m].name \in Addresses!GQLNames /\ sent[n].name \in Addresses!GQLNames
      BY DEF KeysInv, Addresses!TypeOK
    <3>2. Addresses!UnmarshalGQL(sent[m].name) = Addresses!UnmarshalGQL(sent[n].name) <=> sent[m].name = sent[n].name
      BY <3>1, ChainNames
    <3>3. Addresses!Final(m) = [addressSet |-> TRUE, chainSet |-> TRUE,
                           address |-> [account |-> sent[m].address.account, mixed |-> FALSE],
                           chain |-> Addresses!UnmarshalGQL(sent[m].name)]
      BY FinalKey
    <3>4. Addresses!Final(n) = [addressSet |-> TRUE, chainSet |-> TRUE,
                           address |-> [account |-> sent[n].address.account, mixed |-> FALSE],
                           chain |-> Addresses!UnmarshalGQL(sent[n].name)]
      BY FinalKey
    <3> DEFINE a == [account |-> sent[m].address.account, mixed |-> FALSE]
               b == [account |-> sent[n].address.account, mixed |-> FALSE]
    <3>5. a.account = sent[m].address.account /\ b.account = sent[n].address.account
      OBVIOUS
    <3>6. /\ Addresses!Final(m).address = a /\ Addresses!Final(m).chain = Addresses!UnmarshalGQL(sent[m].name)
          /\ Addresses!Final(n).address = b /\ Addresses!Final(n).chain = Addresses!UnmarshalGQL(sent[n].name)
      BY <3>3, <3>4
    <3>7. CASE Addresses!Final(m) = Addresses!Final(n)
      BY <3>2, <3>5, <3>6, <3>7 DEF Addresses!GetAuthenticatedAddress
    <3>8. CASE sent[m].address.account = sent[n].address.account /\ sent[m].name = sent[n].name
      BY <3>3, <3>4, <3>8 DEF Addresses!GetAuthenticatedAddress
    <3> QED
      BY <3>7, <3>8 DEF Addresses!GetAuthenticatedAddress
  <2>3. Addresses!ReadsBackItsChain
    BY ChainNames DEF Addresses!ReadsBackItsChain, KeysInv, Addresses!TypeOK, MessageOK
  <2> QED
    BY <2>1, <2>2, <2>3 DEF Addresses!AccountsAreFound, KeysInv
<1>2. Addresses!Init => KeysInv
  BY KeysInit
<1>3. KeysInv /\ [Addresses!Next]_Addresses!vars => KeysInv'
  BY KeysStep
<1> QED
  BY <1>1, <1>2, <1>3, PTL DEF Addresses!Spec

----------------------------------------------------------------------------
(* Migrations                                                              *)

\* A set of versions that is not empty has a largest one: N minus the largest is
\* the least of the numbers N - v, and the naturals are well-founded.
LEMMA LargestExists ==
    ASSUME NEW N \in Nat, NEW S \in SUBSET (1..N), S # {}
    PROVE  \E v \in S : \A w \in S : w <= v
<1> DEFINE T == {n \in Nat : \E v \in S : n = N - v}
           R == {ss \in Nat \X Nat : ss[1] < ss[2]}
<1>1. T \in SUBSET Nat /\ T # {}
  <2>1. PICK v \in S : TRUE
    OBVIOUS
  <2>2. N - v \in T
    BY <2>1
  <2> QED
    BY <2>2
<1>2. IsWellFoundedOn(R, Nat)
  BY NatLessThanWellFounded, Zenon DEF OpToRel
<1>3. PICK n \in T : \A m \in T : ~(<<m, n>> \in R)
  <2> HIDE DEF T, R
  <2> QED
    BY <1>1, <1>2, WFMin
<1>4. \A m \in T : n <= m
  <2> SUFFICES ASSUME NEW m \in T, m < n PROVE FALSE
    BY <1>1
  <2>1. <<m, n>> \in Nat \X Nat /\ <<m, n>>[1] < <<m, n>>[2]
    BY <1>1
  <2>2. <<m, n>> \in R
    BY <2>1
  <2> HIDE DEF R
  <2> QED
    BY <1>3, <2>2
<1>5. PICK v \in S : n = N - v
  OBVIOUS
<1>6. ASSUME NEW w \in S PROVE w <= v
  <2>1. N - w \in T
    OBVIOUS
  <2> QED
    BY <1>4, <1>5, <2>1
<1> QED
  BY <1>6

\* Whom a file is meant for.
role(v) == IF v \in super THEN "super" ELSE "splitfi"

\* The last file that has been applied.
applied == IF dirty THEN version - 1 ELSE version

\* The database: the files up to the version have been run by the roles they are
\* meant for, but for the last one if it has failed, and no others.
SchemaOK ==
    /\ super \in SUBSET Schema!Version
    /\ version \in 0..Latest /\ dirty \in BOOLEAN /\ (dirty => version > 0)
    /\ by = [v \in Schema!Version |-> IF v <= applied THEN role(v) ELSE "none"]

\* A process and its plan: unless the version is dirty, and the next call refused,
\* the files between the version and ver are of one sort, the one superStreak says.
PlanOK(p) ==
    /\ ~dirty =>
         /\ at[p] \in {"loop", "catchUp", "next", "load2"} => curVer[p] <= version /\ version < ver[p]
         /\ at[p] = "loop" => \A v \in (version + 1)..(ver[p] - 1) : v \in super <=> superStreak[p]
         /\ at[p] = "catchUp" =>
               superStreak[p] /\ ver[p] \in super /\ \A v \in (version + 1)..(ver[p] - 1) : v \notin super
         /\ at[p] = "next" => \A v \in (version + 1)..ver[p] : v \in super <=> superStreak[p]
         /\ at[p] = "load2" => version = ver[p] - 1 /\ ver[p] \notin super
         /\ at[p] \in {"up", "onlyUp"} => \A v \in super : v <= version
    /\ result[p] = "ok" => at[p] = "idle" /\ ~dirty /\ version = Latest

\* The types of a process's own variables.
ProcessType ==
    /\ curVer \in [Process -> Int] /\ ver \in [Process -> Int] /\ superStreak \in [Process -> BOOLEAN]
    /\ DOMAIN at = Process /\ DOMAIN result = Process

\* The inductive invariant of Migrations.
SchemaInv == SchemaOK /\ ProcessType /\ \A p \in Process : PlanOK(p)

\* No file with the sudo flag is beyond the last one.
LEMMA LastSuper ==
    ASSUME Schema!MigrationAssumption, SchemaOK
    PROVE  Schema!lastSuperVer \in Int /\ \A v \in super : v <= Schema!lastSuperVer
<1>1. CASE super = {}
  BY <1>1 DEF Schema!lastSuperVer
<1>2. CASE super # {}
  <2>1. \E v \in super : \A w \in super : w <= v
    BY <1>2, LargestExists DEF SchemaOK, Schema!Version, Schema!MigrationAssumption
  <2>2. Schema!lastSuperVer \in super /\ \A w \in super : w <= Schema!lastSuperVer
    BY <1>2, <2>1 DEF Schema!lastSuperVer
  <2> QED
    BY <2>2 DEF SchemaOK, Schema!Version
<1> QED
  BY <1>1, <1>2

\* A call of golang-migrate that goes up through files of the caller's sort, however
\* far it gets.
LEMMA Upwards ==
    ASSUME Schema!MigrationAssumption, SchemaOK, super' = super, NEW to, NEW who,
           ~dirty => to \in version..Latest /\ \A v \in (version + 1)..to : role(v) = who,
           Schema!GoesTo(to, who) \/ Schema!FailsOnTheWay(to, who) \/ Schema!Refused(to)
    PROVE  SchemaOK'
<1> USE DEF Schema!MigrationAssumption, Schema!Version
<1>1. CASE Schema!GoesTo(to, who)
  <2>1. ~dirty /\ ~dirty' /\ version' = to /\ version < to /\ to \in 0..Latest
    BY <1>1 DEF Schema!GoesTo, SchemaOK
  <2>2. by' = [v \in 1..Latest |-> IF v > version /\ v <= to THEN who ELSE by[v]]
    BY <1>1, <2>1 DEF Schema!GoesTo, Schema!Apply
  <2>3. by' = [v \in 1..Latest |-> IF v <= to THEN role(v) ELSE "none"]
    BY <2>1, <2>2 DEF SchemaOK, applied
  <2> QED
    BY <1>1, <2>1, <2>3 DEF SchemaOK, applied, role, Schema!GoesTo
<1>2. CASE Schema!FailsOnTheWay(to, who)
  <2>1. PICK f \in (version + 1)..to : version' = f /\ dirty' = TRUE /\ Schema!Apply(version, f - 1, who)
    BY <1>2 DEF Schema!FailsOnTheWay
  <2>2. ~dirty /\ f \in 1..Latest /\ f > version /\ version \in 0..Latest
    BY <1>2, <2>1 DEF Schema!FailsOnTheWay, SchemaOK
  <2>3. by' = [v \in 1..Latest |-> IF v > version /\ v <= f - 1 THEN who ELSE by[v]]
    BY <2>1 DEF Schema!Apply
  <2>4. by' = [v \in 1..Latest |-> IF v <= f - 1 THEN role(v) ELSE "none"]
    BY <2>1, <2>2, <2>3 DEF SchemaOK, applied
  <2> QED
    BY <2>1, <2>2, <2>4 DEF SchemaOK, applied, role
<1>3. CASE Schema!Refused(to)
  BY <1>3 DEF SchemaOK, applied, role, Schema!Refused, Schema!dbVars
<1> QED
  BY <1>1, <1>2, <1>3

\* A process that has returned has no plan.
LEMMA EndOK ==
    ASSUME ProcessType, NEW p \in Process, NEW r, Schema!End(p, r),
           r = "ok" => ~dirty' /\ version' = Latest
    PROVE  ProcessType' /\ PlanOK(p)'
<1>1. at'[p] = "idle" /\ result'[p] = r
  BY DEF ProcessType, Schema!End, Schema!Goto
<1>2. ProcessType'
  BY DEF ProcessType, Schema!End, Schema!Goto
<1> QED
  BY <1>1, <1>2 DEF PlanOK

\* A call of Migrate that goes up: the plan has to be right where it goes on.
LEMMA MigrateOK ==
    ASSUME Schema!MigrationAssumption, SchemaOK, ProcessType, super' = super,
           NEW p \in Process, PlanOK(p), NEW to, NEW who, NEW l, Schema!Migrate(p, who, to, l), at[p] # "idle",
           ~dirty => to \in version..Latest /\ \A v \in (version + 1)..to : role(v) = who
    PROVE  /\ SchemaOK' /\ ProcessType'
           /\ \/ PlanOK(p)'
              \/ /\ ~dirty /\ ~dirty' /\ version' = to /\ at'[p] = l
                 /\ UNCHANGED <<curVer, ver, superStreak>> /\ result'[p] # "ok"
<1>1. SchemaOK'
  BY Upwards DEF Schema!Migrate
<1>2. CASE Schema!End(p, "error")
  BY <1>1, <1>2, EndOK
<1>3. CASE Schema!GoesTo(to, who) /\ Schema!Goto(p, l) /\ UNCHANGED <<client, curVer, ver, superStreak, result>>
  <2>1. /\ ~dirty /\ version' = to /\ ~dirty' /\ at'[p] = l /\ ProcessType'
        /\ UNCHANGED <<curVer, ver, superStreak, result>>
    BY <1>3 DEF Schema!GoesTo, Schema!Goto, ProcessType
  <2>2. result'[p] # "ok"
    BY <2>1 DEF PlanOK
  <2> QED
    BY <1>1, <2>1, <2>2
<1> QED
  BY <1>2, <1>3 DEF Schema!Migrate

\* One step of the process that migrates.
LEMMA RunStep ==
    ASSUME Schema!MigrationAssumption, SchemaInv, NEW p \in Process, Schema!Start(p) \/ Schema!Run(p)
    PROVE  SchemaOK' /\ ProcessType' /\ PlanOK(p)'
<1>0. SchemaOK /\ ProcessType /\ PlanOK(p)
  BY DEF SchemaInv
<1>1. super' = super
  BY DEF Schema!Start, Schema!Run, Schema!LoadAndPlan, Schema!SameSort, Schema!BeginStreak, Schema!CatchUp,
         Schema!EndStreak, Schema!Reload, Schema!NextVersion, Schema!LastStreak, Schema!FinalUp, Schema!OnlyUp
<1>2. ASSUME UNCHANGED <<version, dirty, by>> PROVE SchemaOK'
  BY <1>0, <1>1, <1>2 DEF SchemaOK, applied, role
<1>3. /\ version \in 0..Latest /\ curVer[p] \in Int /\ ver[p] \in Int /\ superStreak[p] \in BOOLEAN
      /\ PlanOK(p) /\ super \in SUBSET (1..Latest) /\ Latest \in Nat
  BY <1>0 DEF SchemaOK, ProcessType, Schema!Version, Schema!MigrationAssumption
<1>4. CASE Schema!Start(p)
  <2>1. /\ UNCHANGED <<version, dirty, by, curVer, ver, superStreak>>
        /\ at'[p] = IF Schema!SuperUserRequired THEN "load" ELSE "onlyUp"
        /\ ProcessType' /\ result'[p] = "none"
    BY <1>0, <1>4 DEF Schema!Start, Schema!Goto, Schema!dbVars, ProcessType
  <2>2. at'[p] = "onlyUp" => \A v \in super : v <= version
    <3>1. PICK last \in Int : last = Schema!lastSuperVer /\ \A v \in super : v <= last
      BY <1>0, LastSuper
    <3>2. at'[p] = "onlyUp" => ~(version < last)
      BY <2>1, <3>1 DEF Schema!SuperUserRequired
    <3>3. version \in Int /\ \A v \in super : v \in Int
      BY <1>3
    <3> QED
      BY <3>1, <3>2, <3>3
  <2> QED
    BY <1>1, <1>2, <2>1, <2>2 DEF PlanOK
<1>5. CASE Schema!LoadAndPlan(p)
  <2>1. /\ UNCHANGED <<version, dirty, by, superStreak, result>> /\ at'[p] = "loop"
        /\ curVer'[p] = version /\ ver'[p] = version + 1 /\ ProcessType' /\ at[p] = "load"
    BY <1>0, <1>3, <1>5 DEF Schema!LoadAndPlan, Schema!Goto, Schema!dbVars, ProcessType, Schema!currentVersion
  <2> QED
    BY <1>1, <1>2, <1>3, <2>1 DEF PlanOK
<1>6. CASE Schema!SameSort(p)
  <2>1. /\ UNCHANGED <<version, dirty, by, superStreak, result, curVer, at>> /\ at[p] = "loop"
        /\ ver'[p] = ver[p] + 1 /\ ProcessType' /\ (superStreak[p] <=> ver[p] \in super)
    BY <1>0, <1>3, <1>6 DEF Schema!SameSort, Schema!dbVars, ProcessType
  <2>2. ~dirty => \A v \in (version + 1)..ver[p] : v \in super <=> superStreak[p]
    BY <1>0, <1>3, <2>1 DEF PlanOK
  <2> QED
    BY <1>1, <1>2, <1>3, <2>1, <2>2 DEF PlanOK
<1>7. CASE Schema!BeginStreak(p)
  <2>1. /\ UNCHANGED <<version, dirty, by, result, curVer, ver>> /\ at[p] = "loop"
        /\ ~superStreak[p] /\ ver[p] \in super /\ superStreak'[p] = TRUE /\ ProcessType'
        /\ at'[p] = IF ver[p] - 1 # curVer[p] THEN "catchUp" ELSE "next"
    BY <1>0, <1>3, <1>7 DEF Schema!BeginStreak, Schema!Goto, Schema!dbVars, ProcessType
  <2>2. ~dirty => curVer[p] <= version /\ version < ver[p]
                  /\ \A v \in (version + 1)..(ver[p] - 1) : v \notin super
    BY <1>0, <1>3, <2>1 DEF PlanOK
  <2> QED
    BY <1>1, <1>2, <1>3, <2>1, <2>2 DEF PlanOK
<1>8. CASE Schema!CatchUp(p)
  <2>1. CASE ~client[p]
    <3>1. Schema!End(p, "crash") /\ UNCHANGED <<version, dirty, by>>
      BY <1>8, <2>1 DEF Schema!CatchUp, Schema!dbVars
    <3> QED
      BY <1>0, <1>2, <3>1, EndOK
  <2>2. CASE client[p]
    <3>1. Schema!Migrate(p, "splitfi", ver[p] - 1, "next") /\ at[p] = "catchUp"
      BY <1>8, <2>2 DEF Schema!CatchUp
    <3>2. ~dirty => /\ ver[p] - 1 \in version..Latest /\ curVer[p] < ver[p] /\ curVer[p] <= version
                    /\ ver[p] \in super /\ superStreak[p]
                    /\ \A v \in (version + 1)..(ver[p] - 1) : role(v) = "splitfi"
      BY <1>0, <1>3, <3>1 DEF PlanOK, role
    <3>3. /\ SchemaOK' /\ ProcessType'
          /\ \/ PlanOK(p)'
             \/ /\ ~dirty /\ ~dirty' /\ version' = ver[p] - 1 /\ at'[p] = "next"
                /\ UNCHANGED <<curVer, ver, superStreak>> /\ result'[p] # "ok"
      BY <1>0, <1>1, <3>1, <3>2, MigrateOK
    <3> QED
      BY <1>1, <1>3, <3>2, <3>3 DEF PlanOK
  <2> QED
    BY <2>1, <2>2
<1>9. CASE Schema!EndStreak(p)
  <2>1. Schema!Migrate(p, "super", ver[p] - 1, "load2") /\ at[p] = "loop" /\ superStreak[p] /\ ver[p] \notin super
    BY <1>9 DEF Schema!EndStreak, Schema!streakEnd
  <2>2. ~dirty => /\ version < ver[p] /\ curVer[p] <= version
                  /\ \A v \in (version + 1)..(ver[p] - 1) : v \in super
    BY <1>0, <1>3, <2>1 DEF PlanOK
  <2>3. ~dirty => /\ ver[p] - 1 \in version..Latest
                  /\ \A v \in (version + 1)..(ver[p] - 1) : role(v) = "super"
    BY <1>0, <1>3, <2>2 DEF role
  <2>4. /\ SchemaOK' /\ ProcessType'
        /\ \/ PlanOK(p)'
           \/ /\ ~dirty /\ ~dirty' /\ version' = ver[p] - 1 /\ at'[p] = "load2"
              /\ UNCHANGED <<curVer, ver, superStreak>> /\ result'[p] # "ok"
    BY <1>0, <1>1, <2>1, <2>3, MigrateOK
  <2> QED
    BY <1>1, <1>3, <2>1, <2>2, <2>4 DEF PlanOK
<1>10. CASE Schema!Reload(p)
  <2>1. /\ UNCHANGED <<version, dirty, by, result, curVer, ver>> /\ at[p] = "load2"
        /\ superStreak'[p] = FALSE /\ ProcessType' /\ at'[p] = "next"
    BY <1>0, <1>3, <1>10 DEF Schema!Reload, Schema!Goto, Schema!dbVars, ProcessType
  <2> QED
    BY <1>1, <1>2, <1>3, <2>1 DEF PlanOK
<1>11. CASE Schema!NextVersion(p)
  <2>1. /\ UNCHANGED <<version, dirty, by, result, curVer, superStreak>> /\ at[p] = "next"
        /\ ver'[p] = ver[p] + 1 /\ ProcessType' /\ at'[p] = "loop"
    BY <1>0, <1>3, <1>11 DEF Schema!NextVersion, Schema!Goto, Schema!dbVars, ProcessType
  <2> QED
    BY <1>1, <1>2, <1>3, <2>1 DEF PlanOK
<1>12. CASE Schema!LastStreak(p)
  <2>0. at[p] = "loop" /\ \A v \in super : v < ver[p]
    <3>1. Schema!lastSuperVer \in Int /\ \A v \in super : v <= Schema!lastSuperVer
      BY <1>0, LastSuper
    <3>2. at[p] = "loop" /\ ver[p] > Schema!lastSuperVer
      BY <1>12 DEF Schema!LastStreak
    <3>3. PICK last \in Int : ver[p] > last /\ \A v \in super : v <= last
      BY <3>1, <3>2
    <3>4. \A v \in super : v \in Int
      BY <1>3
    <3> QED
      BY <1>3, <3>2, <3>3, <3>4
  <2>1. CASE ~superStreak[p]
    <3>1. /\ UNCHANGED <<version, dirty, by, curVer, ver, superStreak, result>>
          /\ at'[p] = "up" /\ ProcessType'
      BY <1>0, <1>12, <2>1 DEF Schema!LastStreak, Schema!Goto, Schema!dbVars, ProcessType
    <3>2. ~dirty => \A v \in super : v <= version
      <4> SUFFICES ASSUME ~dirty, NEW v \in super, ~(v <= version) PROVE FALSE
        OBVIOUS
      <4>1. v \in (version + 1)..(ver[p] - 1)
        BY <1>3, <2>0
      <4> QED
        BY <1>0, <2>0, <2>1, <4>1 DEF PlanOK
    <3> QED
      BY <1>1, <1>2, <1>3, <2>0, <3>1, <3>2 DEF PlanOK
  <2>2. CASE superStreak[p]
    <3>1. Schema!Migrate(p, "super", ver[p] - 1, "up")
      BY <1>12, <2>2 DEF Schema!LastStreak, Schema!streakEnd
    <3>2. ~dirty => /\ version < ver[p]
                    /\ \A v \in (version + 1)..(ver[p] - 1) : v \in super
      BY <1>0, <1>3, <2>0, <2>2 DEF PlanOK
    <3>3. ~dirty => /\ ver[p] - 1 \in version..Latest
                    /\ \A v \in (version + 1)..(ver[p] - 1) : role(v) = "super"
      BY <1>0, <1>3, <3>2 DEF role
    <3>4. /\ SchemaOK' /\ ProcessType'
          /\ \/ PlanOK(p)'
             \/ /\ ~dirty /\ ~dirty' /\ version' = ver[p] - 1 /\ at'[p] = "up"
                /\ UNCHANGED <<curVer, ver, superStreak>> /\ result'[p] # "ok"
      BY <1>0, <1>1, <2>0, <3>1, <3>3, MigrateOK
    <3> QED
      BY <1>1, <1>3, <2>0, <3>4 DEF PlanOK
  <2> QED
    BY <2>1, <2>2
<1>13. CASE Schema!FinalUp(p) \/ Schema!OnlyUp(p)
  <2>1. ~dirty => Latest \in version..Latest /\ \A v \in (version + 1)..Latest : role(v) = "splitfi"
    BY <1>0, <1>3, <1>13 DEF PlanOK, role, Schema!FinalUp, Schema!OnlyUp
  <2>2. \/ UNCHANGED <<version, dirty, by>>
        \/ Schema!GoesTo(Latest, "splitfi") \/ Schema!FailsOnTheWay(Latest, "splitfi") \/ Schema!Refused(Latest)
    BY <1>13 DEF Schema!FinalUp, Schema!OnlyUp, Schema!dbVars
  <2>3. SchemaOK'
    BY <1>0, <1>1, <1>2, <2>1, <2>2, Upwards
  <2>4. PICK r : Schema!End(p, r) /\ (r = "ok" => ~dirty' /\ version' = Latest)
    BY <1>13 DEF Schema!FinalUp, Schema!OnlyUp, Schema!GoesTo, Schema!Refused, Schema!dbVars
  <2> QED
    BY <1>0, <2>3, <2>4, EndOK
<1> QED
  BY <1>4, <1>5, <1>6, <1>7, <1>8, <1>9, <1>10, <1>11, <1>12, <1>13 DEF Schema!Run

\* At most one process migrates at a time: the code takes no lock over a whole run.
OneProcess == \A p, q \in Process : p = q

\* Every step of the one process, and a repair by hand, keeps the invariant.
LEMMA SchemaStep ==
    ASSUME Schema!MigrationAssumption, OneProcess, SchemaInv, [Schema!Next]_Schema!vars
    PROVE  SchemaInv'
<1>1. CASE UNCHANGED Schema!vars
  BY <1>1 DEF Schema!vars, Schema!dbVars, SchemaInv, SchemaOK, PlanOK, ProcessType, applied, role
<1>2. CASE Schema!Repair
  <2>1. /\ UNCHANGED <<super, by, at, curVer, ver, superStreak, result>>
        /\ dirty /\ ~dirty' /\ version' = version - 1 /\ dirty' \in BOOLEAN /\ \A p \in Process : at[p] = "idle"
    BY <1>2 DEF Schema!Repair
  <2>2. SchemaOK'
    BY <2>1 DEF SchemaInv, SchemaOK, applied, role, Schema!MigrationAssumption
  <2> QED
    BY <2>1, <2>2 DEF SchemaInv, PlanOK, ProcessType
<1>3. CASE \E p \in Process : Schema!Start(p) \/ Schema!Run(p)
  <2>1. PICK p \in Process : Schema!Start(p) \/ Schema!Run(p)
    BY <1>3
  <2>2. SchemaOK' /\ ProcessType' /\ PlanOK(p)'
    BY <2>1, RunStep
  <2>3. \A q \in Process : q = p
    BY DEF OneProcess
  <2> QED
    BY <2>2, <2>3 DEF SchemaInv
<1> QED
  BY <1>1, <1>2, <1>3 DEF Schema!Next

\* It holds of an empty database.
LEMMA SchemaInit ==
    ASSUME Schema!MigrationAssumption, Schema!Init
    PROVE  SchemaInv
<1>1. SchemaOK
  <2>1. /\ super \in SUBSET (1..Latest) /\ version = 0 /\ dirty = FALSE /\ by = [v \in 1..Latest |-> "none"]
        /\ Latest \in Nat
    BY DEF Schema!MigrationAssumption, Schema!Init, Schema!Version
  <2>2. by = [v \in 1..Latest |-> IF v <= 0 THEN role(v) ELSE "none"]
    BY <2>1
  <2>3. applied = 0 /\ version \in 0..Latest
    BY <2>1 DEF applied
  <2> QED
    BY <2>1, <2>2, <2>3 DEF SchemaOK, Schema!Version
<1>2. ProcessType /\ \A p \in Process : PlanOK(p)
  BY DEF Schema!Init, ProcessType, PlanOK
<1> QED
  BY <1>1, <1>2 DEF SchemaInv

\* For any number of migration files, any choice of sudo flags and any number of
\* runs and failures: every file is run by the role it is meant for, and a run that
\* reports success has left nothing to do.
THEOREM MigrationsAreComplete ==
    ASSUME Schema!MigrationAssumption, OneProcess
    PROVE  Schema!Spec => []MigrationsComplete
<1>1. Schema!Init => SchemaInv
  BY SchemaInit
<1>2. SchemaInv /\ [Schema!Next]_Schema!vars => SchemaInv'
  BY SchemaStep
<1>3. SchemaInv => MigrationsComplete
  <2> SUFFICES ASSUME SchemaInv PROVE Schema!MigrationsComplete
    BY DEF MigrationsComplete
  <2>1. Schema!RunByRightRole
    BY DEF SchemaInv, SchemaOK, role, Schema!RunByRightRole
  <2>2. Schema!SuccessIsComplete
    BY DEF SchemaInv, SchemaOK, PlanOK, role, applied, Schema!SuccessIsComplete, Schema!Version
  <2> QED
    BY <2>1, <2>2 DEF Schema!MigrationsComplete
<1> QED
  BY <1>1, <1>2, <1>3, PTL DEF Schema!Spec
=============================================================================
