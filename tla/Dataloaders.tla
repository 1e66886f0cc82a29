---------------------------- MODULE Dataloaders -----------------------------
(***************************************************************************)
(* The dataloaders of one GraphQL request (graphql/dataloader).  Every     *)
(* loader is a batcher with a cache of its own; NewLoaders subscribes      *)
(* loaders to the results of others, so that a row found by one key is     *)
(* primed under the keys by which other loaders would look it up.          *)
(*                                                                         *)
(* Module Batcher shows that a call gets a result that was fetched for its *)
(* own parameter after the call began.  Here a call that misses the cache  *)
(* therefore runs its statement by itself, and what is modelled in detail  *)
(* is what the loaders do to each other's caches while other requests      *)
(* write to the tables.  The loaders of notifications are left out: they   *)
(* have the shape of the loaders of wallets.                               *)
(***************************************************************************)
EXTENDS Naturals, FiniteSets

CONSTANTS
    Calls,        \* calls of Load by the resolvers of the request
    Users,        \* ids of users
    Wallets,      \* ids of wallets; an id also stands for the address
    Splits,       \* ids of splits; an id also stands for chain and address
    Names,        \* usernames in some casing
    NoName,       \* the empty username: the column is null
    Lower,        \* [Names -> Names], lower() of the database
    Tables0,      \* the tables when the request begins
    MaxWrites     \* bound on the writes of other requests

LowerAssumption ==
    /\ NoName \notin Names
    /\ Lower \in [Names -> Names]
    /\ \A n \in Names : Lower[Lower[n]] = Lower[n]

VARIABLES
    db,       \* the tables: users, wallets and splits with their recipients
    past,     \* all values of db since the request began
    cache,    \* [Loader -> [keys -> answers]], the resultCaches
    call      \* [Calls -> what the call does and where it is]

vars == <<db, past, cache, call>>

UserRow == [id : Users, username : Names \cup {NoName},
            wallets : SUBSET Wallets, universal : BOOLEAN, deleted : BOOLEAN]
WalletRow == [id : Wallets, deleted : BOOLEAN]
SplitRow == [id : Splits, edited : BOOLEAN, recipients : SUBSET Wallets]

Tables == [users : SUBSET UserRow, wallets : SUBSET WalletRow, splits : SUBSET SplitRow]
TablesAssumption == Tables0 \in Tables

Single == {"GetUserById", "GetUserByUsername", "GetUserByAddressAndL1",
           "GetWalletByID", "GetSplitById", "GetSplitByChainAddress"}
Many == {"GetUsersByPosition", "GetWalletsByUserID", "GetSplitsByUserID"}
Loader == Single \cup Many

\* The table whose rows a loader returns.
RowOf(l) ==
    CASE l \in {"GetWalletByID", "GetWalletsByUserID"} -> WalletRow
      [] l \in {"GetSplitById", "GetSplitByChainAddress", "GetSplitsByUserID"} -> SplitRow
      [] OTHER -> UserRow

\* The list of ids a page of users is asked for.
AllUsers == "all"

\* Mutant: the empty username may be asked for.
Keys_NoValidation(l) ==
    CASE l \in {"GetUserById", "GetWalletsByUserID", "GetSplitsByUserID"} -> Users
      [] l \in {"GetSplitById", "GetSplitByChainAddress"} -> Splits
      [] l = "GetUserByUsername"                          -> Names \cup {NoName}
      [] l \in {"GetUserByAddressAndL1", "GetWalletByID"} -> Wallets
      [] l = "GetUsersByPosition"                         -> {AllUsers}

\* Keys that callers may pass: the API validates that a username is not empty.
Keys(l) ==
    CASE l \in {"GetUserById", "GetWalletsByUserID", "GetSplitsByUserID"} -> Users
      [] l \in {"GetSplitById", "GetSplitByChainAddress"} -> Splits
      [] l = "GetUserByUsername"                          -> Names
      [] l \in {"GetUserByAddressAndL1", "GetWalletByID"} -> Wallets
      [] l = "GetUsersByPosition"                         -> {AllUsers}

(***************************************************************************)
(* The statements: the rows that each of them selects.                     *)
(***************************************************************************)
LiveUsers(d) == {u \in d.users : ~u.deleted}
LiveWallets(d) == {w \in d.wallets : ~w.deleted}

GetUserById(d, k) == {u \in LiveUsers(d) : u.id = k}

GetUserByUsername(d, k) ==
    {u \in LiveUsers(d) : /\ u.username # NoName /\ k # NoName
                          /\ Lower[u.username] = Lower[k]}

GetUserByAddressAndL1(d, k) ==
    {u \in LiveUsers(d) : k \in u.wallets /\ \E w \in LiveWallets(d) : w.id = k}

GetUsersByPosition(d) == {u \in LiveUsers(d) : ~u.universal}

GetWalletByID(d, k) == {w \in LiveWallets(d) : w.id = k}

GetWalletsByUserID(d, k) ==
    {w \in LiveWallets(d) : \E u \in LiveUsers(d) : u.id = k /\ w.id \in u.wallets}

GetSplitById(d, k) == {s \in d.splits : s.id = k}

\* (address, chain) is a unique index, so this is the same row.
GetSplitByChainAddress(d, k) == {s \in d.splits : s.id = k}

GetSplitsByUserID(d, k) ==
    {s \in d.splits : \E w \in GetWalletsByUserID(d, k) : w.id \in s.recipients}

Selected(d, l, k) ==
    CASE l = "GetUserById"            -> GetUserById(d, k)
      [] l = "GetUserByUsername"      -> GetUserByUsername(d, k)
      [] l = "GetUserByAddressAndL1"  -> GetUserByAddressAndL1(d, k)
      [] l = "GetUsersByPosition"     -> GetUsersByPosition(d)
      [] l = "GetWalletByID"          -> GetWalletByID(d, k)
      [] l = "GetWalletsByUserID"     -> GetWalletsByUserID(d, k)
      [] l = "GetSplitById"           -> GetSplitById(d, k)
      [] l = "GetSplitByChainAddress" -> GetSplitByChainAddress(d, k)
      [] l = "GetSplitsByUserID"      -> GetSplitsByUserID(d, k)

\* What a loader can get: a list, or the one row that QueryRow scans.  No index
\* makes usernames unique, so there may be several to take it from; without any
\* it is an error.
Answers(d, l, k) ==
    IF l \in Single THEN {{row} : row \in Selected(d, l, k)} ELSE {Selected(d, l, k)}

(***************************************************************************)
(* NewLoaders: who is subscribed to whose results, and under which key a   *)
(* row is primed (getKeyForResult).                                        *)
(***************************************************************************)
Subscribers(l) ==
    CASE l = "GetUserByAddressAndL1" -> {"GetUserById", "GetUserByUsername"}
      [] l = "GetUsersByPosition"    -> {"GetUserById", "GetUserByUsername"}
      [] l = "GetUserByUsername"     -> {"GetUserById"}
      [] l = "GetUserById"           -> {"GetUserByUsername"}
      [] l = "GetWalletsByUserID"    -> {"GetWalletByID"}
      [] l \in {"GetSplitByChainAddress", "GetSplitsByUserID"} -> {"GetSplitById"}
      [] l \in {"GetWalletByID", "GetSplitById"}                -> {}

getKeyForResult(l, row) == IF l = "GetUserByUsername" THEN row.username ELSE row.id

\* Prime and the cache of the caller: an entry that is there stays.
LoadOrStore_Overwrite(c, k, v) ==
    [x \in DOMAIN c \cup {k} |-> IF x = k THEN v ELSE c[x]]

LoadOrStore(c, k, v) ==
    [x \in DOMAIN c \cup {k} |-> IF x \in DOMAIN c THEN c[x] ELSE v]

-----------------------------------------------------------------------------
\* A call: its loader and key, where it is, what it has, what is still to be
\* primed, and the answers that calls for the same key had returned when it
\* began.
NewCall == [pc |-> "new", loader |-> "GetUserById", key |-> NoName,
            answer |-> {}, err |-> FALSE, hit |-> FALSE, todo |-> {},
            known |-> {}]

AnyKey == {NoName} \cup UNION {Keys(l) : l \in Loader}

TypeOK ==
    /\ db \in past
    /\ \A d \in past : /\ d.users \subseteq UserRow
                        /\ d.wallets \subseteq WalletRow
                        /\ d.splits \subseteq SplitRow
    /\ \A l \in Loader :
         /\ DOMAIN cache[l] \subseteq Keys(l) \cup {NoName}
         /\ \A k \in DOMAIN cache[l] :
               /\ cache[l][k] \subseteq RowOf(l)
               /\ l \in Single => Cardinality(cache[l][k]) = 1
    /\ \A c \in Calls :
         /\ call[c].pc \in {"new", "query", "publish", "done"}
         /\ call[c].loader \in Loader
         /\ call[c].key \in AnyKey
         /\ call[c].err \in BOOLEAN /\ call[c].hit \in BOOLEAN

Init ==
    /\ db = Tables0
    /\ past = {Tables0}
    /\ cache = [l \in Loader |-> [k \in {} |-> {}]]
    /\ call = [c \in Calls |-> NewCall]

\* What finished calls returned for a key.
Returned(l, k) == {call[c].answer : c \in {x \in Calls :
    call[x].pc = "done" /\ call[x].loader = l /\ call[x].key = k /\ ~call[x].err}}

\* Load: a cached answer is returned at once.
Load(c, l, k) ==
    /\ call[c].pc = "new"
    /\ LET hit == k \in DOMAIN cache[l]
       IN  call' = [call EXCEPT ![c] =
               [NewCall EXCEPT !.loader = l, !.key = k, !.known = Returned(l, k),
                               !.hit = hit,
                               !.pc = IF hit THEN "done" ELSE "query",
                               !.answer = IF hit THEN cache[l][k] ELSE {}]]
    /\ UNCHANGED <<db, past, cache>>

\* The statement of the call ran.  No row for a single-row statement is the
\* loader's not-found error, which is neither published nor cached.
Query(c) ==
    /\ call[c].pc = "query"
    /\ LET l == call[c].loader
           found == Answers(db, l, call[c].key)
       IN  \/ \E rows \in found :
                 call' = [call EXCEPT ![c].answer = rows, ![c].pc = "publish",
                                      ![c].todo = Subscribers(l) \X rows]
           \/ found = {} /\ call' = [call EXCEPT ![c].err = TRUE, ![c].pc = "done"]
    /\ UNCHANGED <<db, past, cache>>

\* The statement failed.
QueryFails(c) ==
    /\ call[c].pc = "query"
    /\ call' = [call EXCEPT ![c].err = TRUE, ![c].pc = "done"]
    /\ UNCHANGED <<db, past, cache>>

\* publishToSubscribers: one subscriber primes one row.
Prime(c) ==
    /\ call[c].pc = "publish"
    /\ \E t \in call[c].todo :
        /\ cache' = [cache EXCEPT ![t[1]] =
               LoadOrStore(@, getKeyForResult(t[1], t[2]), {t[2]})]
        /\ call' = [call EXCEPT ![c].todo = @ \ {t}]
    /\ UNCHANGED <<db, past>>

\* The thunk of the call: only after all subscribers have been called is the
\* done channel of the batch closed.
Return(c) ==
    /\ call[c].pc = "publish"
    /\ call[c].todo = {}
    /\ cache' = [cache EXCEPT ![call[c].loader] =
           LoadOrStore(@, call[c].key, call[c].answer)]
    /\ call' = [call EXCEPT ![c].pc = "done"]
    /\ UNCHANGED <<db, past>>

(***************************************************************************)
(* Other requests: a user takes another name, is deleted, or loses a       *)
(* wallet, or a split gets another name.                                   *)
(***************************************************************************)
Write(d) ==
    /\ d # db
    /\ Cardinality(past) =< MaxWrites
    /\ db' = d
    /\ past' = past \cup {d}
    /\ UNCHANGED <<cache, call>>

ReplaceUser(u, new) == [db EXCEPT !.users = (@ \ {u}) \cup {new}]

\* UpdateByID asks whether the name is free before it writes: by then another
\* user may have it.
UpdateUsername(u, n) == Write(ReplaceUser(u, [u EXCEPT !.username = n]))

DeleteUser(u) == Write(ReplaceUser(u, [u EXCEPT !.deleted = TRUE]))

RemoveWallet(w) ==
    Write([db EXCEPT !.users = {[u EXCEPT !.wallets = u.wallets \ {w.id}] : u \in db.users},
                     !.wallets = (@ \ {w}) \cup {[w EXCEPT !.deleted = TRUE]}])

UpdateSplitInfo(s) ==
    Write([db EXCEPT !.splits = (@ \ {s}) \cup {[s EXCEPT !.edited = TRUE]}])

Next ==
    \/ \E c \in Calls :
        \/ \E l \in Loader : \E k \in Keys(l) : Load(c, l, k)
        \/ Query(c)
        \/ QueryFails(c)
        \/ Prime(c)
        \/ Return(c)
    \/ \E u \in LiveUsers(db) :
        \/ \E n \in Names : UpdateUsername(u, n)
        \/ DeleteUser(u)
    \/ \E w \in LiveWallets(db) : RemoveWallet(w)
    \/ \E s \in db.splits : UpdateSplitInfo(s)

Spec == Init /\ [][Next]_vars

-----------------------------------------------------------------------------
(***************************************************************************)
(* Whatever way a row came into a cache, a call returns what its own       *)
(* statement would have answered at some moment of the request: a row      *)
(* primed by another loader is never one that the filters, the key or the  *)
(* casing rules of this loader's statement exclude.                        *)
(***************************************************************************)
AnswersWereTrue ==
    \A c \in Calls :
        call[c].pc = "done" /\ ~call[c].err =>
            \E d \in past : call[c].answer \in Answers(d, call[c].loader, call[c].key)

(***************************************************************************)
(* An answer that a call got from a cache is what every later call for the *)
(* key gets, however many loaders race to prime the key with rows that     *)
(* were read before and after another request's write.                     *)
(***************************************************************************)
HitsStayCached ==
    \A c \in Calls :
        call[c].pc = "done" /\ call[c].hit =>
            /\ call[c].key \in DOMAIN cache[call[c].loader]
            /\ cache[call[c].loader][call[c].key] = call[c].answer

(***************************************************************************)
(* What NewBatcher says of a caching batcher: results "will be cached and  *)
(* returned for subsequent calls with the same parameter".  A call that    *)
(* begins when calls for its key have returned gets the answer of one of   *)
(* them.                                                                   *)
(***************************************************************************)
RepeatableRead ==
    \A c \in Calls :
        call[c].pc = "done" /\ call[c].known # {} =>
            ~call[c].err /\ call[c].answer \in call[c].known

(***************************************************************************)
(* When a call that ran its statement returns a row, every loader that is  *)
(* subscribed to its loader has a row for that key in its cache already:   *)
(* resolvers of the row's fields that load by the key do not query again.  *)
(* (A call that found a primed row may return before its row is everywhere:*)
(* Prime does not publish.)                                                *)
(***************************************************************************)
PrimedBeforeReturn ==
    \A c \in Calls : call[c].pc = "done" /\ ~call[c].err /\ ~call[c].hit =>
        \A l \in Subscribers(call[c].loader), row \in call[c].answer :
            getKeyForResult(l, row) \in DOMAIN cache[l]
=============================================================================
