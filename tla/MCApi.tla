------------------------------- MODULE MCApi --------------------------------
(***************************************************************************)
(* What a GraphQL request reads: pages of lists and the cursors between    *)
(* them, the dataloaders and PublicAPIs its resolvers share, and the data  *)
(* of URIs.  The models do not interact; part says which of them a         *)
(* behaviour follows, and the variables of the others do not change.       *)
(***************************************************************************)
EXTENDS PageWalk, Integers, TLC

CONSTANTS
    Resolver,                                       \* SharedPage
    Base, Bytes, Ints, Ids, MaxIds,                 \* Cursor
    MaxField, MaxId,                                \* KeysetWindow
    Calls, Users, Wallets, Splits, Names, NoName,   \* Dataloaders
    Lower, Tables0, MaxWrites,
    Field, MaxMutations, MaxVersion,                \* MutationCaching
    Gateway, RecurseRawReturns                      \* UriReader

VARIABLES
    part,
    table, reply, loaded, resolver,
    packed, buffer, packing, into,
    keyKind, keyRow, before, after, seen,
    db, past, cache, call,
    version, own, loaders, cells, api, m, pc, read, child, value, known,
    kind, again, ctx, caller, answer, worker, reader, race, raceCtx, run, waiter, failed

pageVars == <<vars, table, reply, loaded, resolver>>
cursorVars == <<packed, buffer, packing, into>>
windowVars == <<keyKind, keyRow, before, after, seen>>
loaderVars == <<db, past, cache, call>>
cachingVars == <<version, own, loaders, cells, api, m, pc, read, child, value, known>>
uriVars == <<kind, again, ctx, caller, answer, worker, reader, race, raceCtx, run, waiter, failed>>
allVars == <<part, pageVars, cursorVars, windowVars, loaderVars, cachingVars, uriVars>>

One == INSTANCE PageRequest WITH rows <- table, answer <- reply
Shared == INSTANCE SharedPage WITH rows <- table
Packing == INSTANCE Cursor WITH cursor <- packed, stage <- packing
Window == INSTANCE KeysetWindow WITH kind <- keyKind, row <- keyRow
Loading == INSTANCE Dataloaders
Mutations == INSTANCE MutationCaching WITH db <- version
Uri == INSTANCE UriReader

ASSUME /\ PaginationAssumption /\ SizesFit
       /\ Packing!CursorAssumption /\ Window!KeysetWindowAssumption
       /\ Loading!LowerAssumption /\ Loading!TablesAssumption
       /\ Mutations!CachingAssumption /\ Uri!UriAssumption

MCInit ==
    /\ part \in {"walk", "request", "shared", "packing", "window", "loading", "mutations", "uri"}
    /\ Init /\ (part # "walk" => rows = {} /\ walk.forward /\ walk.size = 1)
    /\ One!Init /\ (part \notin {"request", "shared"} => table = {})
    /\ Shared!Init
    /\ part # "shared" => \A x \in Resolver : resolver[x].params.first = 1
    /\ Packing!Init /\ (part # "packing" => packed.kind = "timeID")
    /\ Window!Init /\ (part # "window" => keyKind = "position" /\ keyRow = <<0>>)
    /\ Loading!Init /\ Mutations!Init
    /\ Uri!Init /\ (part # "uri" => kind = "ipfs")

MCNext ==
    /\ UNCHANGED part
    /\ \/ /\ part = "walk" /\ Next /\ UNCHANGED <<table, reply, loaded, resolver>>
          /\ UNCHANGED <<cursorVars, windowVars, loaderVars, cachingVars, uriVars>>
       \/ /\ part = "request" /\ One!Next /\ UNCHANGED <<vars, loaded, resolver>>
          /\ UNCHANGED <<cursorVars, windowVars, loaderVars, cachingVars, uriVars>>
       \/ /\ part = "shared" /\ Shared!Next /\ UNCHANGED <<vars, reply>>
          /\ UNCHANGED <<cursorVars, windowVars, loaderVars, cachingVars, uriVars>>
       \/ /\ part = "packing" /\ Packing!Next
          /\ UNCHANGED <<pageVars, windowVars, loaderVars, cachingVars, uriVars>>
       \/ /\ part = "window" /\ Window!Next
          /\ UNCHANGED <<pageVars, cursorVars, loaderVars, cachingVars, uriVars>>
       \/ /\ part = "loading" /\ Loading!Next
          /\ UNCHANGED <<pageVars, cursorVars, windowVars, cachingVars, uriVars>>
       \/ /\ part = "mutations" /\ Mutations!Next
          /\ UNCHANGED <<pageVars, cursorVars, windowVars, loaderVars, uriVars>>
       \/ /\ part = "uri" /\ Uri!Next
          /\ UNCHANGED <<pageVars, cursorVars, windowVars, loaderVars, cachingVars>>

MCSpec == MCInit /\ [][MCNext]_allVars

\* Calls of one request are interchangeable.
Symmetry == Permutations(Calls)

\* The strings of at most two bytes over S.
UpToTwo(S) == UNION {[1..n -> S] : n \in 0..2}
MCBytes == UpToTwo(0..3)
MCIds == UpToTwo({0, 1, 3})
MCInts == -5..5

\* One name has an upper case letter.
MCLower == "Bob" :> "bob" @@ "bob" :> "bob" @@ "eve" :> "eve"

\* A user with a wallet and a split, and a universal user, who has no username.
MCTables ==
    [users |-> {[id |-> "u1", username |-> "Bob", wallets |-> {"w1"},
                 universal |-> FALSE, deleted |-> FALSE],
                [id |-> "u2", username |-> "", wallets |-> {},
                 universal |-> TRUE, deleted |-> FALSE]},
     wallets |-> {[id |-> "w1", deleted |-> FALSE]},
     splits |-> {[id |-> "s1", edited |-> FALSE, recipients |-> {"w1"}]}]

----------------------------------------------------------------------------
\* Every request gets the page the Relay specification asks for, and is told that
\* there is more in its direction exactly when there is; a resolver that reads
\* forward gets it also when it shares the loader's slice with others.
PageIsRight == One!PageIsRight /\ Shared!ForwardIsRight

\* A cursor of every kind comes back as the values it was packed from, unless it
\* ends with an empty id, which is refused.
RoundTrip == Packing!RoundTrip

\* A query sees exactly the rows between the cursors, for every kind of key and in
\* both orders, and a missing cursor takes nothing away.
WindowIsExact == Window!WindowIsExact

\* Whatever a loader answers was in the tables at some time since the request
\* began, under the key that was asked for, although other loaders primed it.
AnswersWereTrue == Loading!TypeOK /\ Loading!AnswersWereTrue

\* A result that the loader gave stays in its cache and is never replaced, and it
\* is in the caches of the loaders that subscribed before the call returns.
HitsStayCached == Loading!HitsStayCached /\ Loading!PrimedBeforeReturn

\* A mutation and the fields below it never read rows older than the writes of
\* their request, and the fields share what one of them has read.
ReadsOwnWrites ==
    Mutations!TypeOK /\ Mutations!ReadsOwnWrites /\ Mutations!FieldsShareCache

\* GetDataFromURIAsReader reports an error of the data's sources only when every
\* one of them has failed, and a reader it returns is on a live context.
GoodAnswerWins == Uri!GoodAnswerWins
=============================================================================
