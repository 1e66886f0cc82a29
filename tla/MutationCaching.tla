-------------------------- MODULE MutationCaching --------------------------
(***************************************************************************)
(* MutationCachingHandler of graphql/resolver: which PublicAPI, and so     *)
(* which set of dataloaders, the mutations of one request and the fields   *)
(* below them read through.  gqlgen runs the mutations of a request one    *)
(* after the other and the fields below each of them concurrently.  A      *)
(* mutation must not see cached rows; the fields below it should.          *)
(*                                                                         *)
(* The data is one row, named by its version.  A PublicAPI is a struct     *)
(* that points to its loaders: cell 0 is the one the gin context keeps,    *)
(* cell k the newAPI of the k-th mutation, and copying the struct copies   *)
(* the pointer.  Caching loaders keep the first result (see Batcher).      *)
(***************************************************************************)
EXTENDS Integers

CONSTANTS
    Field,         \* fields below a mutation that read the row
    MaxMutations,  \* mutations of the request
    MaxVersion     \* bound on the writes to the row
CachingAssumption == MaxMutations \in Nat \ {0} /\ MaxVersion \in Nat

None == -1
Version == 0..MaxVersion
Cell == 0..MaxMutations
LoadersID == 0..MaxMutations

VARIABLES
    db,       \* the version of the row
    own,      \* the last version this request has written, 0 if none
    loaders,  \* LoadersID -> [caching, row]: row is the cached version or None
    cells,    \* Cell -> the loaders its PublicAPI points to, None before it exists
    api,      \* the cell that is on the context of the current mutation
    m,        \* the current mutation
    pc,       \* "before", "resolver" or "children" of mutation m
    read,     \* the version the mutation's resolver has read last
    child,    \* Field -> "idle", "fetch", "return" or "done"
    value,    \* Field -> the version the field has read
    known     \* Field -> the cached version when the field began, None if none
vars == <<db, own, loaders, cells, api, m, pc, read, child, value, known>>

\* NewLoaders with disableCaching = ~caching.
NewLoaders(caching) == [caching |-> caching, row |-> None]

IdleChildren ==
    /\ child' = [f \in Field |-> "idle"]
    /\ value' = [f \in Field |-> None]
    /\ known' = [f \in Field |-> None]

Init ==
    /\ db = 0 /\ own = 0
    /\ loaders = [l \in LoadersID |-> NewLoaders(FALSE)]
    /\ cells = [c \in Cell |-> None]
    /\ api = None /\ m = 1 /\ pc = "before" /\ read = None
    /\ child = [f \in Field |-> "idle"]
    /\ value = [f \in Field |-> None]
    /\ known = [f \in Field |-> None]

\* Mutant: the kept PublicAPI itself goes onto the context.
Begin_Shared ==
    /\ pc = "before"
    /\ IF cells[0] # None
       THEN UNCHANGED <<cells, loaders>>
       ELSE /\ loaders' = [loaders EXCEPT ![0] = NewLoaders(FALSE)]
            /\ cells' = [cells EXCEPT ![0] = 0]
    /\ api' = 0
    /\ pc' = "resolver"
    /\ UNCHANGED <<db, own, m, read, child, value, known>>

\* Up to next(ctx): get or create the PublicAPI without caching, and push a copy.
Begin ==
    /\ pc = "before"
    /\ IF cells[0] # None
       THEN /\ cells' = [cells EXCEPT ![m] = cells[0]]
            /\ UNCHANGED loaders
       ELSE /\ loaders' = [loaders EXCEPT ![0] = NewLoaders(FALSE)]
            /\ cells' = [cells EXCEPT ![0] = 0, ![m] = 0]
    /\ api' = m
    /\ pc' = "resolver"
    /\ UNCHANGED <<db, own, m, read, child, value, known>>

\* For(ctx): the loaders of the PublicAPI on the context.
For == cells[api]

\* A read through loaders l that have nothing cached leaves its result there.
\* The batcher is called, and answers, within the resolver's call.
Stored(l, v) ==
    IF loaders[l].caching /\ loaders[l].row = None
    THEN [loaders EXCEPT ![l].row = v] ELSE loaders
Cached(l) == loaders[l].caching /\ loaders[l].row # None

\* The mutation's resolver reads the row.
MutationRead ==
    /\ pc = "resolver"
    /\ read' = IF Cached(For) THEN loaders[For].row ELSE db
    /\ loaders' = Stored(For, db)
    /\ UNCHANGED <<db, own, cells, api, m, pc, child, value, known>>

\* The mutation's resolver writes the row; what it had read is behind it.
MutationWrite ==
    /\ pc = "resolver" /\ db < MaxVersion
    /\ db' = db + 1 /\ own' = db + 1 /\ read' = None
    /\ UNCHANGED <<loaders, cells, api, m, pc, child, value, known>>

\* Another request writes the row at any time.
OtherWrite ==
    /\ db < MaxVersion
    /\ db' = db + 1
    /\ UNCHANGED <<own, loaders, cells, api, m, pc, read, child, value, known>>

\* *newAPI = *newPublicAPI(requestContext, false), with loaders of its own.
WithCaching ==
    /\ loaders' = [loaders EXCEPT ![m] = NewLoaders(TRUE)]
    /\ cells' = [cells EXCEPT ![api] = m]

\* next() returned a result: its fields are resolved when the handler is done.
Finish ==
    /\ pc = "resolver"
    /\ WithCaching
    /\ pc' = "children" /\ read' = None
    /\ UNCHANGED <<db, own, api, m, child, value, known>>

\* Afterwards gqlgen runs the next mutation, if there is one.
NextMutation == m < MaxMutations /\ m' = m + 1 /\ pc' = "before"

\* next() returned an error or nil: caching is on again, and no field below runs.
FinishWithoutFields ==
    /\ pc = "resolver"
    /\ WithCaching
    /\ NextMutation /\ read' = None
    /\ UNCHANGED <<db, own, api, child, value, known>>

\* The resolver panics: nothing after next() runs, the field's recover answers null.
Panic ==
    /\ pc = "resolver"
    /\ NextMutation /\ read' = None
    /\ UNCHANGED <<db, own, loaders, cells, api, child, value, known>>

\* A field below the mutation asks a loader: answered from its cache, or by a batch.
ChildHit(f) ==
    /\ pc = "children" /\ child[f] = "idle" /\ Cached(For)
    /\ child' = [child EXCEPT ![f] = "done"]
    /\ value' = [value EXCEPT ![f] = loaders[For].row]
    /\ known' = [known EXCEPT ![f] = loaders[For].row]
    /\ UNCHANGED <<db, own, loaders, cells, api, m, pc, read>>

\* What the fields of this mutation have been given so far.
Given == {value[g] : g \in {h \in Field : child[h] = "done"}}

ChildMiss(f) ==
    /\ pc = "children" /\ child[f] = "idle" /\ ~Cached(For)
    /\ child' = [child EXCEPT ![f] = "fetch"]
    /\ known' = [known EXCEPT ![f] = IF Given = {} THEN None ELSE CHOOSE v \in Given : TRUE]
    /\ UNCHANGED <<db, own, loaders, cells, api, m, pc, read, value>>

\* The batch that holds the field's key runs its query: alone, or for all the
\* fields that have joined it.
BatchFetch ==
    /\ \E fs \in SUBSET {f \in Field : child[f] = "fetch"} :
          /\ fs # {}
          /\ child' = [f \in Field |-> IF f \in fs THEN "return" ELSE child[f]]
          /\ value' = [f \in Field |-> IF f \in fs THEN db ELSE value[f]]
    /\ UNCHANGED <<db, own, loaders, cells, api, m, pc, read, known>>

\* The thunk stores its result unless one is there, and returns its own.  (A
\* thunk with an error stores and delivers nothing.)
ChildReturn(f) ==
    /\ child[f] = "return"
    /\ child' = [child EXCEPT ![f] = "done"]
    /\ loaders' = Stored(For, value[f])
    /\ UNCHANGED <<db, own, cells, api, m, pc, read, value, known>>

\* The response of mutation m is complete.
ChildrenDone ==
    /\ pc = "children" /\ \A f \in Field : child[f] \in {"idle", "done"}
    /\ NextMutation
    /\ IdleChildren
    /\ UNCHANGED <<db, own, loaders, cells, api, read>>

Next ==
    \/ Begin \/ MutationRead \/ MutationWrite \/ OtherWrite
    \/ Finish \/ FinishWithoutFields \/ Panic
    \/ BatchFetch \/ ChildrenDone
    \/ \E f \in Field : ChildHit(f) \/ ChildMiss(f) \/ ChildReturn(f)

Spec == Init /\ [][Next]_vars

----------------------------------------------------------------------------
TypeOK ==
    /\ db \in Version /\ own \in Version /\ m \in 1..MaxMutations
    /\ loaders \in [LoadersID -> [caching : BOOLEAN, row : Version \cup {None}]]
    /\ cells \in [Cell -> LoadersID \cup {None}] /\ api \in Cell \cup {None}
    /\ pc \in {"before", "resolver", "children"} /\ read \in Version \cup {None}
    /\ child \in [Field -> {"idle", "fetch", "return", "done"}]
    /\ value \in [Field -> Version \cup {None}]
    /\ known \in [Field -> Version \cup {None}]

\* A request sees its own writes: whatever a mutation's resolver reads after its
\* writes, and whatever a field below it reads, is at least as new as the last
\* write of this request, also when an earlier mutation of the request failed or
\* panicked or left rows in the loaders its fields used.
ReadsOwnWrites ==
    /\ read # None => read >= own
    /\ \A f \in Field : value[f] # None => value[f] >= own

\* The fields below a mutation benefit from caching: one that begins after another
\* has its answer is given the cached row and does not fetch a newer one.
FieldsShareCache ==
    \A f \in Field : child[f] = "done" /\ known[f] # None => value[f] = known[f]
=============================================================================
