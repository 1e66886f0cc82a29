--------------------------- MODULE ChainAddresses ---------------------------
(***************************************************************************)
(* How an account of a chain gets the key under which the system finds it  *)
(* (service/persist/wallet.go and token.go).  Three ways lead to a key:    *)
(* the input object ChainAddressInput, whose resolvers set one field at a  *)
(* time, the input object ChainPubKeyInput of a login, and the wallet rows *)
(* that an earlier message left.  Messages about possibly the same account *)
(* are followed side by side, each on its own way.                         *)
(*                                                                         *)
(* The setters are written for either order of the fields and refuse a     *)
(* second call.  The generated code calls them in the order of the schema; *)
(* the model calls them in any order and again, as their contract allows.  *)
(*                                                                         *)
(* An address is the account it names and whether its text has upper case  *)
(* letters: nothing else of the text matters here.                         *)
(***************************************************************************)
EXTENDS Integers, FiniteSets

CONSTANTS
    Accounts,   \* accounts, the same on all chains that share an L1 chain
    Messages    \* messages that are followed

VARIABLES
    sent,       \* [Messages -> the message as the client wrote it]
    obj,        \* [Messages -> the object that is being filled]
    status      \* [Messages -> "new", "filling", "done", "refused"]

vars == <<sent, obj, status>>

None == "none"

\* The constants of persist.Chain that GraphQL has names for.
ChainETH == 0
ChainArbitrum == 1
ChainPolygon == 2
ChainOptimism == 3
ChainBase == 4
Chains == ChainETH .. ChainBase

\* Chain.L1Chain looks the chain up in L1Chains: Ethereum for all of these.
L1Chain(c) == ChainETH

Addresses == [account : Accounts, mixed : BOOLEAN]

ZeroAddress == [account |-> None, mixed |-> FALSE]

ToLower(a) == [a EXCEPT !.mixed = FALSE]

(***************************************************************************)
(* Names of chains.  GraphQL admits the values of its enum only.  A name   *)
(* that none of the cases lists leaves the zero value, which is Ethereum.  *)
(***************************************************************************)
GQLNames == {"Ethereum", "Arbitrum", "Polygon", "Optimism"}

UnmarshalGQL(name) ==
    CASE name = "Arbitrum" -> ChainArbitrum
      [] name = "Polygon"  -> ChainPolygon
      [] name = "Optimism" -> ChainOptimism
      [] name = "Base"     -> ChainBase
      [] OTHER             -> ChainETH

MarshalGQL(c) ==
    CASE c = ChainETH      -> "Ethereum"
      [] c = ChainArbitrum -> "Arbitrum"
      [] c = ChainPolygon  -> "Polygon"
      [] c = ChainOptimism -> "Optimism"
      [] c = ChainBase     -> "Base"
      [] OTHER             -> ""

(***************************************************************************)
(* ChainAddress and ChainPubKey.  The zero object has neither field set.   *)
(***************************************************************************)
Zero == [addressSet |-> FALSE, chainSet |-> FALSE,
         address |-> ZeroAddress, chain |-> ChainETH]

\* ChainAddress.updateCasing asks for the L1 chain, ChainPubKey.updateCasing
\* for the chain itself.
IsFolded(route, c) ==
    IF route = "pubKey" THEN c = ChainETH ELSE L1Chain(c) = ChainETH

updateCasing(route, o) ==
    IF IsFolded(route, o.chain) THEN [o EXCEPT !.address = ToLower(o.address)]
    ELSE o

GQLSetAddressFromResolver(route, o, a) ==
    LET set == [o EXCEPT !.address = a, !.addressSet = TRUE]
    IN  IF o.chainSet THEN updateCasing(route, set) ELSE set

\* Mutant: the casing is folded only when the address is set.
GQLSetChainFromResolver_NoFold(route, o, c) ==
    [o EXCEPT !.chain = c, !.chainSet = TRUE]

GQLSetChainFromResolver(route, o, c) ==
    LET set == [o EXCEPT !.chain = c, !.chainSet = TRUE]
    IN  IF o.addressSet THEN updateCasing(route, set) ELSE set

NewChainAddress(a, c) ==
    updateCasing("address",
        [addressSet |-> TRUE, chainSet |-> TRUE, address |-> a, chain |-> c])

NewL1ChainAddress(a, c) ==
    [address |-> IF L1Chain(c) = ChainETH THEN ToLower(a) ELSE a,
     l1Chain |-> L1Chain(c)]

\* A public key becomes a ChainAddress before it is used.
ToChainAddress(route, o) ==
    IF route = "pubKey" THEN NewChainAddress(o.address, o.chain) ELSE o

ToL1ChainAddress(ca) == NewL1ChainAddress(ca.address, ca.chain)

\* AuthResult.GetAuthenticatedAddress compares the structs, flags included.
GetAuthenticatedAddress(proved, wanted) == proved = wanted

-----------------------------------------------------------------------------
TypeOK ==
    /\ sent \in [Messages -> [route : {None, "address", "pubKey", "row"},
                              address : Addresses \cup {ZeroAddress},
                              name : GQLNames]]
    /\ obj \in [Messages -> [addressSet : BOOLEAN, chainSet : BOOLEAN,
                             address : Addresses \cup {ZeroAddress},
                             chain : Chains]]
    /\ status \in [Messages -> {"new", "filling", "done", "refused"}]

Init ==
    /\ sent = [m \in Messages |-> [route |-> None, address |-> ZeroAddress, name |-> "Ethereum"]]
    /\ obj = [m \in Messages |-> Zero]
    /\ status = [m \in Messages |-> "new"]

\* A client sends an input object.
Send(m, route, a, name) ==
    /\ status[m] = "new"
    /\ sent' = [sent EXCEPT ![m] = [route |-> route, address |-> a, name |-> name]]
    /\ status' = [status EXCEPT ![m] = "filling"]
    /\ UNCHANGED obj

\* The resolver of the field address or pubKey.  A second call is refused.
SetAddress(m) ==
    /\ status[m] = "filling"
    /\ IF obj[m].addressSet
       THEN status' = [status EXCEPT ![m] = "refused"] /\ UNCHANGED obj
       ELSE /\ obj' = [obj EXCEPT ![m] =
                   GQLSetAddressFromResolver(sent[m].route, @, sent[m].address)]
            /\ UNCHANGED status
    /\ UNCHANGED sent

\* The resolver of the field chain.
SetChain(m) ==
    /\ status[m] = "filling"
    /\ IF obj[m].chainSet
       THEN status' = [status EXCEPT ![m] = "refused"] /\ UNCHANGED obj
       ELSE /\ obj' = [obj EXCEPT ![m] =
                   GQLSetChainFromResolver(sent[m].route, @, UnmarshalGQL(sent[m].name))]
            /\ UNCHANGED status
    /\ UNCHANGED sent

\* Both fields are required, so the object is used once both are set.
Finish(m) ==
    /\ status[m] = "filling"
    /\ obj[m].addressSet /\ obj[m].chainSet
    /\ status' = [status EXCEPT ![m] = "done"]
    /\ UNCHANGED <<sent, obj>>

\* A reader of the wallet row that message n left builds the address anew
\* from its columns (the debug authenticator, the resolvers of wallets).
ReadWallet(m, n) ==
    /\ status[m] = "new"
    /\ status[n] = "done" /\ sent[n].route = "address"
    /\ sent' = [sent EXCEPT ![m] = [sent[n] EXCEPT !.route = "row"]]
    /\ obj' = [obj EXCEPT ![m] = NewChainAddress(obj[n].address, obj[n].chain)]
    /\ status' = [status EXCEPT ![m] = "done"]

Next ==
    \E m \in Messages :
        \/ \E a \in Addresses, route \in {"address", "pubKey"}, name \in GQLNames :
               Send(m, route, a, name)
        \/ SetAddress(m)
        \/ SetChain(m)
        \/ Finish(m)
        \/ \E n \in Messages : ReadWallet(m, n)

Spec == Init /\ [][Next]_vars

-----------------------------------------------------------------------------
Final(m) == ToChainAddress(sent[m].route, obj[m])

(***************************************************************************)
(* Two messages about one account end with one key and messages about two  *)
(* accounts with two, whatever the casing of the text, the order of the    *)
(* resolvers, the way taken and the L2 chain named: users are looked up by *)
(* the address and the L1 chain (GetUserByAddressAndL1), and wallets are   *)
(* unique by them.                                                         *)
(***************************************************************************)
SameAccountSameKey ==
    \A m, n \in Messages :
        status[m] = "done" /\ status[n] = "done" =>
            (ToL1ChainAddress(Final(m)) = ToL1ChainAddress(Final(n))
                <=> sent[m].address.account = sent[n].address.account)

(***************************************************************************)
(* The address a login proved (a public key) is found again for the wallet *)
(* a mutation names (a ChainAddressInput) exactly when both name the same  *)
(* account of the same chain, whatever their casing and the order in which *)
(* the fields were set: AddWalletToUser compares the structs.              *)
(***************************************************************************)
ProvedAddressIsFound ==
    \A m, n \in Messages :
        /\ status[m] = "done" /\ sent[m].route = "pubKey"
        /\ status[n] = "done" /\ sent[n].route # "pubKey"
        => (GetAuthenticatedAddress(Final(m), Final(n))
                <=> /\ sent[m].address.account = sent[n].address.account
                    /\ sent[m].name = sent[n].name)

(***************************************************************************)
(* A client that reads the chain of what it sent gets the name it sent.    *)
(***************************************************************************)
ReadsBackItsChain ==
    \A m \in Messages :
        status[m] = "done" =>
            MarshalGQL(obj[m].chain) = sent[m].name

\* The keys as a whole: one account has one key, is found under it, and reads back
\* with the chain it was sent with.
AccountsAreFound ==
    TypeOK /\ SameAccountSameKey /\ ProvedAddressIsFound /\ ReadsBackItsChain
=============================================================================
