----------------------------- MODULE MCDatabase -----------------------------
(***************************************************************************)
(* What the system keeps in Postgres about accounts: users and their       *)
(* wallets, the addresses by which both are found, and the schema that     *)
(* migrations build.  The models do not interact; part says which of them  *)
(* a behaviour follows, and the variables of the others do not change.     *)
(***************************************************************************)
EXTENDS Users, TLC

CONSTANTS
    Account, Message,           \* ChainAddresses
    Process, Latest, MaxRuns    \* Migrations

VARIABLES
    part,
    sent, obj, status,
    super, roleAt, version, dirty, by, runs, at, client, curVer, ver, superStreak, result

addressVars == <<sent, obj, status>>
migrationVars == <<super, roleAt, version, dirty, by, runs, at, client, curVer, ver,
                   superStreak, result>>

Addresses == INSTANCE ChainAddresses WITH Accounts <- Account, Messages <- Message
Schema == INSTANCE Migrations WITH pc <- at

ASSUME Schema!MigrationAssumption

MCInit ==
    /\ part \in {"users", "addresses", "schema"}
    /\ Init /\ Addresses!Init
    /\ Schema!Init /\ (part # "schema" => super = {} /\ roleAt = 0)

MCNext ==
    /\ UNCHANGED part
    /\ \/ part = "users" /\ Next /\ UNCHANGED <<addressVars, migrationVars>>
       \/ part = "addresses" /\ Addresses!Next /\ UNCHANGED <<vars, migrationVars>>
       \/ part = "schema" /\ Schema!Next /\ UNCHANGED <<vars, addressVars>>

MCSpec == MCInit /\ [][MCNext]_<<part, vars, addressVars, migrationVars>>

\* Requests are interchangeable, and so are the IDs and the address and the
\* username that nothing has at the start.
Symmetry ==
    Permutations(Request)
      \cup Permutations(UserID \ {Member, Universal})
      \cup Permutations(WalletID \ {MemberWallet, UniversalWallet})
      \cup Permutations(Address \ {MemberAddress, UniversalAddress})
      \cup Permutations(Username \ {MemberName, UniversalName})

----------------------------------------------------------------------------
\* Messages about one account end with one key and messages about two accounts
\* with two, whatever their casing, the order of the resolvers, the way taken and
\* the L2 chain named; and the address that a login proved is found again for the
\* wallet a mutation names exactly when both name one account of one chain.  A
\* client reads back the name of the chain it sent.
AccountsAreFound == Addresses!AccountsAreFound

\* RunMigrations runs every file as the superuser or the migrator, whichever it is
\* meant for, and a run that reports success has left nothing to do, whichever
\* streaks the sudo flags form and wherever an earlier run has failed.
MigrationsComplete == Schema!MigrationsComplete
=============================================================================
