----------------------------- MODULE Migrations -----------------------------
(***************************************************************************)
(* db/migrate.go: RunMigrations applies the migrations of a directory with *)
(* two clients.  Streaks of files that begin with the sudo flag run as the *)
(* superuser, the others as the migrator, whose role may itself be created *)
(* by a superuser migration.  golang-migrate keeps the version and a dirty *)
(* flag in the database, holds a lock during each call, and its Migrate(v) *)
(* goes up or down to v.                                                   *)
(***************************************************************************)
EXTENDS Naturals, FiniteSets

CONSTANTS
    Process,   \* processes that run cmd/migrate
    Latest,    \* the files are versions 1..Latest
    MaxRuns    \* bound on the runs started
MigrationAssumption == Latest \in Nat /\ MaxRuns \in Nat

Version == 1..Latest

VARIABLES
    super,     \* superVersions: the files with the flag
    roleAt,    \* the version that creates the migrator's role, 0 if it exists
    version,   \* schema_migrations.version, 0 if empty
    dirty,     \* schema_migrations.dirty
    by,        \* who has applied each version: "none", "super" or "splitfi"
    runs,      \* runs started
    pc,        \* where each process is
    client,    \* splitfiMigrate is there
    curVer, ver, superStreak,   \* RunMigrations' locals
    result     \* "none", "ok", "error", "crash" or "panic"
dbVars == <<version, dirty, by>>
vars == <<super, roleAt, dbVars, runs, pc, client, curVer, ver, superStreak, result>>

lastSuperVer == IF super = {} THEN 0 ELSE CHOOSE v \in super : \A w \in super : w <= v

\* NewClient does not fail with ErrRoleDoesNotExist.
roleExists == roleAt = 0 \/ by[roleAt] # "none"

Init ==
    /\ super \in SUBSET Version
    /\ roleAt \in super \cup {0}
    /\ version = 0 /\ dirty = FALSE /\ by = [v \in Version |-> "none"]
    /\ runs = 0
    /\ pc = [p \in Process |-> "idle"]
    /\ client = [p \in Process |-> FALSE]
    /\ curVer = [p \in Process |-> 0] /\ ver = [p \in Process |-> 0]
    /\ superStreak = [p \in Process |-> FALSE]
    /\ result = [p \in Process |-> "none"]

Goto(p, l) == pc' = [pc EXCEPT ![p] = l]

\* RunMigrations returns; its locals are gone.
End(p, r) ==
    /\ result' = [result EXCEPT ![p] = r]
    /\ Goto(p, "idle")
    /\ client' = [client EXCEPT ![p] = FALSE]
    /\ curVer' = [curVer EXCEPT ![p] = 0] /\ ver' = [ver EXCEPT ![p] = 0]
    /\ superStreak' = [superStreak EXCEPT ![p] = FALSE]

\* SuperUserRequired, and main passes a superuser's client exactly if it is.
SuperUserRequired == ~roleExists \/ version < lastSuperVer

Start(p) ==
    /\ pc[p] = "idle" /\ runs < MaxRuns
    /\ runs' = runs + 1
    /\ result' = [result EXCEPT ![p] = "none"]
    /\ Goto(p, IF SuperUserRequired THEN "load" ELSE "onlyUp")
    /\ UNCHANGED <<super, roleAt, dbVars, client, curVer, ver, superStreak>>

\* currentVersion ignores the dirty flag.
currentVersion == version

\* loadMigrate, which may leave the client nil, and then the current version.
LoadAndPlan(p) ==
    /\ pc[p] = "load"
    /\ client' = [client EXCEPT ![p] = roleExists]
    /\ curVer' = [curVer EXCEPT ![p] = currentVersion]
    /\ ver' = [ver EXCEPT ![p] = currentVersion + 1]
    /\ Goto(p, "loop")
    /\ UNCHANGED <<super, roleAt, dbVars, runs, superStreak, result>>

----------------------------------------------------------------------------
(* External: golang-migrate.  A call that goes up stops at the first file  *)
(* that fails, or at which the process dies, and leaves its version dirty. *)

Apply(from, to, who) == by' = [v \in Version |-> IF v > from /\ v <= to THEN who ELSE by[v]]

GoesTo(to, who) ==
    /\ ~dirty /\ version # to
    /\ version' = to /\ UNCHANGED dirty
    /\ IF version < to THEN Apply(version, to, who) ELSE Apply(to, version, "none")

FailsOnTheWay(to, who) ==
    /\ ~dirty
    /\ \E f \in (version + 1)..to :
          /\ version' = f /\ dirty' = TRUE
          /\ Apply(version, f - 1, who)

Refused(to) == (dirty \/ version = to) /\ UNCHANGED dbVars

\* A call of Migrate(to): the process goes on at l, or returns the error.
Migrate(p, who, to, l) ==
    \/ /\ GoesTo(to, who)
       /\ Goto(p, l) /\ UNCHANGED <<client, curVer, ver, superStreak, result>>
    \/ FailsOnTheWay(to, who) /\ End(p, "error")
    \/ Refused(to) /\ End(p, "error")

\* The operator repairs a failed file and sets the version back with "force",
\* while nobody migrates.
Repair ==
    /\ dirty /\ \A p \in Process : pc[p] = "idle"
    /\ dirty' = FALSE /\ version' = version - 1
    /\ UNCHANGED <<super, roleAt, by, runs, pc, client, curVer, ver, superStreak, result>>

----------------------------------------------------------------------------
(* The loop over the versions                                              *)

\* Another version of the same sort: nothing to run yet.
SameSort(p) ==
    /\ pc[p] = "loop" /\ ver[p] <= lastSuperVer
    /\ superStreak[p] <=> ver[p] \in super
    /\ ver' = [ver EXCEPT ![p] = @ + 1]
    /\ UNCHANGED <<super, roleAt, dbVars, runs, pc, client, curVer, superStreak, result>>

\* A streak begins: the migrator catches up first, unless nothing is left to do.
BeginStreak(p) ==
    /\ pc[p] = "loop" /\ ver[p] <= lastSuperVer
    /\ ~superStreak[p] /\ ver[p] \in super
    /\ superStreak' = [superStreak EXCEPT ![p] = TRUE]
    /\ Goto(p, IF ver[p] - 1 # curVer[p] THEN "catchUp" ELSE "next")
    /\ UNCHANGED <<super, roleAt, dbVars, runs, client, curVer, ver, result>>

\* A nil client is dereferenced.
CatchUp(p) ==
    /\ pc[p] = "catchUp"
    /\ IF client[p]
       THEN Migrate(p, "splitfi", ver[p] - 1, "next")
       ELSE End(p, "crash") /\ UNCHANGED dbVars
    /\ UNCHANGED <<super, roleAt, runs>>

\* Mutant: the superuser also runs the file that ends the streak.
streakEnd_Next(p) == ver[p]

\* The last version of the streak that ends before ver.
streakEnd(p) == ver[p] - 1

EndStreak(p) ==
    /\ pc[p] = "loop" /\ ver[p] <= lastSuperVer
    /\ superStreak[p] /\ ver[p] \notin super
    /\ Migrate(p, "super", streakEnd(p), "load2")
    /\ UNCHANGED <<super, roleAt, runs>>

\* superStreak is reset and loadMigrate tried again.
Reload(p) ==
    /\ pc[p] = "load2"
    /\ superStreak' = [superStreak EXCEPT ![p] = FALSE]
    /\ client' = [client EXCEPT ![p] = @ \/ roleExists]
    /\ Goto(p, "next")
    /\ UNCHANGED <<super, roleAt, dbVars, runs, curVer, ver, result>>

NextVersion(p) ==
    /\ pc[p] = "next"
    /\ ver' = [ver EXCEPT ![p] = @ + 1]
    /\ Goto(p, "loop")
    /\ UNCHANGED <<super, roleAt, dbVars, runs, client, curVer, superStreak, result>>

\* After the loop the last streak is still to run.
LastStreak(p) ==
    /\ pc[p] = "loop" /\ ver[p] > lastSuperVer
    /\ IF superStreak[p]
       THEN Migrate(p, "super", streakEnd(p), "up")
       ELSE Goto(p, "up") /\ UNCHANGED <<dbVars, client, curVer, ver, superStreak, result>>
    /\ UNCHANGED <<super, roleAt, runs>>

\* The client must have been created by now; then Up, for which no change is fine.
FinalUp(p) ==
    /\ pc[p] = "up"
    /\ \/ ~client[p] /\ End(p, "panic") /\ UNCHANGED dbVars
       \/ client[p] /\ GoesTo(Latest, "splitfi") /\ End(p, "ok")
       \/ client[p] /\ FailsOnTheWay(Latest, "splitfi") /\ End(p, "error")
       \/ /\ client[p] /\ Refused(Latest)
          /\ End(p, IF dirty THEN "error" ELSE "ok")
    /\ UNCHANGED <<super, roleAt, runs>>

\* Without a superuser: Up, and its error, ErrNoChange too, is returned.
OnlyUp(p) ==
    /\ pc[p] = "onlyUp"
    /\ \/ GoesTo(Latest, "splitfi") /\ End(p, "ok")
       \/ FailsOnTheWay(Latest, "splitfi") /\ End(p, "error")
       \/ Refused(Latest) /\ End(p, "error")
    /\ UNCHANGED <<super, roleAt, runs>>

Run(p) ==
    \/ LoadAndPlan(p) \/ SameSort(p) \/ BeginStreak(p) \/ CatchUp(p) \/ EndStreak(p)
    \/ Reload(p) \/ NextVersion(p) \/ LastStreak(p) \/ FinalUp(p) \/ OnlyUp(p)

Next == Repair \/ \E p \in Process : Start(p) \/ Run(p)

Spec == Init /\ [][Next]_vars

----------------------------------------------------------------------------
(* Properties                                                              *)

\* Every file is run by the client it is meant for: one with the sudo flag as the
\* superuser, every other one as the migrator, whichever streaks the flags form
\* and at whichever version an earlier run has failed.
RunByRightRole ==
    \A v \in Version : by[v] # "none" => (by[v] = "super" <=> v \in super)

\* A run that reports success has left nothing to do.
SuccessIsComplete ==
    \A p \in Process : result[p] = "ok" => \A v \in Version : by[v] # "none"

\* Every file by the right role, and success only with all of them.
MigrationsComplete == RunByRightRole /\ SuccessIsComplete

\* "RunMigrations runs unapplied migrations": a migration that has been applied is
\* never undone, although Migrate(v) goes down to a v that is behind.
NeverDown == [][~dirty => version' >= version]_vars

\* The assertion before the last step: the migrator's client has been created.
ClientInitted == \A p \in Process : result[p] # "panic"
=============================================================================
