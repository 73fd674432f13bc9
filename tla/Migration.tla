----------------------------- MODULE Migration -----------------------------
(***************************************************************************)
(* MigrateDatabase (backend/internal/utils/db_migration_util.go), as the   *)
(* runs of the program execute it against one database.                    *)
(*                                                                         *)
(* Bootstrap migrates before it acquires the application lock, so any      *)
(* number of processes migrate at once, in releases that require different *)
(* versions.  golang-migrate excludes them from each other on PostgreSQL   *)
(* only, by an advisory lock that it holds for one call of Force or        *)
(* Migrate.  It records a version before and after the migration to it:    *)
(* dirty before, clean after.                                              *)
(***************************************************************************)
EXTENDS Integers

CONSTANTS
  Process,     \* the runs of the program, whose processes may be restarted
  NoProcess,   \* not a process
  MaxVersion,  \* the versions are 1..MaxVersion; 0 is a new database
  Required,    \* getRequiredMigrationVersion of each process
  Downgraders, \* the sets of processes that may have ALLOW_DOWNGRADE
  Refused,     \* <<provider, version>>: the database refuses the up file of it
  NoDown       \* <<provider, version>>: there is no down file of it

Version == 0..MaxVersion
Provider == {"sqlite", "postgres"}

ASSUME MigrationAssumption ==
  /\ NoProcess \notin Process
  /\ MaxVersion \in Nat
  /\ Required \in [Process -> Version]
  /\ Downgraders \subseteq SUBSET Process
  /\ Refused \subseteq Provider \X Version /\ NoDown \subseteq Provider \X Version

VARIABLES
  dbProvider,     \* common.EnvConfig.DbProvider
  allowDowngrade, \* the processes with common.EnvConfig.AllowDowngrade
  schema,         \* the version that the tables of the database are in
  recorded,       \* the version in schema_migrations
  dirty,          \* and its dirty flag
  advisoryLock,   \* who holds the advisory lock of PostgreSQL
  pc,             \* where each process is
  current,        \* currentVersion, then the version a migration starts from
  disturbed       \* TRUE once a process stopped in the middle, or timed out

settings == <<dbProvider, allowDowngrade>>
database == <<schema, recorded, dirty>>
vars == <<settings, database, advisoryLock, pc, current, disturbed>>

State == {"start", "force", "migrate", "mark", "body", "written", "ready", "failed"}

TypeOK ==
  /\ dbProvider \in Provider
  /\ allowDowngrade \in Downgraders
  /\ schema \in Version /\ recorded \in Version
  /\ dirty \in BOOLEAN /\ disturbed \in BOOLEAN
  /\ advisoryLock \in Process \cup {NoProcess}
  /\ pc \in [Process -> State]
  /\ current \in [Process -> Version]

Init ==
  /\ dbProvider \in Provider
  /\ allowDowngrade \in Downgraders
  /\ schema \in Version /\ recorded = schema
  /\ dirty = FALSE /\ disturbed = FALSE
  /\ advisoryLock = NoProcess
  /\ pc = [p \in Process |-> "start"]
  /\ current = [p \in Process |-> 0]

Goto(p, to) == pc' = [pc EXCEPT ![p] = to]

-----------------------------------------------------------------------------
(* MigrateDatabase and migrateDatabaseFromGitHub.                          *)

\* Mutant: a newer database is migrated down without ALLOW_DOWNGRADE.
ReadVersionAndGoOn(p) ==
  /\ pc[p] = "start"
  /\ \E v \in {recorded, 0} :
       /\ current' = [current EXCEPT ![p] = v]
       /\ Goto(p, IF v <= Required[p] THEN "migrate" ELSE "force")
  /\ UNCHANGED <<settings, database, advisoryLock, disturbed>>

\* m.Version, whose dirty flag is ignored, without any lock.  If it fails the
\* version is 0.
ReadVersion(p) ==
  /\ pc[p] = "start"
  /\ \E v \in {recorded, 0} :
       /\ current' = [current EXCEPT ![p] = v]
       /\ Goto(p, IF v <= Required[p] THEN "migrate"
                  ELSE IF p \in allowDowngrade THEN "force" ELSE "failed")
  /\ UNCHANGED <<settings, database, advisoryLock, disturbed>>

Lockable == dbProvider = "postgres" => advisoryLock = NoProcess

\* Mutant: the version is set without the advisory lock.
ForceUnlocked(p) ==
  /\ pc[p] = "force"
  /\ recorded' = current[p] /\ dirty' = FALSE
  /\ Goto(p, "migrate")
  /\ UNCHANGED <<settings, schema, advisoryLock, current, disturbed>>

\* m.Force: the version that was read is recorded as clean.
ForceVersion(p) ==
  /\ pc[p] = "force" /\ Lockable
  /\ recorded' = current[p] /\ dirty' = FALSE
  /\ Goto(p, "migrate")
  /\ UNCHANGED <<settings, schema, advisoryLock, current, disturbed>>

\* The embedded files end at the required version; GitHub has them all.
\* Migrate follows Force only if the version that was read is newer.
InSource(p, v) == v <= Required[p] \/ current[p] > Required[p]

\* Mutant: ErrNoChange is an error like any other.
MigrateChanges(p) ==
  /\ pc[p] = "migrate" /\ Lockable
  /\ current' = [current EXCEPT ![p] = recorded]
  /\ IF dirty \/ ~InSource(p, recorded) \/ recorded = Required[p]
       THEN Goto(p, "failed") /\ UNCHANGED advisoryLock
       ELSE /\ Goto(p, "mark")
            /\ advisoryLock' = IF dbProvider = "postgres" THEN p ELSE advisoryLock
  /\ UNCHANGED <<settings, database, disturbed>>

\* Mutant: ErrDirty is no error, like ErrNoChange.
MigrateIgnoresDirty(p) ==
  /\ pc[p] = "migrate" /\ Lockable
  /\ current' = [current EXCEPT ![p] = recorded]
  /\ IF ~InSource(p, recorded)
       THEN Goto(p, "failed") /\ UNCHANGED advisoryLock
     ELSE IF dirty \/ recorded = Required[p]
       THEN Goto(p, "ready") /\ UNCHANGED advisoryLock
     ELSE /\ Goto(p, "mark")
          /\ advisoryLock' = IF dbProvider = "postgres" THEN p ELSE advisoryLock
  /\ UNCHANGED <<settings, database, disturbed>>

\* m.Migrate up to its first migration: the version is read again, under the
\* lock.  A dirty one is ErrDirty; the required one is ErrNoChange, a success.
Migrate(p) ==
  /\ pc[p] = "migrate" /\ Lockable
  /\ current' = [current EXCEPT ![p] = recorded]
  /\ IF dirty \/ ~InSource(p, recorded)
       THEN Goto(p, "failed") /\ UNCHANGED advisoryLock
     ELSE IF recorded = Required[p]
       THEN Goto(p, "ready") /\ UNCHANGED advisoryLock
     ELSE /\ Goto(p, "mark")
          /\ advisoryLock' = IF dbProvider = "postgres" THEN p ELSE advisoryLock
  /\ UNCHANGED <<settings, database, disturbed>>

-----------------------------------------------------------------------------
(* The migrations of one call of m.Migrate, one after the other.           *)

Target(p) == IF current[p] < Required[p] THEN current[p] + 1 ELSE current[p] - 1

Unlock(p) == advisoryLock' = IF advisoryLock = p THEN NoProcess ELSE advisoryLock

\* SetVersion(target, dirty).
Mark(p) ==
  /\ pc[p] = "mark"
  /\ recorded' = Target(p) /\ dirty' = TRUE
  /\ Goto(p, "body")
  /\ UNCHANGED <<settings, schema, advisoryLock, current, disturbed>>

Up(p) == current[p] < Required[p]

\* golang-migrate takes a missing down file for an empty migration.
Empty(p) == ~Up(p) /\ <<dbProvider, current[p]>> \in NoDown

\* The file is one transaction, written for the schema it migrates from: on
\* any other it fails (CREATE TABLE of one that exists) and nothing changes.
\* Nor does it change anything where the database does not know its SQL.
Executes(p) == schema = current[p] /\ (Up(p) => <<dbProvider, Target(p)>> \notin Refused)

Body(p) ==
  /\ pc[p] = "body"
  /\ \/ Empty(p) /\ Goto(p, "written") /\ UNCHANGED <<schema, advisoryLock>>
     \/ ~Empty(p) /\ Executes(p) /\ schema' = Target(p)
        /\ Goto(p, "written") /\ UNCHANGED advisoryLock
     \/ ~Empty(p) /\ ~Executes(p) /\ Goto(p, "failed")
        /\ Unlock(p) /\ UNCHANGED schema
  /\ UNCHANGED <<settings, recorded, dirty, current, disturbed>>

\* SetVersion(target, clean); Migrate returns if that was the last migration.
Clean(p) ==
  /\ pc[p] = "written"
  /\ recorded' = Target(p) /\ dirty' = FALSE
  /\ current' = [current EXCEPT ![p] = Target(p)]
  /\ IF Target(p) = Required[p]
       THEN Goto(p, "ready") /\ Unlock(p)
       ELSE Goto(p, "mark") /\ UNCHANGED advisoryLock
  /\ UNCHANGED <<settings, schema, disturbed>>

-----------------------------------------------------------------------------
(* Failures and restarts.                                                  *)

Active == State \ {"ready", "failed"}

\* A statement or the download of a file fails, the wait for the advisory lock
\* times out, or the process dies: all end it, and the database the session.
Stop(p) ==
  /\ pc[p] \in Active
  /\ Goto(p, "failed")
  /\ Unlock(p)
  /\ disturbed' = TRUE
  /\ UNCHANGED <<settings, database, current>>

\* The program is started again.
Restart(p) ==
  /\ pc[p] \in {"ready", "failed"}
  /\ Goto(p, "start")
  /\ UNCHANGED <<settings, database, advisoryLock, current, disturbed>>

Step(p) ==
  ReadVersion(p) \/ ForceVersion(p) \/ Migrate(p) \/ Mark(p) \/ Body(p) \/ Clean(p)

Next == \E p \in Process : Step(p) \/ Stop(p) \/ Restart(p)

Spec == Init /\ [][Next]_vars

\* A process runs on, and its statements return.
FairSpec == Spec /\ \A p \in Process : WF_vars(Step(p))

-----------------------------------------------------------------------------
(* Properties.                                                             *)

\* Unless a downgrade is allowed, a version that is recorded as clean is the
\* one the tables are in, although on SQLite nothing keeps two migrations
\* apart and a process may die between any two statements.
Consistent == ~dirty => recorded = schema
RecordedIsSchema == allowDowngrade = {} => Consistent

\* Unless a downgrade is allowed, the tables have at least the version that
\* each process that started successfully requires, for as long as it runs.
ReadyIsCovered ==
  allowDowngrade = {} =>
    \A p \in Process : pc[p] = "ready" => schema >= Required[p]

\* On PostgreSQL one process may go back by one release, while others migrate
\* up, and the record stays true as long as nothing is disturbed: the version
\* that it reads without the lock is still the recorded one when it forces it.
\* The files of the release it leaves must exist and fit the database.
Lone ==
  /\ dbProvider = "postgres"
  /\ \A p, q \in allowDowngrade : p = q
  /\ \A p \in allowDowngrade :
       /\ MaxVersion <= Required[p] + 1
       /\ \A v \in Version : v > Required[p] => <<dbProvider, v>> \notin Refused \cup NoDown
LoneDowngrade == Lone /\ ~disturbed => Consistent

\* On PostgreSQL every process of the newest release starts, if nothing disturbs
\* them, in whatever order they and those of older releases migrate, and if the
\* database can execute the files of the versions that it lacks.  The file of
\* the repository for a new database is one that PostgreSQL cannot.
Newest(p) == \A q \in Process : Required[q] <= Required[p]
NewestStarts ==
  dbProvider = "postgres" /\ allowDowngrade = {} =>
    \A p \in Process :
      /\ Newest(p) /\ schema <= Required[p]
      /\ \A v \in Version : schema < v => <<dbProvider, v>> \notin Refused
      => <>(disturbed \/ pc[p] = "ready")
=============================================================================
