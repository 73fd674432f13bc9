------------------------------ MODULE Startup ------------------------------
(***************************************************************************)
(* From the environment to an open database and a listener: the parsing    *)
(* and validation of the environment (backend/internal/common/             *)
(* env_config.go, called by backend/cmd/main.go), ConnectDatabase with the *)
(* options of SQLite (backend/internal/bootstrap/db_bootstrap.go),         *)
(* InitStorage (backend/internal/bootstrap/boostrap.go) and the listener   *)
(* (router_bootstrap.go), in their order.                                  *)
(*                                                                         *)
(* A connection string is its prefix and its options: the SQLite options   *)
(* by their other names, which Go visits in any order, the pragmas that it *)
(* lists itself, and the mode.  The names and values that differ in case   *)
(* only are different here too, and Lower maps them as strings.ToLower.    *)
(***************************************************************************)
EXTENDS Integers, Sequences

CONSTANTS
  Environments, \* what the environment, the arguments and the files may hold
  Alias,        \* the options that convertSqlitePragmaArgs converts
  PragmaOf,     \* and the pragma that each of them is
  Lower,        \* strings.ToLower, on the names that occur
  Values,       \* what a pragma may be set to
  MaxAttempts   \* 3 in the code

Pragma(name, value) == [name |-> name, value |-> value]
Pragmas == [name : DOMAIN Lower, value : Values]

ASSUME StartupAssumption ==
  /\ MaxAttempts \in Nat \ {0}
  /\ \A name \in {"foreign_keys", "busy_timeout", "journal_mode"} :
       name \in DOMAIN Lower /\ Lower[name] = name
  /\ {"1", "2500", "MEMORY", "DELETE", "WAL"} \subseteq Values
  /\ "_pragma" \notin Alias /\ PragmaOf \in [Alias -> DOMAIN Lower]
  /\ \A k \in Alias : Lower[PragmaOf[k]] = PragmaOf[k] /\ PragmaOf[k] # "journal_mode"
  /\ \A e \in Environments :
       /\ DOMAIN e.aliases \subseteq Alias
       /\ \A k \in DOMAIN e.aliases : e.aliases[k] \in Values
       /\ e.pragmas \in Seq(Pragmas)

VARIABLES
  env,      \* the environment, which does not change
  config,   \* common.EnvConfig
  pc,       \* where the program is
  todo,     \* the options that the loop has not visited
  pragmas,  \* qs["_pragma"], in order
  replaced, \* the options by another name that the listed pragmas took the place of
  attempt,  \* i, the attempts to connect
  faulted   \* TRUE once a file, a directory, the database or a service failed

vars == <<env, config, pc, todo, pragmas, replaced, attempt, faulted>>

Init ==
  /\ env \in Environments
  /\ config = [dbProvider |-> "sqlite", connString |-> "", uploadPath |-> "",
               port |-> "14701111"]
  /\ pc = "parse"
  /\ todo = {} /\ pragmas = <<>> /\ replaced = {}
  /\ attempt = 1
  /\ faulted = FALSE

Goto(to) == pc' = to

\* An error ends the program.
Fail == Goto("failed") /\ UNCHANGED <<env, config, todo, pragmas, replaced, attempt, faulted>>

-----------------------------------------------------------------------------
(* The environment.                                                        *)

\* parseEnvConfig, before main: a file that a *_FILE variable names is read.
ParseEnv ==
  /\ pc = "parse" /\ env.filesReadable
  /\ config' = [config EXCEPT !.connString = env.connString,
                              !.uploadPath = env.uploadPath,
                              !.port = IF env.port = "" THEN config.port ELSE env.port]
  /\ Goto("validate")
  /\ UNCHANGED <<env, todo, pragmas, replaced, attempt, faulted>>

ParseFails == pc = "parse" /\ ~env.filesReadable /\ Fail

SkipValidation == env.argument \in {"--help", "version"}

\* What ValidateEnvConfig checks; PORT is not among it.
Valid ==
  /\ env.encryptionKey = "long"
  /\ env.fileBackend \in {"filesystem", "database", "s3"}
  /\ env.othersValid

WithDefault(value, default) == IF value = "" THEN default ELSE value

\* Mutant: an upload path that is not given gets no default.
ValidateWithoutUploadPath ==
  /\ pc = "validate" /\ (SkipValidation \/ Valid)
  /\ config' =
       IF SkipValidation THEN config
       ELSE [config EXCEPT
               !.dbProvider = IF config.connString = "postgres" THEN "postgres" ELSE "sqlite",
               !.connString = WithDefault(@, "file")]
  /\ Goto("execute")
  /\ UNCHANGED <<env, todo, pragmas, replaced, attempt, faulted>>

\* ValidateEnvConfig: with -h, --help, "help" or "version" among the arguments
\* nothing is checked and nothing is set.
Validate ==
  /\ pc = "validate" /\ (SkipValidation \/ Valid)
  /\ config' =
       IF SkipValidation THEN config
       ELSE [config EXCEPT
               !.dbProvider = IF config.connString = "postgres" THEN "postgres" ELSE "sqlite",
               !.connString = WithDefault(@, "file"),
               !.uploadPath = IF env.fileBackend = "filesystem"
                                THEN WithDefault(@, "data/uploads") ELSE @]
  /\ Goto("execute")
  /\ UNCHANGED <<env, todo, pragmas, replaced, attempt, faulted>>

ValidateFails == pc = "validate" /\ ~SkipValidation /\ ~Valid /\ Fail

\* rootCmd shows its usage for the flag only: it has no subcommands, so "help"
\* and "version" are arguments of the command that starts the server.
Execute ==
  /\ pc = "execute"
  /\ Goto(IF env.argument = "--help" THEN "usage" ELSE "connect")
  /\ UNCHANGED <<env, config, todo, pragmas, replaced, attempt, faulted>>

-----------------------------------------------------------------------------
(* ConnectDatabase.                                                        *)

\* The options of the connection string: none in the default one.
Explicit == env.pragmas # <<>>
Given == DOMAIN env.aliases \cup (IF Explicit THEN {"_pragma"} ELSE {})

\* The switch on the provider, and the start of the loop over the options.
SelectDatabase ==
  /\ pc = "connect" /\ config.connString # ""
  /\ IF config.dbProvider = "sqlite"
       THEN config.connString # "malformed" /\ Goto("convert") /\ todo' = Given
       ELSE Goto("open") /\ UNCHANGED todo
  /\ UNCHANGED <<env, config, pragmas, replaced, attempt, faulted>>

\* A missing connection string, or one that url.Parse does not accept.
ConnStringRefused ==
  /\ pc = "connect"
  /\ config.connString = "" \/ (config.dbProvider = "sqlite" /\ config.connString = "malformed")
  /\ Fail

\* Mutant: an option by its other name is set as the only pragma, not added.
ConvertBySetting(k) ==
  /\ pc = "convert" /\ k \in todo
  /\ todo' = todo \ {k}
  /\ IF k = "_pragma"
       THEN pragmas' = env.pragmas /\ replaced' = DOMAIN env.aliases \ todo
       ELSE pragmas' = <<Pragma(PragmaOf[k], env.aliases[k])>> /\ UNCHANGED replaced
  /\ UNCHANGED <<env, config, pc, attempt, faulted>>

\* convertSqlitePragmaArgs: an option by its other name is added to the pragmas,
\* and the listed pragmas take the place of all that were added before.
Convert(k) ==
  /\ pc = "convert" /\ k \in todo
  /\ todo' = todo \ {k}
  /\ IF k = "_pragma"
       THEN pragmas' = env.pragmas /\ replaced' = DOMAIN env.aliases \ todo
       ELSE pragmas' = Append(pragmas, Pragma(PragmaOf[k], env.aliases[k])) /\ UNCHANGED replaced
  /\ UNCHANGED <<env, config, pc, attempt, faulted>>

\* Mutant: names are compared as they are spelled.
HasAsSpelled(name) == \E i \in DOMAIN pragmas : pragmas[i].name = name

Has(name) == \E i \in DOMAIN pragmas : Lower[pragmas[i].name] = name

InMemory == Lower[env.mode] = "memory"
ReadOnly == Lower[env.mode] = "ro" \/ env.immutable

Journal == IF InMemory THEN "MEMORY" ELSE IF ReadOnly THEN "DELETE" ELSE "WAL"

\* addSqliteDefaultParameters.
AddDefaultParameters ==
  /\ pc = "convert" /\ todo = {} /\ ~Has("foreign_keys")
  /\ pragmas' =
       pragmas
       \o (IF Has("busy_timeout") THEN <<>> ELSE <<Pragma("busy_timeout", "2500")>>)
       \o (IF Has("journal_mode") THEN <<>> ELSE <<Pragma("journal_mode", Journal)>>)
       \o <<Pragma("foreign_keys", "1")>>
  /\ Goto("prepare")
  /\ UNCHANGED <<env, config, todo, replaced, attempt, faulted>>

ForbiddenOption == pc = "convert" /\ todo = {} /\ Has("foreign_keys") /\ Fail

\* ensureSqliteDatabaseDir, for a file, and ensureSqliteTempDir, which looks at
\* no directory if the environment names one.
PrepareDirs ==
  /\ pc = "prepare"
  /\ \/ Goto("open") /\ UNCHANGED faulted
     \/ /\ ~(InMemory /\ env.tempDirSet)
        /\ Goto("failed") /\ faulted' = TRUE
  /\ UNCHANGED <<env, config, todo, pragmas, replaced, attempt>>

Open ==
  /\ pc = "open"
  /\ Goto("migrate")
  /\ UNCHANGED <<env, config, todo, pragmas, replaced, attempt, faulted>>

OpenFails ==
  /\ pc = "open"
  /\ IF attempt < MaxAttempts
       THEN attempt' = attempt + 1 /\ UNCHANGED <<pc, faulted>>
       ELSE Goto("failed") /\ faulted' = TRUE /\ UNCHANGED attempt
  /\ UNCHANGED <<env, config, todo, pragmas, replaced>>

-----------------------------------------------------------------------------
(* The rest of Bootstrap.                                                  *)

\* A step that may fail for reasons that are not in the environment.
MayFail(to) == (Goto(to) /\ UNCHANGED faulted) \/ (Goto("failed") /\ faulted' = TRUE)

\* MigrateDatabase, see module Migration.
MigrateDatabase ==
  /\ pc = "migrate" /\ MayFail("storage")
  /\ UNCHANGED <<env, config, todo, pragmas, replaced, attempt>>

\* Only the filesystem is implemented; its directory must have a name.
InitStorage ==
  /\ pc = "storage" /\ env.fileBackend = "filesystem" /\ config.uploadPath # ""
  /\ MayFail("services")
  /\ UNCHANGED <<env, config, todo, pragmas, replaced, attempt>>

InitStorageFails ==
  /\ pc = "storage" /\ (env.fileBackend # "filesystem" \/ config.uploadPath = "")
  /\ Fail

\* The scheduler, the services and the lock: see AppConfig, AppLock and Lifecycle.
InitServices ==
  /\ pc = "services" /\ MayFail("listen")
  /\ UNCHANGED <<env, config, todo, pragmas, replaced, attempt>>

\* net.Listen, with a port that exists.
Listen ==
  /\ pc = "listen" /\ config.port = "8080"
  /\ MayFail("started")
  /\ UNCHANGED <<env, config, todo, pragmas, replaced, attempt>>

ListenFails == pc = "listen" /\ config.port # "8080" /\ Fail

Next ==
  \/ ParseEnv \/ ParseFails \/ Validate \/ ValidateFails \/ Execute
  \/ SelectDatabase \/ ConnStringRefused
  \/ \E k \in Alias \cup {"_pragma"} : Convert(k)
  \/ AddDefaultParameters \/ ForbiddenOption \/ PrepareDirs \/ Open \/ OpenFails
  \/ MigrateDatabase \/ InitStorage \/ InitStorageFails \/ InitServices
  \/ Listen \/ ListenFails

Spec == Init /\ [][Next]_vars

\* The program runs on: one goroutine, and no call that blocks for ever.
FairSpec == Spec /\ WF_vars(Next)

-----------------------------------------------------------------------------
(* Properties.                                                             *)

\* The options of SQLite are final: the driver gets them when it connects.
Prepared == config.dbProvider = "sqlite" /\ pc \in {"prepare", "open", "migrate", "storage",
                                                 "services", "listen", "started"}

\* The driver executes the pragmas in the order they are listed.
Listed(name) == {i \in DOMAIN pragmas : Lower[pragmas[i].name] = name}
InEffect(name) ==
  pragmas[CHOOSE i \in Listed(name) : \A j \in Listed(name) : j <= i].value

\* However the options are spelled and in whatever order they are visited, a
\* connection that is opened has foreign keys on, and no option mentions them.
ForeignKeysEnforced ==
  Prepared => Listed("foreign_keys") = {Len(pragmas)} /\ InEffect("foreign_keys") = "1"

\* What the connection string gives for a pragma, by either kind of option.
ByAlias(name) == {env.aliases[k] : k \in {a \in DOMAIN env.aliases : PragmaOf[a] = name}}
ByPragma(name) ==
  {env.pragmas[i].value : i \in {j \in DOMAIN env.pragmas : Lower[env.pragmas[j].name] = name}}

\* The connection has a value for the pragma, and one that its string gives.
AsGiven(name) ==
  Listed(name) # {} /\ InEffect(name) \in ByPragma(name) \cup ByAlias(name)

\* Whatever the order in which the options were visited: every pragma that the
\* connection string lists is in effect, with a value that it gives, and so is
\* every option by another name, but those in whose place the listed pragmas
\* came, of which there are none if none is listed (the comment at line 158 of
\* db_bootstrap.go, "To ensure that people can use similar args as in the C
\* driver", excepts none); and a database that cannot have a write-ahead log has
\* one only if its connection string lists it.
OptionsInEffect ==
  Prepared =>
    /\ \A name \in {Lower[s] : s \in DOMAIN Lower} : ByPragma(name) # {} => AsGiven(name)
    /\ \A k \in DOMAIN env.aliases \ replaced : AsGiven(PragmaOf[k])
    /\ replaced # {} => Explicit
    /\ Has("journal_mode")
    /\ InEffect("journal_mode") = "WAL" /\ (InMemory \/ ReadOnly) =>
         "WAL" \in ByPragma("journal_mode")

\* What the validation does not ask for, and the program needs: a port, for the
\* default one is none; the one file backend there is, although the validation
\* calls the others valid as well; a connection string that can be parsed and
\* leaves the foreign keys alone.
Startable ==
  /\ env.port = "8080" /\ env.fileBackend = "filesystem"
  /\ config.dbProvider = "sqlite" =>
       /\ config.connString # "malformed"
       /\ ByAlias("foreign_keys") \cup ByPragma("foreign_keys") = {}

\* A configuration that was checked and accepted, with a port and a backend that
\* exist and a sound connection string, starts the server, unless something that
\* is not in the environment fails.
AcceptedStarts ==
  pc = "execute" /\ ~SkipValidation /\ Startable ~> pc = "started" \/ faulted
=============================================================================
