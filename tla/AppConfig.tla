----------------------------- MODULE AppConfig -----------------------------
(***************************************************************************)
(* The application configuration: AppConfigService                         *)
(* (backend/internal/service/app_config_service.go) over model.AppConfig   *)
(* (backend/internal/model/app_config.go).                                 *)
(*                                                                         *)
(* The configuration is kept in the table app_config_variables and cached, *)
(* in every run of the program, behind one atomic pointer.  An update is a *)
(* transaction that reloads the table, and the pointer is stored after its *)
(* commit.  A run of the program builds the service, which may write the   *)
(* instance ID, before it acquires the application lock; the lock is here  *)
(* the one owner that module AppLock shows there is.                       *)
(***************************************************************************)
EXTENDS FiniteSets

CONSTANTS
  Process,          \* the runs of the program
  Request,          \* calls of the two update methods
  Home,             \* the process that each request is made in
  NoActor,          \* not a process and not a request
  Key,              \* the "key" tags of model.AppConfig
  InstanceId,       \* the only key tagged "internal"
  Value,            \* what the other keys may be set to
  Empty,            \* the empty string
  Absent,           \* no row in the table, no variable in the environment
  Default,          \* getDefaultDbConfig
  Nullable,         \* keys that the update DTO lets be empty
  EnvValue,         \* the keys that the environment sets
  UiConfigDisabled, \* common.EnvConfig.UiConfigDisabled of each process
  ReadErrors,       \* TRUE: reading the instance ID alone may fail
  LostAnswers,      \* TRUE: a commit may take effect and still return an error
  InitialTables     \* the tables that there may be at the start

Actor == Process \cup Request
UiKey == Key \ {InstanceId}

\* An instance ID is named after the process that generated it.
Datum == Value \cup Process \cup {Empty}
Config == [Key -> Datum]
Table == [Key -> Datum \cup {Absent}]

ASSUME ActorAssumption ==
  /\ Process \cap Request = {}
  /\ NoActor \notin Actor
  /\ Home \in [Request -> Process]

ASSUME KeyAssumption ==
  /\ InstanceId \in Key
  /\ Nullable \subseteq UiKey

ASSUME DatumAssumption ==
  /\ Absent \notin Datum /\ Empty \notin Process
  /\ Default \in Config /\ Default[InstanceId] = Empty
  /\ EnvValue \in [UiKey -> Value \cup {Empty, Absent}]
  /\ InitialTables \subseteq Table

ASSUME FlagAssumption ==
  /\ UiConfigDisabled \in [Process -> BOOLEAN]
  /\ {ReadErrors, LostAnswers} \subseteq BOOLEAN

VARIABLES
  table,    \* app_config_variables, as committed
  writer,   \* whose open transaction excludes all others
  pc,       \* where each actor is
  api,      \* the update method that runs
  input,    \* the keys and values it was called with
  cfg,      \* its local variable cfg
  dbConfig, \* the atomic pointer of each process
  owner,    \* the process that holds the application lock
  history   \* every table that was ever committed

callVars == <<api, input, cfg>>
vars == <<table, writer, pc, callVars, dbConfig, owner, history>>

NoInput == [k \in {} |-> Empty]
Input == UNION {[K -> Datum] : K \in SUBSET Key}

State == {"off", "idle", "begin", "open", "updated", "committed", "booted",
          "serving", "done", "dead"}

TypeOK ==
  /\ table \in Table
  /\ writer \in Actor \cup {NoActor}
  /\ pc \in [Actor -> State]
  /\ api \in [Actor -> {"UpdateAppConfig", "UpdateAppConfigValues"}]
  /\ input \in [Actor -> Input]
  /\ cfg \in [Actor -> Config]
  /\ dbConfig \in [Process -> Config]
  /\ owner \in Process \cup {NoActor}
  /\ history \subseteq Table

Init ==
  /\ table \in InitialTables
  /\ writer = NoActor
  /\ pc = [a \in Actor |-> IF a \in Process THEN "off" ELSE "idle"]
  /\ api = [a \in Actor |-> "UpdateAppConfigValues"]
  /\ input = [a \in Actor |-> NoInput]
  /\ cfg = [a \in Actor |-> Default]
  /\ dbConfig = [p \in Process |-> Default]
  /\ owner = NoActor
  /\ history = {table}

HomeOf(a) == IF a \in Process THEN a ELSE Home[a]
InTransaction == {"open", "updated"}
Updating == {"begin", "committed"} \cup InTransaction

-----------------------------------------------------------------------------
(* What a process loads from a table, and what an update makes of it.      *)

\* Mutant: a key without a row is not given its default.
LoadedWithoutDefaults(p, t) ==
  [k \in Key |->
     LET source == IF UiConfigDisabled[p] /\ k # InstanceId THEN EnvValue ELSE t
     IN  source[k]]

\* loadDbConfigInternal, loadDbConfigFromEnv.
Loaded(p, t) ==
  [k \in Key |->
     LET source == IF UiConfigDisabled[p] /\ k # InstanceId THEN EnvValue ELSE t
     IN  IF source[k] = Absent THEN Default[k] ELSE source[k]]

\* UpdateField for each key of the input: empty stands for the default.
Applied(c, in) ==
  [k \in Key |->
     IF k \notin DOMAIN in THEN c[k]
     ELSE IF in[k] = Empty THEN Default[k] ELSE in[k]]

\* The upsert: empty is stored as it is.
Upserted(t, in) == [k \in Key |-> IF k \in DOMAIN in THEN in[k] ELSE t[k]]

-----------------------------------------------------------------------------
(* NewAppConfigService.                                                    *)

Goto(a, to) == pc' = [pc EXCEPT ![a] = to]

\* The local variables of the actors A are gone.
Forget(A) ==
  /\ api' = [a \in Actor |-> IF a \in A THEN "UpdateAppConfigValues" ELSE api[a]]
  /\ input' = [a \in Actor |-> IF a \in A THEN NoInput ELSE input[a]]
  /\ cfg' = [a \in Actor |-> IF a \in A THEN Default ELSE cfg[a]]

\* The call returns to Bootstrap, or to whoever made the request.
Return(a) == Goto(a, IF a \in Process THEN "booted" ELSE "done") /\ Forget({a})
Fail(a) == Goto(a, IF a \in Process THEN "dead" ELSE "done") /\ Forget({a})

\* Mutant: initInstanceID does not look whether there is an ID.
LoadAndRenew(p) ==
  /\ pc[p] = "off"
  /\ dbConfig' = [dbConfig EXCEPT ![p] = Loaded(p, table)]
  /\ input' = [input EXCEPT ![p] = [k \in {InstanceId} |-> p]]
  /\ Goto(p, "begin")
  /\ UNCHANGED <<table, writer, api, cfg, owner, history>>

\* LoadDbConfig, and initInstanceID up to its call of UpdateAppConfigValues.
\* Without the UI configuration an error in reading the ID goes unnoticed.
LoadDbConfig(p) ==
  /\ pc[p] = "off"
  /\ \E c \in {Loaded(p, table)} \cup
              (IF UiConfigDisabled[p] /\ ReadErrors
                 THEN {[Loaded(p, table) EXCEPT ![InstanceId] = Empty]} ELSE {}) :
       /\ dbConfig' = [dbConfig EXCEPT ![p] = c]
       /\ IF c[InstanceId] # Empty
            THEN Return(p)
            ELSE /\ input' = [input EXCEPT ![p] = [k \in {InstanceId} |-> p]]
                 /\ Goto(p, "begin")
                 /\ UNCHANGED <<api, cfg>>
  /\ UNCHANGED <<table, writer, owner, history>>

LoadFails(p) ==
  /\ pc[p] = "off"
  /\ Goto(p, "dead")
  /\ UNCHANGED <<table, writer, callVars, dbConfig, owner, history>>

-----------------------------------------------------------------------------
(* Bootstrap, after initServices.                                          *)

\* What a process had in memory is gone with it.
EmptyMemory(p) == dbConfig' = [dbConfig EXCEPT ![p] = Default]

AcquireLock(p) ==
  /\ pc[p] = "booted"
  /\ IF owner = NoActor
       THEN owner' = p /\ Goto(p, "serving") /\ UNCHANGED dbConfig
       ELSE Goto(p, "dead") /\ EmptyMemory(p) /\ UNCHANGED owner
  /\ UNCHANGED <<table, writer, callVars, history>>

\* The process stops or is stopped; the database rolls back its transactions
\* and its lock is released, or expires.
Stop(p) ==
  /\ pc[p] \notin {"off", "dead"}
  /\ pc' = [a \in Actor |-> IF HomeOf(a) = p THEN "dead" ELSE pc[a]]
  /\ Forget({a \in Actor : HomeOf(a) = p})
  /\ writer' = IF writer \in Actor /\ HomeOf(writer) = p THEN NoActor ELSE writer
  /\ owner' = IF owner = p THEN NoActor ELSE owner
  /\ EmptyMemory(p)
  /\ UNCHANGED <<table, history>>

-----------------------------------------------------------------------------
(* The update methods.                                                     *)

\* UpdateAppConfig writes every key of the DTO.
CallUpdateAppConfig(r) ==
  /\ pc[r] = "idle" /\ pc[Home[r]] = "serving"
  /\ IF UiConfigDisabled[Home[r]]
       THEN Fail(r)
       ELSE /\ \E in \in [UiKey -> Value \cup {Empty}] :
                 /\ \A k \in UiKey \ Nullable : in[k] # Empty
                 /\ input' = [input EXCEPT ![r] = in]
            /\ api' = [api EXCEPT ![r] = "UpdateAppConfig"]
            /\ Goto(r, "begin")
            /\ UNCHANGED cfg
  /\ UNCHANGED <<table, writer, dbConfig, owner, history>>

\* UpdateAppConfigValues writes the keys it is given.
CallUpdateAppConfigValues(r) ==
  /\ pc[r] = "idle" /\ pc[Home[r]] = "serving"
  /\ \E k \in UiKey, v \in Value \cup {Empty} :
       input' = [input EXCEPT ![r] = [x \in {k} |-> v]]
  /\ api' = [api EXCEPT ![r] = "UpdateAppConfigValues"]
  /\ Goto(r, "begin")
  /\ UNCHANGED <<table, writer, cfg, dbConfig, owner, history>>

\* Mutant: PostgreSQL without LOCK TABLE.
StartSharedTransaction(a) ==
  /\ pc[a] = "begin"
  /\ writer' = a
  /\ Goto(a, "open")
  /\ UNCHANGED <<table, callVars, dbConfig, owner, history>>

\* SQLite: a transaction is exclusive.  PostgreSQL: LOCK TABLE.
StartTransaction(a) ==
  /\ pc[a] = "begin" /\ writer = NoActor
  /\ writer' = a
  /\ Goto(a, "open")
  /\ UNCHANGED <<table, callVars, dbConfig, owner, history>>

\* Mutant: UpdateAppConfigValues does not look at UiConfigDisabled.
NeverRefused(a) == FALSE

Refused(a) ==
  /\ api[a] = "UpdateAppConfigValues" /\ UiConfigDisabled[HomeOf(a)]
  /\ DOMAIN input[a] \cap UiKey # {}

\* Mutant: the update starts from the configuration in memory.
UpdateFromMemory(a) ==
  /\ pc[a] = "open" /\ ~Refused(a)
  /\ cfg' = [cfg EXCEPT ![a] = Applied(dbConfig[HomeOf(a)], input[a])]
  /\ Goto(a, "updated")
  /\ UNCHANGED <<table, writer, api, input, dbConfig, owner, history>>

\* Reload the table, update the fields in memory, write the rows.
UpdateDatabase(a) ==
  /\ pc[a] = "open" /\ ~Refused(a)
  /\ cfg' = [cfg EXCEPT ![a] = Applied(Loaded(HomeOf(a), table), input[a])]
  /\ Goto(a, "updated")
  /\ UNCHANGED <<table, writer, api, input, dbConfig, owner, history>>

\* Mutant: no Rollback when a statement fails.
FailWithoutRollback(a) ==
  /\ pc[a] \in {"begin"} \cup InTransaction
  /\ Fail(a)
  /\ UNCHANGED <<table, writer, dbConfig, owner, history>>

\* An error: the deferred Rollback ends the transaction, if there is one.
UpdateFails(a) ==
  /\ pc[a] \in {"begin"} \cup InTransaction
  /\ writer' = IF writer = a THEN NoActor ELSE writer
  /\ Fail(a)
  /\ UNCHANGED <<table, dbConfig, owner, history>>

Commit(a) ==
  /\ pc[a] = "updated"
  /\ table' = Upserted(table, input[a])
  /\ history' = history \cup {table'}
  /\ writer' = NoActor
  /\ Goto(a, "committed")
  /\ UNCHANGED <<callVars, dbConfig, owner>>

\* Commit returns an error although the database has committed.
CommitUnanswered(a) ==
  /\ LostAnswers /\ pc[a] = "updated"
  /\ table' = Upserted(table, input[a])
  /\ history' = history \cup {table'}
  /\ writer' = NoActor
  /\ Fail(a)
  /\ UNCHANGED <<dbConfig, owner>>

Store(a) ==
  /\ pc[a] = "committed"
  /\ dbConfig' = [dbConfig EXCEPT ![HomeOf(a)] = cfg[a]]
  /\ Return(a)
  /\ UNCHANGED <<table, writer, owner, history>>

Progress(a) ==
  StartTransaction(a) \/ UpdateDatabase(a) \/ Commit(a) \/ Store(a)

RefusedFails(a) == Refused(a) /\ pc[a] = "open" /\ UpdateFails(a)

Next ==
  \/ \E p \in Process :
       LoadDbConfig(p) \/ LoadFails(p) \/ AcquireLock(p) \/ Stop(p)
  \/ \E r \in Request :
       CallUpdateAppConfig(r) \/ CallUpdateAppConfigValues(r)
  \/ \E a \in Actor : Progress(a) \/ UpdateFails(a) \/ CommitUnanswered(a)

Spec == Init /\ [][Next]_vars

\* A goroutine that is inside an update runs on, and its statements return.
FairSpec == Spec /\ \A a \in Actor : WF_vars(Progress(a) \/ RefusedFails(a))

-----------------------------------------------------------------------------
(* Properties.                                                             *)

\* c is what the table t stands for, to the process p: what it loads from it,
\* or the default for a value that was emptied.
Agrees(p, c, t) ==
  \A k \in Key : c[k] = Loaded(p, t)[k] \/ (t[k] = Empty /\ c[k] = Default[k])

\* The configuration in use is never a mixture: it is one that was committed,
\* as a whole, however the updates of many goroutines and processes interleave.
NoTornConfig ==
  \A p \in Process :
    pc[p] \in {"booted", "serving"} =>
      \E t \in history : Agrees(p, dbConfig[p], t)

\* What an update will store in memory is what its transaction commits.
CommitsWhatItStores ==
  [][\A a \in Actor : Commit(a) => Agrees(HomeOf(a), cfg[a], table')]_vars

\* When no update is under way, the process that serves uses the configuration
\* that the database holds.
Quiet == \A a \in Actor : pc[a] \notin Updating
FreshWhenQuiet ==
  \A p \in Process :
    Quiet /\ pc[p] = "serving" => Agrees(p, dbConfig[p], table)

\* An installation keeps the instance ID it once has, unless a process that
\* does not load its configuration from the table fails to read the ID alone:
\* that error passes for a missing row, and the process writes a new ID.
Installed == \A t \in history : t[InstanceId] \notin {Absent, Empty}
InstanceIdStable ==
  [][Installed /\ table'[InstanceId] # table[InstanceId] =>
       /\ ReadErrors
       /\ \E p \in Process :
            /\ UiConfigDisabled[p] /\ dbConfig[p][InstanceId] = Empty
            /\ table'[InstanceId] = p]_vars

\* With the UI configuration disabled in a process, its environment alone
\* decides what it uses, whatever the table holds and whatever other processes,
\* with the UI configuration enabled, write to it.
EnvDecides ==
  \A p \in Process, k \in UiKey :
    UiConfigDisabled[p] /\ pc[p] \in {"booted", "serving"} =>
      dbConfig[p][k] = IF EnvValue[k] = Absent THEN Default[k] ELSE EnvValue[k]

\* Every update that was begun ends, and no failure of one blocks another for
\* ever.  Each actor updates at most once: if all updates end, there is a time
\* after which none is under way.
UpdateEnds == []<>Quiet
=============================================================================
