# Vocy in TLA+

This directory holds TLA+ models of the parts of Vocy's backend in which timing,
concurrency or failure decide whether the program is right, the TLC configurations
that check them, and machine-checked proofs of the results that matter most.

    tlc -config MCAppLockSafe.cfg MCAppLock.tla      # one run
    tlapm AppLockProofs.tla                          # the proofs of one module

`PROJECT.json` lists the components, the runs, a mutant for every property (a
plausible bug in one definition, with which the property must fail), the source
lines that each definition stands for, the hazards of the code and the theorems.

## 1. The system

Vocy is one Go program (`backend/cmd/main.go`): a Gin web server over SQLite or
PostgreSQL. `Bootstrap` builds everything in a fixed order and then runs three
services until a signal cancels their context. Several processes may be started
on one database (a rolling upgrade, a restart while the old process is still
draining, a second container): the application lock exists so that one of them serves.

| Component | State | Operations | Hard behaviour |
|---|---|---|---|
| Application lock, `service/app_lock_service.go` | row `application_lock` of the table `kv`: lock_id, expires_at; in memory the lock_id | Acquire (SELECT, upsert, commit), RunRenewal/renew, Release | several processes, real time, statements that time out and may have been executed, retries, clocks that differ, crashes without Release |
| Bootstrap, signals and ServiceRunner, `bootstrap/boostrap.go`, `utils/signals`, `utils/servicerunner.go` | context, list of shutdown functions | start services, wait for the lock, cancel, drain, shut down | early returns that skip a later registration, shutdown longer than a lease, os.Exit |
| Application configuration, `service/app_config_service.go`, `model/app_config.go` | table `app_config_variables`; atomic pointer `dbConfig` in each process | NewAppConfigService (load, instance ID), UpdateAppConfig, UpdateAppConfigValues | concurrent updates, a commit and a later store in memory, commits that go unanswered, two boots at once, environment against table |
| Rate limiting, `middleware/rate_limit.go` | map from address to limiter and lastSeen, mutex | the handler, getLimiter, cleanupClients | a limiter is used after the mutex is released; removing an entry forgets what was spent |
| File storage, `storage/filesystem.go` | a directory tree | Save, Open, Delete, DeleteAll, List, Walk | interleaved system calls, half-done saves, errors after a temporary file exists, crashes |
| Database connection, `bootstrap/db_bootstrap.go` | none after start | normalise the connection string, connect with retries | options visited in the random order of a Go map, a bounded retry loop |
| Migrations, `utils/db_migration_util.go` | the table of the schema version and its dirty flag | migrate up, or down with migrations from GitHub | several releases boot at once, before the lock; no lock of its own on SQLite; a crash within a migration; a version read early and forced late |
| Environment, `common/env_config.go` | `EnvConfig` | parse, resolve files, validate | values that pass validation and are rejected later |
| Scheduler, `job/scheduler.go` | gocron | register, run, shut down | no job is registered at this commit |
| HTTP router, middleware and frontend, `bootstrap/router_bootstrap.go`, `middleware/*`, `frontend/` | none but the request's | HEAD conversion, error handler, file server, redirects | several components rewrite one request; redirects that lead back; CORS and CSP are registered nowhere |
| Crypto and column types, `utils/crypto`, `model/types` | none | encrypt, decrypt, scan, value | conversions |
| Observability, systemd | none of their own | set up libraries | only that their start may fail |

How they interact: Bootstrap opens the database (which migrates it), the storage and
the scheduler, builds the services (the configuration is loaded and may write the
instance ID **before** the lock is held), acquires the lock, waits for a lease it took
over by force, and runs RunRenewal, the router and the scheduler in one ServiceRunner.
The first service that fails, or a signal, cancels the others; when all have returned,
the shutdown functions run and one of them releases the lock.

What must be true of each component:

- **Lock**: at most one process acts on a valid lease; a lease in use is backed by the
  row; the row changes hands only when the earlier lease is over; a dead process never
  comes back; whoever is told to stop stops.
- **Configuration**: the configuration in use is one that was committed as a whole and
  is the current one when nothing is under way; an installation keeps its instance ID;
  the environment alone decides where it is meant to; an update always ends.
- **Rate limiting**: no client gets more through than its burst and what it regained,
  whatever the cleanup removes; the map does not grow for ever.
- **Storage**: objects are replaced as a whole and a failed call changes nothing; what a
  successful DeleteAll or listing says is complete; temporary files go away.
- **Migrations**: what is recorded as clean is true; a process that starts finds the schema
  it needs; the newest release gets to start.
- **Connection and environment**: foreign keys are on and the options that were given in
  effect, in every order of visits; what validation accepts starts.
- **HTTP**: every request is answered in the end; a HEAD is answered like its GET.

## 2. Modules

| Module | Models | Extends or instantiates |
|---|---|---|
| `AppLease` | what the lock promises: leases, no database | |
| `AppLock` | the lock and Bootstrap's order of calls | instance of `AppLease` (refinement) |
| `AppLockProofs` | theorems about `AppLock`, the refinement included | `AppLock` |
| `AppLockPromptProofs` | theorems about `AppLock` with prompt handlers | `AppLockProofs` |
| `AppConfig` | the configuration service | |
| `AppConfigProofs` | theorems about `AppConfig` | `AppConfig` |
| `TokenBucket` | what rate limiting promises: a bucket per client | |
| `RateLimit` | handler, map of limiters, cleanup | instance of `TokenBucket` (refinement) |
| `RateLimitProofs` | theorems about `RateLimit`, the refinement included | `RateLimit` |
| `ObjectStore` | what a FileStorage promises: whole objects | |
| `FileStorage` | the methods, system call by system call | instance of `ObjectStore` (refinement) |
| `FileStorageProofs` | theorems about `FileStorage` | `FileStorage` |
| `ServiceRunner` | one run of a ServiceRunner: its goroutines, context and errors | |
| `Lifecycle` | a process from main to its exit | two instances of `ServiceRunner` |
| `LifecycleProofs` | theorems about `Lifecycle` | `Lifecycle` |
| `Migration` | MigrateDatabase, by any number of processes and releases | |
| `MigrationProofs` | theorems about `Migration` | `Migration` |
| `Startup` | environment, connection string, database, storage, listener | |
| `StartupProofs` | theorems about `Startup` | `Startup` |
| `Http` | one request through middleware, routes and file server | |
| `MC...` | values of constants for TLC | the module they name |

Definitions whose comment begins with "Mutant:" are wrong on purpose and no other
definition uses them.

### AppLock

A *process* is one run of the program with a lock_id of its own. `pc[p]` follows
Acquire (`boot`, `selected`, `stamped`, `written` or `refused`), Bootstrap (`waiting`),
the services (`running`, `renewing`, `retrying`, `draining`), the shutdown function
(`releasing`) and the end (`exited`). The clock `now` is in seconds; `Skew[p]` is how
far the wall clock of p runs ahead. Between any two steps any time may pass, unless
`Prompt` is TRUE; then timers fire and handlers run at the moment they are due.

- `dialect` is the database all processes use, chosen once among the constant `Dialects`.
  SQLite runs an IMMEDIATE transaction that excludes every other writer from its
  SELECT on. PostgreSQL's `SELECT ... FOR UPDATE` locks the row, if there is one
  (`SelectLocks`); the upsert then locks it or the key (`locker`).
- `AcquireStamp` is the `time.Now()` of line 101: a step of its own, because the
  statement that carries the reading may execute much later.
- `AcquireFail` is the end of Acquire's transaction. On PostgreSQL that may be after the end of its
  process, when a COMMIT that was sent is executed or a broken connection noticed; until then the
  model's process is still in Acquire. What `DeadStayDead` says begins with that step.
- A renewal that fails (`RenewFails`) or a Release may have had no effect, have had its
  effect, or, if `LateStatements`, have it later (`Unanswered`, `LateExecutes`).
- `lease[p]` is the last expiry that was acknowledged to p, `waitUntil[p]` the result of
  Acquire: what p may rely on. `Valid(p)` says that it may act now, even if another
  clock is `MaxSkew` ahead.

### AppConfig

The actors are processes (their boot may update) and requests (the two update methods).
`table` is the committed table, `writer` the exclusive transaction (SQLite's IMMEDIATE,
PostgreSQL's LOCK TABLE), `cfg[a]` the local copy an update builds, `dbConfig[p]` the
atomic pointer. An update is begin, open, updated (rows written), committed and then the
store in memory, a step after the commit; it may fail at each, and a commit may take
effect and still return an error. `history` records the tables that were committed. The
lock is one owner (`owner`): that is what `AppLock` shows. UI_CONFIG_DISABLED is a setting
of each process, so two processes on one database may differ in it: one then loads from
the environment while the other writes the table.

### RateLimit

Tokens are counted in the time that it takes to regain them, so a request costs
`Cost = 1/limit` and a full limiter holds `Capacity = burst/limit`. A handler is `idle`,
`limited` (it has its limiter and has released the mutex), then `passed` or `aborted`.
The limiters are objects: one whose entry was removed lives on while a handler holds it.
`MaxHold` bounds the time from getLimiter to Allow, and `IdleAssumption` says
`Capacity + MaxHold <= IdleLimit`; the code's values are 100 s (API) and 30 s (frontend)
against 180 s, which leaves a handler 80 s.

### FileStorage

A *call* is one call of one method; its name is also the name of its temporary file.
Directories are one level deep. Each system call is one step. DeleteAll, List and Walk
read directories (`unread`) and visit what they found (`todo`) in any order; entries may
come, go and be replaced in between. A directory is read in one step, although a large one takes
several getdents calls: what comes or goes between these is in the list or not, as if it had come
or gone before or after the one step, but two such changes need not fit the same moment. The
properties speak only of entries that are there throughout. The contents are whole data or `Torn`. A crash
ends every call where it is, and new calls may follow.

### Lifecycle

One process; what it does with the database is in the other modules, here it succeeds or
fails. `pc` is where main and Bootstrap are, `NextStep` the order of the steps. Up to
`router` nothing else runs; then the services run in one ServiceRunner (`serve...`) and,
after Bootstrap has decided what to return, the shutdown functions in another (`stop...`).
A goroutine of a runner is `idle`, `running`, at its send (named by what it returns) or
`received`. The signal handler has its channel (`sigCh`); a second signal, and an error of
`srv.Serve`, are `os.Exit` and run nothing that was deferred. The server's goroutine is not
one of the runner's: it may call Serve after Shutdown was called. `closing` says that
Shutdown was called, `overran` that it gave up on requests after five seconds. A connection
that asks for `Upgrade: h2c` is taken from the server (`hijacked`, `UpgradeH2c`): its requests
(`streams`) begin and end without regard to Shutdown, which neither closes the connection nor
waits for it. `exporters` are those that run, of `traces`, `metrics` and `logs`; the first two
register a shutdown function, the last one never does, and `discarded` says that the functions
were dropped because a later exporter did not start (`DiscardFns`). `lock` is
whose lock the row names; `TakenOver`, another process's step, is what remains of `AppLock`.

### Migration

The processes of several releases (`Required` is the version each one's embedded files end
with) run MigrateDatabase against one database, before any of them asks for the application
lock. `recorded` and `dirty` are golang-migrate's table, `schema` the version the tables
really are in. `ReadVersion` is the unlocked read of line 33, which decides between
migrating, refusing and forcing; `Migrate` reads the version again, and each migration is
`Mark` (dirty), `Body` (the file, one transaction) and `Clean`. A file fails on a schema it was not
written for, and where the database refuses its SQL (`Refused`); a down file that does not exist
(`NoDown`) is a migration that does nothing. The instance says of version 1 what the repository's
files say: `postgres/20241211111554_init.up.sql` begins with a PRAGMA, which PostgreSQL refuses, and
there is no down file beside it. Only PostgreSQL's driver holds an advisory lock meanwhile. A process may
stop before any statement and be started again. golang-migrate's part is external, as the
code uses it.

### Startup

The environment is chosen once. `pc` follows the program from `parse` (before main) to
`started`. A connection string is its prefix (`file`, `postgres`, `malformed` or missing) and
its options: `env.aliases`, the names of the old driver, and `env.pragmas`, the listed ones.
`Convert` visits one option at a time, in any order, as Go ranges over a map. `Lower` is
strings.ToLower on the names that occur, so options may be spelled in capitals. `replaced` records
which aliases the listed pragmas took the place of. `faulted`
tells apart what the environment causes from what fails by itself (`MayFail`).

### Http

One request and the client that made it. A URL is what its path names, whether it ends in a
slash and whether a query follows. HEAD becomes GET before the routes and the writer is
replaced (`ConvertHead`), the rate limit lets pass or aborts, the frontend's handler
redirects, answers or copies a file in chunks, the error handler adds its answers, and
HeadMiddleware sets the length at the end. A client follows redirects (`Follow`).

## 3. Runs

| Run | Shows | Bounds |
|---|---|---|
| `lock_safe` | SQLite and PostgreSQL, clocks 1 s apart, unbounded delays, lost answers, crashes: a valid lease is backed by the row (`LeaseBacked`) and no two processes hold one (`LeaseExclusion`), the row changes hands only after expiry (`TakenWhenOver`), the lock implements `AppLease` | 2 processes, ttl 3, 2 attempts, 5 s |
| `lock_force` | acquisitions with force. SQLite: no two valid leases (`ForcedExclusion`). Both, and on PostgreSQL statements that execute after their timeout: a process that is gone, with no transaction left, and no longer named in the row never comes back (`DeadStayDead`) | 2 processes, ttl 2, 4 s |
| `lock_prompt` | prompt processes whose ttl covers interval, attempts, shutdown and skew: serving is bounded by `Span`, one process serves, none is told ErrLockLost (`NeverLost`), a canceled process exits (`CanceledExits`) | ttl 7, interval 2, 12 s |
| `lock_shipped` (violation) | the constants as shipped do not satisfy that inequality: two processes serve at once | the code's own constants, 60 s |
| `config_safe` | boots on an empty table or one in use, updates at once, unanswered commits, failed reads, stops anywhere, and one process with the UI configuration disabled: no torn configuration, what is stored is what is committed, the environment decides where it should, an installed ID stays, updates end | 2 processes, 3 requests, 2 keys and the ID, 2 values |
| `config_stale` (violation) | two updates commit in one order and store in the other | 1 process, 2 requests |
| `rate_limit` | admissions are bounded, no replaced limiter is asked, entries are forgotten in time, one bucket per client | 2 limited clients and a local one, 2 handlers, 4 limiters, 6 s |
| `lifecycle` | the lock outlives every request on a connection of the server (`ServesUnderLock`), nothing is left when Bootstrap returns but what is named (`NothingLeft`), a lock is left only with an error, the exit code tells a failed service, whoever is told to stop stops (`StopsWhenTold`) | the code's 3 connection attempts, 1 place in the signal channel, 1 request and 1 stream |
| `file_storage` | whole objects, no debris, complete deletions and listings, `ObjectStore` | 3 calls of any method, 2 objects in 2 directories, 2 contents |
| `migration` | a clean record is true (`RecordedIsSchema`), a started process finds its schema (`ReadyIsCovered`), a lone downgrade keeps the record true (`LoneDowngrade`), the newest release starts if its files can be executed (`NewestStarts`) | an old process and two new ones, versions 0 to 3, both databases, every initial version |
| `startup` | foreign keys are on (`ForeignKeysEnforced`), options are in effect but those that the listed pragmas took the place of (`OptionsInEffect`), what validation accepted starts (`AcceptedStarts`) | 3072 environments; 4128 connection strings with 4 aliases, of which 2 are for one pragma, and at most 2 of 6 listed pragmas |
| `http_redirect` (violation) | a missing path with a slash and a query is redirected to itself for ever | assets of up to 5 units, 2 at a time |

Why the bounds are enough:

- The lock's row has one owner, so a violation needs the owner and one other process;
  a third only adds a further owner in sequence. The durations are scaled so that every
  order of expiry, tick, attempt and takeover occurs before `MaxNow`, the one bound on
  time. Nothing depends on their size but the inequality that `lock_prompt` satisfies
  with equality up to a second and `lock_shipped` does not; the theorems cover all values.
- An update interacts with at most one other at a time, since transactions are exclusive;
  two requests and two boots give every pair. Two ordinary keys are needed to tell a mixture
  from either of its parts.
- In `rate_limit` the clock runs long enough for an entry to be used up, become stale, be
  removed, be made again and be used up again, while one handler is suspended.
- In `file_storage` any two methods meet a third one; a path in the root and one in a
  subdirectory give every case of the directory walk.
- `lifecycle` has the code's own constants but for two. One request is enough to be handled
  while the server shuts down, and the server's state depends on no more than whether there is one.
  One place in the signal channel, for the code's two, only means that a second signal is sent when the
  first was received; the safety properties are theorems for every size, and with two places
  TLC finds the liveness to hold as well, in twice the time.
- In `migration` two processes of one release meet in every pair of statements while a third,
  older one finds a newer version, migrates less far or goes back; two versions are needed for a
  migration that is half done and for a process that has one step to do where another has two. Version
  1 stands for the repository's; that the two later ones can be executed, and that one of them has
  no down file for SQLite, is an assumption of the instance about files that do not exist yet.
- In `startup` two listed pragmas and four aliases give every order of an alias before and after
  the list, of two aliases of one pragma, and of two pragmas of one name. All environments that
  differ in one of the settings that the program looks at are initial states.

Symmetry is used only where nothing distinguishes the elements: processes with equal
clocks (never with a liveness property), handlers, limiters and limited clients, calls and
contents. `CHECK_DEADLOCK FALSE` stands where the system may stop: all processes have
exited, all calls have returned, the process has exited, or the clock is at its bound.

**Fairness.** `AppLock!FairSpec` assumes weak fairness of each process's own steps: goroutines run
on and every statement returns, because the driver gives up on it after `OpTimeout` (line 267) or
the canceled context. Crashes, signals, and the outcome of a statement have no fairness.
`AppConfig!FairSpec` assumes it of the steps inside an update, for the same reason; that an update
fails is never assumed, except where the code refuses it. `Lifecycle!FairSpec` assumes it of
Bootstrap, which only waits with a timeout or for its services; of the router's Shutdown, which has
one of five seconds; of RunRenewal and the scheduler once they are canceled; of the shutdown
functions; and of the signal handler. Requests need not end, signals and failures need not come. No
fairness makes a lock or transaction available: each holder's own steps do. `Migration!FairSpec`
assumes it of each process's statements (a wait for the advisory lock that times out is a `Stop`,
which disturbs), `Startup!FairSpec` of the one goroutine there is, and `Http!FairSpec` of the
handlers and of a client that follows redirects.

## 4. What the runs found

1. **Two servers with the shipped constants** (`lock_shipped`). After the last good
   renewal 20 s pass to the next tick, three attempts of 3 s with 1 s between them take
   11 s, and the server may take 5 s to shut down: 36 s, but the lease is over after 30 s.
2. **A stale configuration stays in use** (`config_stale`). The pointer is stored after the
   commit has ended the exclusive transaction, so of two updates the earlier one may store last.
3. **A redirect to the same URL** (`http_redirect`). The slashes are taken from the end of the
   whole URL, so `/foo/?x=1` is redirected to `/foo/?x=1`.

Further observations, from other values of the constants, or from a property without one of the
exceptions it states (TLC then finds a behaviour of the code that violates it):

- With force on PostgreSQL, the SELECT of Acquire locks nothing when there is no row, and a
  forced upsert may replace a lease it did not see, with no wait (`MCAppLockForce.cfg` with
  `LeaseExclusion` for `ForcedExclusion` is violated). No caller passes force.
- A forced acquisition does not renew while it waits; its own lease may end meanwhile and the
  first renewal then reports ErrLockLost (`NeverLost` with `ForceArgs = {TRUE}`).
- A process loads its configuration before it holds the lock, and what the earlier owner
  commits in between is not seen; two first boots at once each store an instance ID and the
  second one stays (`InstanceIdStable` with `InitialTable <- FirstBoot`).
- With the UI configuration disabled, an error in reading the stored instance ID passes for its
  absence, and a new one replaces it (`ReadErrors = TRUE`).
- The shutdown functions share a ServiceRunner, so one that fails cancels the context of the
  others: an exporter that cannot be reached may leave the lock in the database until it expires
  (`boostrap.go:23`, `servicerunner.go:41`; that is why `LockLeftOnFailure` speaks of any of them).
- When the metrics cannot be started, the trace exporter that was is not shut down
  (`observability_boostrap.go:71`); the log exporter and its BatchProcessor have no shutdown function
  at all (line 108), so what is logged last is never sent. `NothingLeft` excepts both: without
  `"logs"`, or without `discarded`, it is violated. A process
  that is canceled while it waits for the earlier
  lease leaves its own lock (`boostrap.go:64`): the release is registered after the wait.
- `h2c.NewHandler` (`router_bootstrap.go:100`) takes connections that ask for `Upgrade: h2c` from the
  server, and http2.ConfigureServer is not called: Shutdown returns in time, the lock is released, and
  requests on these connections run on and begin (`ServesUnderLock` with `requests + streams` for
  `requests` is violated), although this is said to be a graceful shutdown (line 148).
- An emptied value is its default in memory and empty in the table, so it is the default until the
  next load, by a restart or any other update, and empty from then on; the comment at
  `app_config_service.go:177` speaks of the first only (`Agrees` admits both).
- On SQLite two first boots can leave the version dirty for ever, without any crash: both mark
  it, the second file fails on the tables of the first, and the mark may come after the other's
  `Clean` (`NewestStarts` without `dbProvider = "postgres"`).
- The version that a downgrade forces was read without a lock. With two downgrading processes, with
  one that goes back by two releases, or after a failure, it can overwrite a newer record
  (`LoneDowngrade` without one of its conditions). The advice of `db_migration_util.go:49`, to
  downgrade after a failed migration, leads there: the down migration fails on a schema that was
  never migrated up.
- Migrations precede the application lock, so the schema changes under a process of the older
  release that still serves. The PostgreSQL migration creates no table `kv` and has no way down:
  golang-migrate takes the missing file for an empty migration.
- That migration cannot be executed either: it begins with `PRAGMA foreign_keys=OFF`, and has a comma
  before a closing parenthesis. The first start on a new database leaves version 1 dirty, and every
  later one is refused for that (`NewestStarts` without its condition on `Refused` is violated). So
  what is said of PostgreSQL here is said of databases that were made in another way, or of files
  that are repaired.
- A connection string with both listed pragmas and options by other names keeps or loses the latter
  as the map is visited (`db_bootstrap.go:182`), although people should be able "to use similar args
  as in the C driver" (line 158): `OptionsInEffect` names those that are lost (`replaced`), and is
  violated without that.
- The backends `s3` and `database` are accepted (`env_config.go:168`, "All good, these are valid
  values") and refused by InitStorage (`boostrap.go:124`) after the database was migrated. The
  default port `14701111` (`env_config.go:94`) is no port, so a program whose PORT is not set fails
  to listen after it has acquired the lock; `vocy version` and `vocy help` skip the validation and
  start the server, since there are no subcommands. `Startable` lists what `AcceptedStarts` leaves
  out.
- `mode=MEMORY` in lower case decides for `isSqliteInMemory` even where the name `MODE` is no option
  that SQLite knows; a database is then a file with the settings of one in memory.
- `headWriter.Write` returns its total, so io.Copy stops with an error after the second chunk, and a
  HEAD of a file over 64 KiB announces 64 KiB (`Http!HeadSwallowsBody` in the place of
  `MissingServesIndex`). Directories are redirected for ever as well: http.FileServer adds a slash
  and the handler takes it away. An error of writeIndexFn makes the error handler write a second
  body.
- List and Walk return the temporary files of saves under way, and fail when one of them is
  renamed before Info. A crash within Save leaves a file that nothing removes.

## 5. Proofs

TLAPS proves these for every value of the constants that the modules' ASSUMEs admit.

**AppLockProofs.** `TypeCorrect`: types, for both dialects, with force and late statements.
`RowInv`, for both dialects as well: whoever is past its upsert holds the row's lock (`UpsertLocks`),
a clock reading is in the past (`StampPast`), and what an upsert found in the row is still there
(`WrittenOver`). Then the row changes only by the commit of such a process, or by a statement of
the process that it names (lemma `RowStep`), from which follow

- `DeadStayDeadTheorem`, without any condition: a process that is gone, with its transaction, does
  not come back;
- `TakenWhenOverTheorem`, if no caller passes force, also where statements execute late.

`LeaseBackedTheorem` and `LeaseExclusionTheorem`: if no caller passes force and no statement executes
after its caller gave up (`Restricted`), then for any number of processes, any durations, any delays
and any bounded difference of clocks a valid lease is backed by the row, and hence two processes
never hold one. `LeaseBacked` is not inductive: `LeaseInv` adds that a lease is at most ttl longer than
a clock reading (`LeaseSpan`), that nobody's lease is live when another's upsert has been accepted
(`WrittenAlone`), and the same as `LeaseBacked` without the wait (`LiveBacked`). The step that
matters is the upsert: it is accepted only if the row's expiry is *before* a reading already in the past,
so every live lease, which the row backs, would be over. `Live` includes the second in which the
lease ends, as the comparison is strict; `OneServer` at equality needs that second.

`LeaseTheorem`: under `Restricted` the lock implements `AppLease`; a commit and a renewal that found its
row are `Grant`, an end is `Drop`, and nothing else touches a lease. `ExclusiveTheorem`: whatever
implements `AppLease` is exclusive, with acquisitions that wait, too.

`ForcedExclusionTheorem`: on SQLite exclusion holds with force, and `ForcedLeaseTheorem`: so does the
refinement. A lease is then not backed by the row any more, so the argument is another one (`ForceInv`),
in the time that the clocks have in common: the row outlasts every lease that can be acted on
(`RowLasts`), and so does what a transaction is about to write (`StampLasts`); hence whoever
takes the row is told to wait until all others are over, renews only after it has waited (`Waited`,
`OwnerWaits`), and of two usable leases one waits for the other (`OneOfTwo`). It needs that a
transaction owns the file from its SELECT on (`HoldsLock`), which PostgreSQL does not give.

**AppLockPromptProofs.** The three theorems assume `PromptSetting`: `Restricted`, timers and handlers on
time, and statements that time out within an interval (3 s and 20 s in the code).
`ServingBoundTheorem`: no process serves longer than `Span` after the reading its lease is based on.
`OneServerTheorem` and `NeverLostTheorem`: with `LongEnough`, `TTL >= Span + MaxSkew`, one
process serves and none is told ErrLockLost. The invariant bounds the time at each place of
the program (`InTime`): in its nth attempt a process is at most n timeouts and n - 1 pauses (`Budget`)
after the first tick. The values that the program ships satisfy `PromptSetting` but not
`LongEnough`: that is `lock_shipped`.

**AppConfigProofs.** `TypeCorrect`; `NoTornConfigTheorem`: the configuration in use is one
that was committed, for any processes, keys, requests and values; `CommitTheorem`: what an
update will store is what its transaction commits. `ConfigInv` adds that only the writer is
inside a transaction (`WriterAlone`), that with the UI configuration disabled only the
instance ID is written (`OnlyIdWritten`), and that the copy an update has built is what its
rows will stand for (`UpdatedAgrees`).

`EnvDecidesTheorem` and `InstanceIdTheorem`: what a process with the UI configuration disabled loads
is its environment's, and so is the copy that an update of its own builds (`EnvKept`,
`InUseFromEnv`); once an installation has an ID, an actor that is about to write one is a process
that could not read it (`RenewedBlindly`).

**RateLimitProofs.** `TypeCorrect`, `AdmissionTheorem`, `HeldTheorem`, `ForgottenTheorem`, and
`BucketTheorem`: the map, the handlers and the cleanup implement `TokenBucket`. The argument
is `IdleAssumption`: a limiter is asked at most MaxHold after its client was last seen
(`AskedInTime`), so it is full again when the entry is stale (lemma `StaleIsFull`), and a
handler that has not asked yet keeps the entry from being stale (`HeldIsNotStale`).

**FileStorageProofs.** `TypeCorrect`; `NoDebrisTheorem`; `DeleteAllTheorem` and `ListingTheorem`:
what a DeleteAll or a listing that succeeded says is complete, for any tree, any number of calls
and any interleaving of their system calls; `ObjectTheorem`: the system calls implement
`ObjectStore`. The invariant has three parts. `TypeInv`: no path ever names a torn file, and a
temporary file belongs to the Save it is named after, so that only this one writes, renames or
removes it. `Tree`: nothing is in a directory that does not exist, and an object that was there
all along still is. `Visits`: each such object in the scope of a walk has been found, is still to be
visited, or is in a directory that is still to be read (`Pending`); a walk ends when both are
empty, so everything was found.

**LifecycleProofs.** `TypeCorrect`, `ServesUnderLockTheorem`, `NothingLeftTheorem`,
`LockLeftTheorem` and `ExitTheorem`, for any number of requests, connection attempts and signals.
None of the properties is inductive. `LifecycleInv` adds what orders the phases: nothing runs
before StartServices (`NotStarted`), Bootstrap returns only after its services (`Drained`), the
release is registered before they start and is the only step that frees the lock (`LockHeld`);
and what ties goroutines to contexts: a canceled context has an error that is sent or collected, and
the router returns only after Shutdown, with no request or having given up (`ServiceInv`,
`StopInv`); and which exporters have a shutdown function (`ExporterInv`). `ServesUnderLockTheorem`
is about requests on connections of the server, since those on hijacked ones are not held to it;
`NothingLeftTheorem` is about the exporters of traces and metrics, and names
the one case in which their functions are dropped.

**MigrationProofs.** `TypeCorrect`; `RecordedIsSchemaTheorem` and `ReadyIsCoveredTheorem`: without a
downgrade, for any processes, releases, interleavings and crashes, with and without a lock. Of those
that migrate without a lock only the one that has changed the tables can end cleanly; all its
rivals started from an older schema and will fail (`Rival`), so a `Clean` tells the truth, and the
tables only grow.
`LoneDowngradeTheorem` (`LoneInv`): on PostgreSQL whoever migrates holds the advisory lock and knows
the tables, and the one process that is about to force a version read the newest one there is,
which nobody else can have replaced. Its conditions are named in `Lone`: one downgrading process, one
release back, no failure, and files that exist and can be executed. A migration that its file
makes fail is over for its process and leaves the version dirty (`Stuck`).

**StartupProofs.** For any environments, options, spellings, orders of visits and attempts to connect:
`ForeignKeysTheorem`, `OptionsTheorem` and `NotRefusedTheorem`. `PragmasInv` says that once the options
are final the last pragma, and no other, is about foreign keys; `GivenInv` that only options that were
given are visited. `OptionsInv` adds that every pragma has a value that the connection string gives for
it (`FromString`), and that what was visited is there (`Collected`) unless the list took its place
(`replaced`), which happens only where there is a list (`ReplacedInv`);
once the defaults are added this becomes what the property says (`Satisfied`). That a pragma has a
last position is a well-founded minimum over the sets of later positions (lemma `LastPosition`).
`AcceptedInv` follows what validation has settled to the steps that rely on it.

Model-checked only: liveness (`CanceledExits`, `UpdateEnds`, `StopsWhenTold`, `NewestStarts`,
`AcceptedStarts`), since neither fairness nor ENABLED is within the prover's reach; the safety half of
`AcceptedStarts`, `NotRefusedLater`, is proved (`NotRefusedTheorem`). Induction over data is out of
reach as well, and no module that is proved about declares a RECURSIVE operator. Every other
property that a run shows to hold is a theorem.

## 6. What is not modelled, and the plan

Not modelled: what a library does inside (gorm, the drivers, gocron, Gin, golang-migrate,
`x/time/rate`, `os.Root`), except for the effects the code relies on; logging and wording;
cryptography; power loss (Save does not sync its file before it renames it);
paths and their checks; directories deeper than one level; what the steps
of Bootstrap before the services do, other than to succeed or fail.

What is left out, component by component:

- **HTTP**: CORS and CSP middleware, which set headers and are registered nowhere; the wording of
  validation errors; what Gin does for a route that is not found. `Http` has one run, which shows a
  violation; its actions that the run does not need are there because they are the chain.
- **Scheduler**: RegisterJob and RemoveJob, which have no caller yet.
- **Encrypted strings, dates, crypto**: conversions around a library, without state.
- **Observability**: which handlers are built, and what an exporter sends; a log exporter that is
  not shut down is in `Lifecycle`, what it has not sent is not.
- **Startup**: the checks of single values (URLs, ranges, levels) are one condition,
  `env.othersValid`; a connection string's path, and which directory is taken for temporary files.
- **Migration**: what the SQL files do, other than to be executed or refused; a
  database that was never written by this program.

What would come next: the safety halves of the other liveness properties (what `NewestStarts` and
`StopsWhenTold` exclude at every step); that a configuration is fresh if the updates of a process come
one after the other; the properties of `TokenBucket` and `ObjectStore` proved of these modules
themselves, as it is done for `AppLease`; one model of two processes of different releases through their
whole life, migrations and lock together.
