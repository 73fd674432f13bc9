------------------------------- MODULE AppLock -------------------------------
(***************************************************************************)
(* The application lock of backend/internal/service/app_lock_service.go    *)
(* and the order in which Bootstrap (backend/internal/bootstrap) calls it. *)
(*                                                                         *)
(* Every run of the program is one Process, with a lock_id of its own.     *)
(* They share the row "application_lock" of the table kv.  Acquire is a    *)
(* transaction of three statements, renew and Release are one statement    *)
(* each; a statement may fail, time out, or take effect although its       *)
(* answer is lost.  Times are Unix seconds, as the code stores them.       *)
(***************************************************************************)
EXTENDS Integers

CONSTANTS
  Process,        \* the runs of the program
  NoProcess,      \* not a process: nobody holds the row's write lock
  Dialects,       \* the databases of the deployments considered
  ForceArgs,      \* the values of force that callers of Acquire pass
  TTL,            \* ttl
  RenewInterval,  \* renewInterval
  RenewRetries,   \* renewRetries
  OpTimeout,      \* the timeout of one renewal statement
  RetryDelay,     \* the sleep between two attempts
  ShutdownGrace,  \* how long the HTTP server may take to shut down
  AcquireLatency, \* from Acquire's time.Now() to RunRenewal, if Prompt
  Skew,           \* how far each process's wall clock runs ahead
  MaxSkew,        \* bound on the difference of two wall clocks
  LateStatements, \* TRUE: on PostgreSQL, a statement may outlive its timeout
  Prompt,         \* TRUE: timers fire and handlers run without delay
  MaxNow          \* bound: the model's clock stops here

ASSUME ProcessAssumption == NoProcess \notin Process

ASSUME SettingAssumption ==
  /\ Dialects \subseteq {"sqlite", "postgres"}
  /\ ForceArgs \subseteq BOOLEAN
  /\ LateStatements \in BOOLEAN
  /\ Prompt \in BOOLEAN

ASSUME DurationAssumption ==
  /\ {TTL, RenewInterval, RenewRetries, OpTimeout} \subseteq Nat \ {0}
  /\ {RetryDelay, ShutdownGrace, AcquireLatency, MaxNow} \subseteq Nat

ASSUME SkewAssumption ==
  /\ MaxSkew \in Nat
  /\ Skew \in [Process -> Nat]
  /\ \A p, q \in Process : Skew[p] <= Skew[q] + MaxSkew

VARIABLES
  dialect,    \* the database all processes use
  now,        \* true time, in seconds
  row,        \* the committed row, or NoRow
  locker,     \* whose open transaction holds the row's write lock
  late,       \* statements that timed out and may still execute
  pc,         \* where each process is
  canceled,   \* the process's context has been canceled
  force,      \* the argument of Acquire
  prev,       \* prevLock: the row Acquire's SELECT returned
  stamp,      \* nowUnix of the current Acquire or renewal attempt
  attempt,    \* renewal attempts made since the tick
  due,        \* when the current wait of the process ends
  ticker,     \* when RunRenewal's ticker fires next
  lease,      \* the expiry of the last write that was acknowledged
  waitUntil   \* the result of Acquire

dbVars == <<row, locker, late>>
acquireVars == <<force, prev>>
renewVars == <<attempt, ticker>>
leaseVars == <<lease, waitUntil>>
vars == <<dialect, now, dbVars, pc, canceled, acquireVars, stamp, due,
          renewVars, leaseVars>>

NoRow == [owner |-> NoProcess, expires |-> 0]
NoLease == -1

Acquiring == {"boot", "selected", "stamped", "written", "refused"}
Serving == {"running", "renewing", "retrying", "draining"}
State == Acquiring \cup Serving \cup {"waiting", "releasing", "exited"}

Clock(p) == now + Skew[p]

\* The lock value p writes, from the time it read before the statement.
LockValue(p, t) == [owner |-> p, expires |-> t + TTL]

TypeOK ==
  /\ dialect \in Dialects
  /\ now \in Nat
  /\ row \in [owner : Process \cup {NoProcess}, expires : Nat]
  /\ locker \in Process \cup {NoProcess}
  /\ late \subseteq [proc : Process, op : {"renew", "release"}, at : Nat]
  /\ pc \in [Process -> State]
  /\ canceled \in [Process -> BOOLEAN]
  /\ force \in [Process -> BOOLEAN]
  /\ prev \in [Process -> [owner : Process \cup {NoProcess}, expires : Nat]]
  /\ stamp \in [Process -> Nat]
  /\ attempt \in [Process -> 0..RenewRetries]
  /\ due \in [Process -> Nat]
  /\ ticker \in [Process -> Nat]
  /\ lease \in [Process -> Nat \cup {NoLease}]
  /\ waitUntil \in [Process -> Nat]

Init ==
  /\ dialect \in Dialects
  /\ now = 0
  /\ row = NoRow
  /\ locker = NoProcess
  /\ late = {}
  /\ pc = [p \in Process |-> "boot"]
  /\ canceled = [p \in Process |-> FALSE]
  /\ force = [p \in Process |-> FALSE]
  /\ prev = [p \in Process |-> NoRow]
  /\ stamp = [p \in Process |-> 0]
  /\ attempt = [p \in Process |-> 0]
  /\ due = [p \in Process |-> 0]
  /\ ticker = [p \in Process |-> 0]
  /\ lease = [p \in Process |-> NoLease]
  /\ waitUntil = [p \in Process |-> 0]

Later(t, u) == IF t > u THEN t ELSE u

Goto(p, to) == pc' = [pc EXCEPT ![p] = to]

\* The process ends, and its memory with it.
Exit(p) ==
  /\ Goto(p, "exited")
  /\ force' = [force EXCEPT ![p] = FALSE]
  /\ prev' = [prev EXCEPT ![p] = NoRow]
  /\ stamp' = [stamp EXCEPT ![p] = 0]
  /\ attempt' = [attempt EXCEPT ![p] = 0]
  /\ due' = [due EXCEPT ![p] = 0]
  /\ ticker' = [ticker EXCEPT ![p] = 0]
  /\ lease' = [lease EXCEPT ![p] = NoLease]
  /\ waitUntil' = [waitUntil EXCEPT ![p] = 0]

-----------------------------------------------------------------------------
(* The database.  A SQLite transaction is IMMEDIATE and holds the write    *)
(* lock of the whole file; PostgreSQL locks the row, if there is one, and  *)
(* an insert not yet committed blocks another insert but is not visible.   *)

SelectLocks == dialect = "sqlite" \/ row # NoRow

\* Mutant: no transaction keeps another statement from executing.
NoRowLock == TRUE

\* A single UPDATE or DELETE can execute now.
CanWrite == locker = NoProcess \/ (dialect = "postgres" /\ row = NoRow)

Unlock(p) == locker' = IF locker = p THEN NoProcess ELSE locker

\* Mutant: the WHERE clause does not compare lock_id.
RenewableByAnyone(p, t) == row.expires > t

\* Mutant: expiresAt is bound where nowUnix should be.
RenewableIfNewer(p, t) == row.owner = p /\ row.expires > t + TTL

\* The WHERE clause of the renewal, with the time t bound as its parameter.
Renewable(p, t) == row.owner = p /\ row.expires > t

\* The statement p has in flight.
Statement(p) ==
  IF pc[p] = "releasing"
    THEN [proc |-> p, op |-> "release", at |-> 0]
    ELSE [proc |-> p, op |-> "renew", at |-> stamp[p]]

Execute(s) ==
  row' = CASE s.op = "renew" /\ Renewable(s.proc, s.at) ->
                LockValue(s.proc, s.at)
           [] s.op = "release" /\ row.owner = s.proc -> NoRow
           [] OTHER -> row

(* What may become of a statement whose caller gets an error, or is gone:  *)
(* no effect, an effect whose answer is lost, or an effect later on.       *)
Unanswered(s) ==
  \/ UNCHANGED <<row, late>>
  \/ CanWrite /\ Execute(s) /\ UNCHANGED late
  \/ /\ LateStatements /\ dialect = "postgres"
     /\ late' = late \cup {s} /\ UNCHANGED row

-----------------------------------------------------------------------------
(* Acquire.                                                                *)

AcquireSelect(p) ==
  /\ pc[p] = "boot" /\ ~canceled[p]
  /\ SelectLocks => locker = NoProcess
  /\ locker' = IF SelectLocks THEN p ELSE locker
  /\ prev' = [prev EXCEPT ![p] = row]
  /\ \E f \in ForceArgs : force' = [force EXCEPT ![p] = f]
  /\ Goto(p, "selected")
  /\ UNCHANGED <<dialect, now, row, late, canceled, stamp, due, renewVars,
                 leaseVars>>

AcquireStamp(p) ==
  /\ pc[p] = "selected"
  /\ stamp' = [stamp EXCEPT ![p] = Clock(p)]
  /\ due' = [due EXCEPT ![p] = now + AcquireLatency]
  /\ Goto(p, "stamped")
  /\ UNCHANGED <<dialect, now, dbVars, canceled, acquireVars, renewVars,
                 leaseVars>>

\* Mutant: a lease is taken over in the second in which it ends.
UpsertAtExpiry(p) ==
  /\ pc[p] = "stamped" /\ ~canceled[p]
  /\ locker \in {p, NoProcess}
  /\ locker' = p
  /\ IF row = NoRow \/ row.expires <= stamp[p] \/ force[p]
       THEN Goto(p, "written")
       ELSE Goto(p, "refused")
  /\ UNCHANGED <<dialect, now, row, late, canceled, acquireVars, stamp, due,
                 renewVars, leaseVars>>

\* INSERT ... ON CONFLICT DO UPDATE ... WHERE expired OR force
AcquireUpsert(p) ==
  /\ pc[p] = "stamped" /\ ~canceled[p]
  /\ locker \in {p, NoProcess}
  /\ locker' = p
  /\ IF row = NoRow \/ row.expires < stamp[p] \/ force[p]
       THEN Goto(p, "written")
       ELSE Goto(p, "refused")
  /\ UNCHANGED <<dialect, now, row, late, canceled, acquireVars, stamp, due,
                 renewVars, leaseVars>>

\* Mutant: a forced acquisition does not wait.
NoWaitAfterForce(p) == 0

\* Mutant: the Unix time of Go's zero time is taken for a time to wait for.
WaitForZeroTime(p) ==
  IF force[p] /\ prev[p].expires > stamp[p] /\ prev[p].owner # p
    THEN prev[p].expires
    ELSE -1

\* A forced acquisition must wait for the lease it took over to end.
WaitFor(p) ==
  IF force[p] /\ prev[p].expires > stamp[p] /\ prev[p].owner # p
    THEN prev[p].expires
    ELSE 0

AcquireCommit(p) ==
  /\ pc[p] = "written"
  /\ row' = LockValue(p, stamp[p])
  /\ locker' = NoProcess
  /\ lease' = [lease EXCEPT ![p] = stamp[p] + TTL]
  /\ waitUntil' = [waitUntil EXCEPT ![p] = WaitFor(p)]
  /\ due' = [due EXCEPT ![p] = Later(@, WaitFor(p) - Skew[p])]
  /\ Goto(p, "waiting")
  /\ UNCHANGED <<dialect, now, late, canceled, acquireVars, stamp, renewVars>>

\* No row affected: ErrLockUnavailable, and the program exits.
AcquireRefused(p) ==
  /\ pc[p] = "refused"
  /\ locker' = NoProcess
  /\ Exit(p)
  /\ UNCHANGED <<dialect, now, row, late, canceled>>

(* An error before the acquisition returns, or the end of the process: the *)
(* transaction is rolled back, unless its COMMIT got through unanswered.   *)
(* The step stands for the end of the transaction.  On PostgreSQL that may *)
(* be after the end of the process: a COMMIT it has sent, or a transaction *)
(* whose connection the server still believes in, is then still "written", *)
(* "stamped" or "selected" here, and holds the row's lock until this step. *)
AcquireFail(p) ==
  /\ pc[p] \in Acquiring
  /\ \/ row' = row
     \/ pc[p] = "written" /\ row' = LockValue(p, stamp[p])
  /\ Unlock(p)
  /\ Exit(p)
  /\ UNCHANGED <<dialect, now, late, canceled>>

-----------------------------------------------------------------------------
(* Bootstrap, between Acquire and the services.                            *)

Forget(p) ==
  /\ lease' = [lease EXCEPT ![p] = NoLease]
  /\ waitUntil' = [waitUntil EXCEPT ![p] = 0]

\* time.Until(waitUntil) has passed; the services start, and the ticker.
BeginServing(p) ==
  /\ pc[p] = "waiting" /\ Clock(p) >= waitUntil[p]
  /\ ticker' = [ticker EXCEPT ![p] = now + RenewInterval]
  /\ due' = [due EXCEPT ![p] = now + RenewInterval]
  /\ force' = [force EXCEPT ![p] = FALSE]
  /\ prev' = [prev EXCEPT ![p] = NoRow]
  /\ stamp' = [stamp EXCEPT ![p] = 0]
  /\ Goto(p, "running")
  /\ UNCHANGED <<dialect, now, dbVars, canceled, attempt, leaseVars>>

\* The early return does not release the lock: its shutdown function is
\* registered after the wait.
AbandonWait(p) ==
  /\ pc[p] = "waiting" /\ canceled[p]
  /\ Exit(p)
  /\ UNCHANGED <<dialect, now, dbVars, canceled>>

\* registerScheduledJobs or initRouter fails.
StartFails(p) ==
  /\ pc[p] = "waiting" /\ Clock(p) >= waitUntil[p]
  /\ Forget(p)
  /\ Goto(p, "releasing")
  /\ UNCHANGED <<dialect, now, dbVars, canceled, acquireVars, stamp, due,
                 renewVars>>

-----------------------------------------------------------------------------
(* RunRenewal and renew.  When the context is canceled an attempt begun    *)
(* after that fails at once, without effect, which is StopRenewal.         *)

\* Mutant: a renewal statement has no timeout of its own.
AttemptWithoutTimeout(p, n) ==
  /\ attempt' = [attempt EXCEPT ![p] = n]
  /\ stamp' = [stamp EXCEPT ![p] = Clock(p)]
  /\ due' = [due EXCEPT ![p] = now + TTL]
  /\ Goto(p, "renewing")

Attempt(p, n) ==
  /\ attempt' = [attempt EXCEPT ![p] = n]
  /\ stamp' = [stamp EXCEPT ![p] = Clock(p)]
  /\ due' = [due EXCEPT ![p] = now + OpTimeout]
  /\ Goto(p, "renewing")

\* The ticker keeps its phase, and drops the ticks nobody received.
TickerFires(p) ==
  /\ pc[p] = "running" /\ ~canceled[p]
  /\ now >= ticker[p]
  /\ \E t \in (now + 1)..(now + RenewInterval) :
       /\ (t - ticker[p]) % RenewInterval = 0
       /\ ticker' = [ticker EXCEPT ![p] = t]
  /\ Attempt(p, 1)
  /\ UNCHANGED <<dialect, now, dbVars, canceled, acquireVars, leaseVars>>

\* Every service stops; the HTTP server has ShutdownGrace to do so.
Drain(p) ==
  /\ Goto(p, "draining")
  /\ due' = [due EXCEPT ![p] = now + ShutdownGrace]

\* The statement is answered: the row is renewed, or ErrLockLost.
RenewAnswered(p) ==
  /\ pc[p] = "renewing" /\ CanWrite
  /\ Execute(Statement(p))
  /\ IF Renewable(p, stamp[p])
       THEN /\ lease' = [lease EXCEPT ![p] = stamp[p] + TTL]
            /\ due' = [due EXCEPT ![p] = ticker[p]]
            /\ Goto(p, "running")
       ELSE Drain(p) /\ UNCHANGED lease
  /\ UNCHANGED <<dialect, now, locker, late, canceled, acquireVars, stamp,
                 renewVars, waitUntil>>

\* Mutant: one attempt too many.
RetryOnceMore(p) ==
  /\ pc[p] = "renewing"
  /\ Unanswered(Statement(p))
  /\ IF attempt[p] <= RenewRetries
       THEN /\ due' = [due EXCEPT ![p] = now + RetryDelay]
            /\ Goto(p, "retrying")
       ELSE Drain(p)
  /\ UNCHANGED <<dialect, now, locker, canceled, acquireVars, stamp, renewVars,
                 leaseVars>>

RenewFails(p) ==
  /\ pc[p] = "renewing"
  /\ Unanswered(Statement(p))
  /\ IF attempt[p] < RenewRetries
       THEN /\ due' = [due EXCEPT ![p] = now + RetryDelay]
            /\ Goto(p, "retrying")
       ELSE Drain(p)
  /\ UNCHANGED <<dialect, now, locker, canceled, acquireVars, stamp, renewVars,
                 leaseVars>>

RetryStart(p) ==
  /\ pc[p] = "retrying" /\ ~canceled[p]
  /\ now >= due[p]
  /\ Attempt(p, attempt[p] + 1)
  /\ UNCHANGED <<dialect, now, dbVars, canceled, acquireVars, ticker,
                 leaseVars>>

\* Mutant: the sleep between attempts does not watch the context.
StopBetweenTicks(p) ==
  /\ pc[p] \in {"running"} /\ canceled[p]
  /\ Drain(p)
  /\ UNCHANGED <<dialect, now, dbVars, canceled, acquireVars, stamp, renewVars,
                 leaseVars>>

StopRenewal(p) ==
  /\ pc[p] \in {"running", "retrying"} /\ canceled[p]
  /\ Drain(p)
  /\ UNCHANGED <<dialect, now, dbVars, canceled, acquireVars, stamp, renewVars,
                 leaseVars>>

-----------------------------------------------------------------------------
(* The end of a process.                                                   *)

Drained(p) ==
  /\ pc[p] = "draining"
  /\ Forget(p)
  /\ Goto(p, "releasing")
  /\ UNCHANGED <<dialect, now, dbVars, canceled, acquireVars, stamp, due,
                 renewVars>>

Release(p) ==
  /\ pc[p] = "releasing"
  /\ Unanswered(Statement(p))
  /\ Exit(p)
  /\ UNCHANGED <<dialect, now, locker, canceled>>

\* kill -9, a panic, a second signal or a failed Serve (both os.Exit).
Crash(p) ==
  /\ pc[p] \in Serving \cup {"waiting"}
  /\ IF pc[p] = "renewing"
       THEN Unanswered(Statement(p))
       ELSE UNCHANGED <<row, late>>
  /\ Exit(p)
  /\ UNCHANGED <<dialect, now, locker, canceled>>

\* SIGINT or SIGTERM.
Cancel(p) ==
  /\ pc[p] # "exited" /\ ~canceled[p]
  /\ canceled' = [canceled EXCEPT ![p] = TRUE]
  /\ UNCHANGED <<dialect, now, dbVars, pc, acquireVars, stamp, due, renewVars,
                 leaseVars>>

-----------------------------------------------------------------------------
LateExecutes(s) ==
  /\ CanWrite /\ Execute(s)
  /\ late' = late \ {s}
  /\ UNCHANGED <<dialect, now, locker, pc, canceled, acquireVars, stamp, due,
                 renewVars, leaseVars>>

LateIsLost(s) ==
  /\ late' = late \ {s}
  /\ UNCHANGED <<dialect, now, row, locker, pc, canceled, acquireVars, stamp,
                 due, renewVars, leaseVars>>

\* If Prompt, time does not pass the end of a wait.
Timed == {"stamped", "written", "refused", "waiting"} \cup Serving

Advance ==
  /\ now < MaxNow
  /\ Prompt => \A p \in Process : pc[p] \in Timed => now < due[p]
  /\ now' = now + 1
  /\ UNCHANGED <<dialect, dbVars, pc, canceled, acquireVars, stamp, due,
                 renewVars, leaseVars>>

\* The steps a process takes of its own accord.
Step(p) ==
  \/ AcquireSelect(p) \/ AcquireStamp(p) \/ AcquireUpsert(p)
  \/ AcquireCommit(p) \/ AcquireRefused(p) \/ AcquireFail(p)
  \/ BeginServing(p) \/ AbandonWait(p) \/ StartFails(p)
  \/ TickerFires(p) \/ RenewAnswered(p) \/ RenewFails(p)
  \/ RetryStart(p) \/ StopRenewal(p) \/ Drained(p) \/ Release(p)

Next ==
  \/ Advance
  \/ \E p \in Process : Step(p) \/ Crash(p) \/ Cancel(p)
  \/ \E s \in late : LateExecutes(s) \/ LateIsLost(s)

Spec == Init /\ [][Next]_vars

\* Every goroutine runs on, and every statement returns: the driver waits at
\* most OpTimeout for an answer.
FairSpec == Spec /\ \A p \in Process : WF_vars(Step(p))

-----------------------------------------------------------------------------
(* Properties.                                                             *)

\* p waited as Acquire told it to, and the lease it knows of is not over,
\* even by a clock MaxSkew ahead of its own.
Valid(p) == waitUntil[p] <= Clock(p) /\ Clock(p) + MaxSkew < lease[p]

\* Two processes never hold a valid lease at the same time, however long each
\* statement, tick or transaction is delayed, and although answers get lost.
LeaseExclusion == \A p, q \in Process : Valid(p) /\ Valid(q) => p = q

\* On SQLite the same holds with force: a process that waited as Acquire told
\* it to never shares a valid lease with the one it took the lock from.
ForcedExclusion == dialect = "sqlite" => LeaseExclusion

\* The lease a process acts on is still its own in the database, and lasts at
\* least as long there: nobody else can have taken it over or released it.
LeaseBacked ==
  \A p \in Process :
    Valid(p) => row.owner = p /\ row.expires >= lease[p]

\* Once the row does not name a process that is gone, no statement of that
\* process, delayed or retried, brings its lock_id back.  A process that ended
\* within Acquire counts as gone when its transaction is over (AcquireFail): a
\* COMMIT that PostgreSQL had not executed by then can still bring it in.
DeadStayDead ==
  [][\A p \in Process :
       pc[p] = "exited" /\ row.owner # p => row'.owner # p]_vars

\* The owner in the database changes hands only when the earlier lease is over
\* by the clock of the process that takes it, or its owner gave it up.
TakenWhenOver ==
  [][\A p \in Process :
       row.owner \notin {p, NoProcess} /\ row'.owner = p
         => row.expires < Clock(p)]_vars

\* If handlers run promptly, a process serves no longer than this many seconds
\* after the clock reading on which its last good lease is based.
Span == AcquireLatency + RenewInterval + RenewRetries * OpTimeout
          + (RenewRetries - 1) * RetryDelay + ShutdownGrace
ServingBound ==
  \A p \in Process : pc[p] \in Serving => Clock(p) <= lease[p] - TTL + Span

\* A prompt process is never told ErrLockLost: it renews before its lease is
\* over by any clock, so nobody takes the row while its statement is under way.
NeverLost ==
  [][\A p \in Process : RenewAnswered(p) => pc'[p] = "running"]_vars

\* One process at a time runs the server and the scheduled jobs.
OneServer ==
  \A p, q \in Process : pc[p] \in Serving /\ pc[q] \in Serving => p = q

\* A process told to stop exits.
CanceledExits ==
  \A p \in Process : canceled[p] ~> pc[p] = "exited"

\* The lock implements the lease its callers rely on.
Lease == INSTANCE AppLease WITH from <- waitUntil
LeaseSpec == Lease!Spec
=============================================================================
