----------------------------- MODULE Lifecycle -----------------------------
(***************************************************************************)
(* One process from main to its exit: Bootstrap and what it starts, the    *)
(* signal handler, the services under a ServiceRunner, the HTTP server,    *)
(* and the shutdown functions under another ServiceRunner.  What the       *)
(* services do with the database is in the modules of their own; here they *)
(* succeed or fail.                                                        *)
(***************************************************************************)
EXTENDS Naturals

CONSTANTS
  DbAttempts,   \* the connection attempts of ConnectDatabase
  SigBuffer,    \* the buffer of sigCh
  MaxRequests   \* bounds the requests that are handled at once

ASSUME BoundAssumption ==
  DbAttempts \in Nat \ {0} /\ SigBuffer \in Nat \ {0} /\ MaxRequests \in Nat

VARIABLES
  enabled,    \* the environment: OTEL_LOGS_EXPORTER, TRACING_ENABLED,
              \* METRICS_ENABLED, APP_ENV not test
  pc,         \* where Bootstrap is
  failed,     \* it will return an error
  exit,       \* how the process ended
  attempts,   \* connection attempts that ConnectDatabase has made so far
  sigCh,      \* signals in the channel
  canceled,   \* the root context is canceled
  exporters,  \* the OpenTelemetry exporters that run
  discarded,  \* history: the shutdown function of an exporter that runs was dropped
  fns,        \* shutdownFns
  lock,       \* whose lock the row in the database names: free, ours, other
  serveTask, serveCtx, serveErrs,  \* the runner of the services
  stopTask, stopCtx, stopErrs,     \* the runner of the shutdown functions
  deadline,   \* shutdownCtx has timed out
  server,     \* none, listening, serving or down
  closing,    \* srv.Shutdown was called
  requests,   \* requests being handled, on connections of the server
  overran,    \* history: srv.Shutdown gave up on requests
  hijacked,   \* a connection was upgraded to h2c, and is not the server's any more
  streams     \* requests being handled on upgraded connections

serveVars == <<serveTask, serveCtx, serveErrs>>
stopVars == <<stopTask, stopCtx, stopErrs>>
exporterVars == <<exporters, discarded>>
h2cVars == <<hijacked, streams>>
serverVars == <<server, closing, requests, overran, h2cVars>>
bootVars == <<pc, failed, exit, attempts>>
signalVars == <<sigCh, canceled>>
vars == <<enabled, bootVars, signalVars, exporterVars, fns, lock, serveVars,
          stopVars, deadline, serverVars>>

Exporter == {"logs", "traces", "metrics"}
Services == {"renewal", "router", "scheduler"}
ShutdownFns == {"traces", "metrics", "lock"}

Serve == INSTANCE ServiceRunner WITH
  Service <- Services, task <- serveTask, ctx <- serveCtx, errs <- serveErrs
Stop == INSTANCE ServiceRunner WITH
  Service <- ShutdownFns, task <- stopTask, ctx <- stopCtx, errs <- stopErrs

\* The steps of main and Bootstrap, in their order.
NextStep ==
  [logging |-> "tracing", tracing |-> "metrics", metrics |-> "database",
   database |-> "migrate", migrate |-> "storage", storage |-> "services",
   services |-> "acquire", acquire |-> "wait", wait |-> "jobs",
   jobs |-> "router", router |-> "serving", serving |-> "returning",
   returning |-> "shutdown"]

TypeOK ==
  /\ enabled \subseteq Exporter \cup {"scheduler"}
  /\ pc \in DOMAIN NextStep \cup {"config", "shutdown", "exited"}
  /\ failed \in BOOLEAN
  /\ exit \in {"no", "ok", "failed", "forced"}
  /\ attempts \in 0..(DbAttempts - 1)
  /\ sigCh \in 0..SigBuffer
  /\ canceled \in BOOLEAN
  /\ exporters \subseteq Exporter /\ discarded \in BOOLEAN
  /\ fns \subseteq ShutdownFns
  /\ lock \in {"free", "ours", "other"}
  /\ Serve!TypeOK /\ Stop!TypeOK
  /\ deadline \in BOOLEAN
  /\ server \in {"none", "listening", "serving", "down"}
  /\ closing \in BOOLEAN
  /\ requests \in 0..MaxRequests
  /\ overran \in BOOLEAN /\ hijacked \in BOOLEAN
  /\ streams \in 0..MaxRequests

Init ==
  /\ enabled \in SUBSET (Exporter \cup {"scheduler"})
  /\ pc = "config"
  /\ failed = FALSE
  /\ exit = "no"
  /\ attempts = 0
  /\ sigCh = 0
  /\ canceled = FALSE
  /\ exporters = {} /\ discarded = FALSE
  /\ fns = {}
  /\ lock \in {"free", "other"}
  /\ Serve!Init /\ Stop!Init
  /\ deadline = FALSE
  /\ server = "none"
  /\ closing = FALSE
  /\ requests = 0
  /\ overran = FALSE /\ hijacked = FALSE
  /\ streams = 0

-----------------------------------------------------------------------------
(* main and Bootstrap, up to the services.                                 *)

Exit(how) == pc' = "exited" /\ exit' = how

Proceed == pc' = NextStep[pc] /\ UNCHANGED <<failed, exit>>

\* Bootstrap returns an error, after its deferred function.
Fail == pc' = "returning" /\ failed' = TRUE /\ UNCHANGED exit

\* Nothing but Bootstrap takes a step.
Alone == UNCHANGED <<enabled, signalVars, stopVars, deadline, serverVars>>

\* A validated environment is all that main looks at; the handler of signals
\* is installed after it.
ValidateEnvConfig ==
  /\ pc = "config"
  /\ \/ pc' = "logging" /\ UNCHANGED exit
     \/ Exit("failed")
  /\ UNCHANGED <<failed, attempts, exporterVars, fns, lock, serveVars>>
  /\ Alone

\* Steps that succeed or fail, and start nothing.
PlainStep ==
  /\ pc \in {"migrate", "storage", "services", "jobs"}
  /\ Proceed \/ Fail
  /\ UNCHANGED <<attempts, exporterVars, fns, lock, serveVars>>
  /\ Alone

\* defaultResource and initOtelLogging.  The log exporter has no shutdown function.
InitLogging ==
  /\ pc = "logging"
  /\ \/ exporters' = exporters \cup (enabled \cap {"logs"}) /\ Proceed
     \/ Fail /\ UNCHANGED exporters
  /\ UNCHANGED <<discarded, attempts, fns, lock, serveVars>>
  /\ Alone

\* initObservability returns nil for shutdownFns with an error.
DiscardFns == fns' = {} /\ discarded' = (fns # {})

\* initOtelTracing and initOtelMetrics.
InitExporter ==
  /\ pc \in {"tracing", "metrics"}
  /\ LET e == IF pc = "tracing" THEN "traces" ELSE "metrics" IN
     \/ /\ exporters' = exporters \cup (enabled \cap {e})
        /\ fns' = fns \cup (enabled \cap {e})
        /\ Proceed
        /\ UNCHANGED discarded
     \/ /\ e \in enabled
        /\ DiscardFns
        /\ Fail
        /\ UNCHANGED exporters
  /\ UNCHANGED <<attempts, lock, serveVars>>
  /\ Alone

\* Mutant: the loop begins at zero.
ConnectOnceMore ==
  /\ pc = "database"
  /\ \/ attempts' = 0 /\ Proceed
     \/ attempts < DbAttempts /\ attempts' = attempts + 1 /\ UNCHANGED <<pc, failed, exit>>
     \/ attempts = DbAttempts /\ attempts' = 0 /\ Fail
  /\ UNCHANGED <<exporterVars, fns, lock, serveVars>>
  /\ Alone

\* gorm.Open, tried again after a pause; a connection string that is refused is
\* not tried at all.
ConnectDatabase ==
  /\ pc = "database"
  /\ \/ attempts' = 0 /\ Proceed
     \/ /\ attempts + 1 < DbAttempts /\ attempts' = attempts + 1
        /\ UNCHANGED <<pc, failed, exit>>
     \/ attempts \in {0, DbAttempts - 1} /\ attempts' = 0 /\ Fail
  /\ UNCHANGED <<exporterVars, fns, lock, serveVars>>
  /\ Alone

\* A commit that is not answered is an error for Bootstrap.
Acquire ==
  /\ pc = "acquire"
  /\ \/ lock' = "ours" /\ Proceed
     \/ lock' \in {lock, "ours"} /\ Fail
  /\ UNCHANGED <<attempts, exporterVars, fns, serveVars>>
  /\ Alone

\* After the wait the release of the lock is registered.
WaitOver ==
  /\ pc = "wait"
  /\ fns' = fns \cup {"lock"}
  /\ Proceed
  /\ UNCHANGED <<attempts, exporterVars, lock, serveVars>>
  /\ Alone

WaitCanceled ==
  /\ pc = "wait" /\ canceled
  /\ Fail
  /\ UNCHANGED <<attempts, exporterVars, fns, lock, serveVars>>
  /\ Alone

\* The scheduler runs unless APP_ENV is test.
Runs == {"renewal", "router"} \cup (enabled \cap {"scheduler"})

\* initRouter opens the listener; then the services run.
StartServices ==
  /\ pc = "router"
  /\ \/ Proceed /\ Serve!Start(Runs) /\ server' = "listening"
     \/ Fail /\ UNCHANGED <<serveVars, server>>
  /\ UNCHANGED <<enabled, attempts, signalVars, exporterVars, fns, lock, stopVars,
                 deadline, closing, requests, overran, h2cVars>>

ServicesReturned ==
  /\ pc = "serving" /\ Serve!Returned(Runs)
  /\ IF serveErrs = {} THEN Proceed ELSE Fail
  /\ UNCHANGED <<attempts, exporterVars, fns, lock, serveVars>>
  /\ Alone

-----------------------------------------------------------------------------
(* The services.                                                           *)

ServiceCanceled == canceled \/ serveCtx

\* The goroutines of the services, apart from the server's state.
OfService ==
  UNCHANGED <<enabled, bootVars, signalVars, exporterVars, fns, stopVars, deadline>>

\* Another process takes the lock, when it was not renewed in time.
TakenOver ==
  /\ lock = "ours"
  /\ lock' = "other"
  /\ OfService /\ UNCHANGED <<serveVars, serverVars>>

\* The lock is lost, or no attempt to renew it succeeded.
RenewalFails ==
  /\ Serve!Return("renewal", "error")
  /\ OfService /\ UNCHANGED <<lock, serverVars>>

\* RunRenewal and the scheduler return when the context is canceled.
ServiceStops(s) ==
  /\ ServiceCanceled
  /\ \E r \in (IF s = "renewal" THEN {"nil", "canceled"} ELSE {"nil"}) :
       Serve!Return(s, r)
  /\ OfService /\ UNCHANGED <<lock, serverVars>>

ReceiveService(s) ==
  /\ Serve!Receive(s)
  /\ OfService /\ UNCHANGED <<lock, serverVars>>

\* The goroutine that calls srv.Serve.  If Shutdown was called before, Serve
\* returns at once.
ServeBegins ==
  /\ server = "listening" /\ serveTask["router"] # "idle"
  /\ server' = IF closing THEN "down" ELSE "serving"
  /\ OfService /\ UNCHANGED <<lock, serveVars, closing, requests, overran, h2cVars>>

\* Any error but ErrServerClosed is an os.Exit, which runs no deferred function.
ServeFails ==
  /\ server \in {"listening", "serving"} /\ ~closing
  /\ serveTask["router"] # "idle"
  /\ Exit("forced")
  /\ UNCHANGED <<enabled, failed, attempts, signalVars, exporterVars, fns, lock,
                 serveVars, stopVars, deadline, serverVars>>

Accept ==
  /\ server = "serving" /\ requests < MaxRequests
  /\ requests' = requests + 1
  /\ OfService /\ UNCHANGED <<lock, serveVars, server, closing, overran, h2cVars>>

Respond ==
  /\ requests > 0
  /\ requests' = requests - 1
  /\ OfService /\ UNCHANGED <<lock, serveVars, server, closing, overran, h2cVars>>

\* A request with Upgrade: h2c: its connection is hijacked, and the request is
\* the first stream of the HTTP/2 connection that it becomes.
UpgradeH2c ==
  /\ requests > 0 /\ streams < MaxRequests
  /\ requests' = requests - 1
  /\ streams' = streams + 1
  /\ hijacked' = TRUE
  /\ OfService /\ UNCHANGED <<lock, serveVars, server, closing, overran>>

\* The client sends requests over its upgraded connection, whether or not the
\* server is shut down.  One that hangs up is one that sends no more.
StreamBegins ==
  /\ hijacked /\ streams < MaxRequests
  /\ streams' = streams + 1
  /\ OfService
  /\ UNCHANGED <<lock, serveVars, server, closing, requests, overran, hijacked>>

StreamEnds ==
  /\ streams > 0
  /\ streams' = streams - 1
  /\ OfService
  /\ UNCHANGED <<lock, serveVars, server, closing, requests, overran, hijacked>>

\* srv.Shutdown closes the listener that Serve has.
ShutdownBegins ==
  /\ serveTask["router"] = "running" /\ ServiceCanceled /\ ~closing
  /\ closing' = TRUE
  /\ server' = IF server = "serving" THEN "down" ELSE server
  /\ OfService /\ UNCHANGED <<lock, serveVars, requests, overran, h2cVars>>

\* Mutant: srv.Close, which does not wait for the handlers.
CloseEnds ==
  /\ closing
  /\ Serve!Return("router", "nil")
  /\ OfService /\ UNCHANGED <<lock, serverVars>>

\* It waits for requests, and gives up after five seconds.  It neither closes nor
\* waits for hijacked connections: http2.ConfigureServer is not called.
ShutdownEnds ==
  /\ closing
  /\ overran' = (requests > 0)
  /\ Serve!Return("router", "nil")
  /\ OfService /\ UNCHANGED <<lock, server, closing, requests, h2cVars>>

-----------------------------------------------------------------------------
(* The deferred function of Bootstrap.                                     *)

\* Mutant: shutdownFns is evaluated by the defer statement, when it is empty.
RunShutdownFnsOfDefer ==
  /\ pc = "returning"
  /\ fns' = {}
  /\ Stop!Start({})
  /\ Proceed
  /\ UNCHANGED <<enabled, attempts, signalVars, exporterVars, lock, serveVars,
                 deadline, serverVars>>

RunShutdownFns ==
  /\ pc = "returning"
  /\ Stop!Start(fns)
  /\ Proceed
  /\ UNCHANGED <<enabled, attempts, signalVars, exporterVars, fns, lock, serveVars,
                 deadline, serverVars>>

OfStop ==
  UNCHANGED <<enabled, bootVars, signalVars, fns, serveVars, serverVars>>

DeadlinePasses ==
  /\ pc = "shutdown" /\ ~deadline
  /\ deadline' = TRUE
  /\ OfStop /\ UNCHANGED <<exporterVars, lock, stopVars>>

\* The error of an operation that fails: its context's, if that is canceled.
StopError == IF stopCtx THEN {"canceled", "error"} ELSE {"error"}

ShutdownExporter(e) ==
  /\ \E r \in {"nil"} \cup StopError : Stop!Return(e, r)
  /\ exporters' = exporters \ {e}
  /\ OfStop /\ UNCHANGED <<discarded, lock, deadline>>

\* The row is deleted only if it is this process's, which is not an error.
Released == IF lock = "ours" THEN "free" ELSE lock

Release ==
  /\ \/ ~stopCtx /\ ~deadline /\ Stop!Return("lock", "nil") /\ lock' = Released
     \/ /\ \E r \in StopError : Stop!Return("lock", r)
        /\ lock' \in {lock, Released}
  /\ OfStop /\ UNCHANGED <<exporterVars, deadline>>

ReceiveFn(f) ==
  /\ Stop!Receive(f)
  /\ OfStop /\ UNCHANGED <<exporterVars, lock, deadline>>

BootstrapReturns ==
  /\ pc = "shutdown" /\ Stop!Returned(fns)
  /\ Exit(IF failed THEN "failed" ELSE "ok")
  /\ UNCHANGED <<failed, attempts, exporterVars, fns, lock, serveVars>>
  /\ Alone

-----------------------------------------------------------------------------
(* Signals.                                                                *)

\* signal.Notify drops a signal when the channel is full.
Signal ==
  /\ pc # "config" /\ sigCh < SigBuffer
  /\ sigCh' = sigCh + 1
  /\ UNCHANGED <<enabled, bootVars, canceled, exporterVars, fns, lock, serveVars,
                 stopVars, deadline, serverVars>>

\* The first signal cancels the root context, and the second one is an os.Exit.
HandleSignal ==
  /\ sigCh > 0
  /\ sigCh' = sigCh - 1
  /\ canceled' = TRUE
  /\ IF canceled THEN Exit("forced") ELSE UNCHANGED <<pc, exit>>
  /\ UNCHANGED <<enabled, failed, attempts, exporterVars, fns, lock, serveVars,
                 stopVars, deadline, serverVars>>

-----------------------------------------------------------------------------
Bootstrap ==
  \/ ValidateEnvConfig \/ InitLogging \/ InitExporter \/ ConnectDatabase \/ PlainStep
  \/ Acquire \/ WaitOver \/ WaitCanceled \/ StartServices \/ ServicesReturned
  \/ RunShutdownFns \/ BootstrapReturns
  \/ \E s \in Services : ReceiveService(s)
  \/ \E f \in ShutdownFns : ReceiveFn(f)

Router == ShutdownBegins \/ ShutdownEnds

H2c == UpgradeH2c \/ StreamBegins \/ StreamEnds

StopFn(f) == IF f = "lock" THEN Release ELSE ShutdownExporter(f)

Next ==
  /\ pc # "exited"
  /\ \/ Bootstrap \/ Router \/ RenewalFails \/ TakenOver
     \/ \E s \in {"renewal", "scheduler"} : ServiceStops(s)
     \/ ServeBegins \/ ServeFails \/ Accept \/ Respond \/ H2c
     \/ \E f \in ShutdownFns : StopFn(f)
     \/ DeadlinePasses \/ Signal \/ HandleSignal

Spec == Init /\ [][Next]_vars

Running(A) == pc # "exited" /\ A

\* Goroutines run on, and every call returns: what Bootstrap and the shutdown
\* functions wait for has a timeout.  Requests need not end.
Fairness ==
  /\ WF_vars(Running(Bootstrap))
  /\ WF_vars(Running(Router))
  /\ \A s \in {"renewal", "scheduler"} : WF_vars(Running(ServiceStops(s)))
  /\ \A f \in ShutdownFns : WF_vars(Running(StopFn(f)))
  /\ WF_vars(Running(HandleSignal))

FairSpec == Spec /\ Fairness

-----------------------------------------------------------------------------
(* Properties.                                                             *)

\* The lock is given up only when no request is handled any more on a connection
\* of the server, unless the server did not shut down in time.  Requests on
\* connections that were upgraded to h2c (streams) are excepted: they are handled
\* without the lock, although line 148 of router_bootstrap.go says "Handle graceful
\* shutdown" of what comes after it.
ServesUnderLock == requests > 0 => lock # "free" \/ overran

\* When Bootstrap has returned, every goroutine it waits for has ended, and
\* every exporter was shut down but that of the logs, which never is, and those
\* whose shutdown functions were dropped when a later exporter did not start.
NothingLeft ==
  exit \in {"ok", "failed"} =>
    /\ \A s \in Services : serveTask[s] \in {"idle", "received"}
    /\ \A f \in ShutdownFns : stopTask[f] \in {"idle", "received"}
    /\ exporters \subseteq {"logs"} \/ discarded

\* A process that has served and whose Bootstrap returned leaves its lock only
\* when a shutdown function failed, this one or another one.
LockLeftOnFailure ==
  exit \in {"ok", "failed"} /\ server # "none" /\ lock = "ours" => stopErrs # {}

\* A process that has served exits with 0 when it was told to stop, and with 1
\* when a service failed, in whatever order that happened.
ExitTellsFailure ==
  exit \in {"ok", "failed"} /\ server # "none" =>
    /\ exit = "failed" <=> serveCtx
    /\ exit = "ok" => canceled

\* A signal, or a lost lock, ends the process in the end.
StopsWhenTold == (sigCh > 0 \/ serveTask["renewal"] = "error") ~> pc = "exited"
=============================================================================
