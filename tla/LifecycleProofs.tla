-------------------------- MODULE LifecycleProofs --------------------------
(***************************************************************************)
(* Proofs about one process from main to its exit: types, and the order in *)
(* which it gives up what it has, for any number of requests, connection   *)
(* attempts and signals.                                                   *)
(***************************************************************************)
EXTENDS Lifecycle, TLAPS

USE DEF exporterVars, h2cVars, DiscardFns

Early == {"config", "logging", "tracing", "metrics", "database", "migrate",
          "storage", "services", "acquire", "wait", "jobs"}

\* Bootstrap has not begun to return.
BeforeReturn == Early \cup {"router", "serving"}

\* Bootstrap returned, which a forced exit does not wait for.
Over == exit \in {"ok", "failed"}

\* Attempts are counted while the connection is opened.
Attempts == pc \notin {"database", "exited"} => attempts = 0

Outcome ==
  /\ exit = "no" <=> pc # "exited"
  /\ pc \in BeforeReturn => ~failed
  /\ Over /\ server # "none" => (exit = "failed" <=> failed)

\* Nothing serves before StartServices.
NotStarted ==
  /\ pc \in Early \cup {"router"} => server = "none"
  /\ pc = "serving" => server # "none"
  /\ server = "none" => /\ \A s \in Services : serveTask[s] = "idle"
                        /\ requests = 0 /\ ~closing /\ ~serveCtx

\* The goroutines of the services: whoever has canceled the context has sent or
\* will send its error, and the router returns after the server was shut down.
ServiceInv ==
  /\ \A s \in Services : serveTask[s] # "idle" => s \in Runs
  /\ \A s \in Services : serveTask[s] = "error" \/ s \in serveErrs => serveCtx
  /\ serveCtx => \E s \in Services : serveTask[s] = "error" \/ s \in serveErrs
  /\ closing => server # "serving" /\ (canceled \/ serveCtx)
  /\ serveTask["router"] \notin {"idle", "running"} =>
       closing /\ (requests = 0 \/ overran)

\* Bootstrap returns after its services have, and knows how.
Drained ==
  server # "none" /\ (pc \in {"returning", "shutdown"} \/ Over) =>
    Serve!Returned(Runs) /\ (failed <=> serveCtx)

\* The lock is released by the shutdown function, and its release is registered
\* before anything serves.
LockHeld ==
  /\ pc \in {"wait", "jobs", "router"} => lock # "free"
  /\ server # "none" /\ lock = "free" =>
       pc \in {"shutdown", "exited"} /\ Serve!Returned(Runs)
  /\ pc \in {"jobs", "router"} \/ server # "none" => "lock" \in fns

\* The shutdown functions: a release that had no effect comes with an error.
StopInv ==
  /\ pc \notin {"shutdown", "exited"} =>
       ~stopCtx /\ \A f \in ShutdownFns : stopTask[f] = "idle"
  /\ pc = "config" => fns = {}
  /\ \A f \in ShutdownFns : stopTask[f] # "idle" => f \in fns
  /\ Over => \A f \in fns : stopTask[f] = "received"
  /\ stopCtx => \E f \in ShutdownFns : stopTask[f] = "error" \/ f \in stopErrs
  /\ lock = "ours" /\ stopTask["lock"] \notin {"idle", "running"} => stopCtx

\* An exporter of traces or metrics that runs has a shutdown function, unless that
\* was dropped.
ExporterInv ==
  /\ \A e \in ShutdownFns : stopTask[e] \notin {"idle", "running"} => e \notin exporters
  /\ exporters \ {"logs"} \subseteq fns \/ discarded
  /\ pc \in {"config", "logging", "tracing", "metrics"} => ~discarded

LifecycleInv ==
  /\ TypeOK /\ Attempts /\ Outcome /\ NotStarted /\ ServiceInv /\ Drained
  /\ LockHeld /\ StopInv /\ ExporterInv

LEMMA NextStepValue ==
  /\ DOMAIN NextStep = (Early \ {"config"}) \cup {"router", "serving", "returning"}
  /\ NextStep["logging"] = "tracing" /\ NextStep["tracing"] = "metrics"
  /\ NextStep["metrics"] = "database" /\ NextStep["database"] = "migrate"
  /\ NextStep["migrate"] = "storage" /\ NextStep["storage"] = "services"
  /\ NextStep["services"] = "acquire" /\ NextStep["acquire"] = "wait"
  /\ NextStep["wait"] = "jobs" /\ NextStep["jobs"] = "router"
  /\ NextStep["router"] = "serving" /\ NextStep["serving"] = "returning"
  /\ NextStep["returning"] = "shutdown"
BY DEF NextStep, Early

\* What the steps before the services have in common.
EarlyStep ==
  \/ ValidateEnvConfig \/ InitLogging \/ InitExporter \/ ConnectDatabase \/ PlainStep
  \/ Acquire \/ WaitOver \/ WaitCanceled

\* The steps of the server, and the takeover, which disturb no goroutine of a runner.
ServerStep ==
  ServeBegins \/ Accept \/ Respond \/ H2c \/ ShutdownBegins \/ TakenOver

LEMMA EarlyEffect ==
  ASSUME TypeOK, EarlyStep
  PROVE  /\ pc \in Early
         /\ \/ /\ pc' \in Early \cup {"router"} /\ pc' # "config"
               /\ UNCHANGED <<failed, exit>>
            \/ pc' = "returning" /\ failed' = TRUE /\ UNCHANGED exit
            \/ pc' = "exited" /\ exit' = "failed" /\ pc = "config" /\ UNCHANGED failed
            \/ UNCHANGED <<pc, failed, exit>>
         /\ UNCHANGED <<enabled, sigCh, canceled, serveTask, serveCtx, serveErrs,
                        stopTask, stopCtx, stopErrs, deadline, server, closing,
                        requests, overran, hijacked, streams>>
BY NextStepValue
DEF EarlyStep, ValidateEnvConfig, PlainStep, InitLogging, InitExporter,
    ConnectDatabase, Acquire, WaitOver, WaitCanceled, Proceed, Fail, Exit, Alone,
    signalVars, serveVars, stopVars, serverVars, Early

-----------------------------------------------------------------------------
(* Types.                                                                  *)

LEMMA TypeInit == Init => TypeOK
<1> SUFFICES ASSUME Init
             PROVE  TypeOK
  OBVIOUS
<1>1. Serve!TypeOK /\ Stop!TypeOK
  BY DEF Init, Serve!Init, Serve!TypeOK, Stop!Init, Stop!TypeOK
<1>2. pc \in DOMAIN NextStep \cup {"config", "shutdown", "exited"}
  BY DEF Init
<1>3. /\ attempts \in 0..(DbAttempts - 1) /\ sigCh \in 0..SigBuffer
      /\ requests \in 0..MaxRequests /\ streams \in 0..MaxRequests
  BY BoundAssumption DEF Init
<1> QED
  BY <1>1, <1>2, <1>3 DEF Init, TypeOK

LEMMA EarlyTypes ==
  ASSUME TypeOK, Attempts, EarlyStep
  PROVE  TypeOK'
<1>1. exporters' \subseteq Exporter /\ discarded' \in BOOLEAN /\ fns' \subseteq ShutdownFns
  <2>1. CASE InitLogging \/ InitExporter
    BY <2>1 DEF TypeOK, InitLogging, InitExporter, ShutdownFns, Exporter
  <2>2. CASE ~(InitLogging \/ InitExporter)
    BY <2>2 DEF TypeOK, EarlyStep, ValidateEnvConfig, PlainStep, ConnectDatabase,
                Acquire, WaitOver, WaitCanceled, ShutdownFns
  <2> QED
    BY <2>1, <2>2
<1>2. attempts' \in 0..(DbAttempts - 1)
  BY BoundAssumption
  DEF TypeOK, Attempts, EarlyStep, ValidateEnvConfig, PlainStep, InitLogging,
      InitExporter, ConnectDatabase, Acquire, WaitOver, WaitCanceled
<1>3. lock' \in {"free", "ours", "other"}
  BY DEF TypeOK, EarlyStep, ValidateEnvConfig, PlainStep, InitLogging, InitExporter,
         ConnectDatabase, Acquire, WaitOver, WaitCanceled
<1>4. /\ pc' \in DOMAIN NextStep \cup {"config", "shutdown", "exited"}
      /\ failed' \in BOOLEAN /\ exit' \in {"no", "ok", "failed", "forced"}
  <2>1. Early \cup {"router", "returning"} \subseteq DOMAIN NextStep \cup {"config"}
    BY NextStepValue
  <2> QED
    BY <2>1, EarlyEffect DEF TypeOK
<1>5. Serve!TypeOK' /\ Stop!TypeOK'
  BY EarlyEffect DEF TypeOK, Serve!TypeOK, Stop!TypeOK
<1> QED
  BY <1>1, <1>2, <1>3, <1>4, <1>5, EarlyEffect DEF TypeOK

LEMMA TypeStep == TypeOK /\ Attempts /\ [Next]_vars => TypeOK'
<1> SUFFICES ASSUME TypeOK, Attempts, [Next]_vars
             PROVE  TypeOK'
  OBVIOUS
<1> USE DEF signalVars, serveVars, stopVars, serverVars, bootVars
<1>1. CASE EarlyStep
  BY <1>1, EarlyTypes
<1>2. CASE StartServices \/ ServicesReturned
  <2>1. Serve!TypeOK' /\ UNCHANGED <<stopTask, stopCtx, stopErrs>>
    BY <1>2 DEF TypeOK, StartServices, ServicesReturned, Alone, Serve!Start,
                Serve!TypeOK
  <2>2. pc' \in DOMAIN NextStep /\ failed' \in BOOLEAN /\ UNCHANGED exit
    BY <1>2, NextStepValue DEF TypeOK, StartServices, ServicesReturned, Proceed, Fail
  <2> QED
    BY <1>2, <2>1, <2>2
    DEF TypeOK, StartServices, ServicesReturned, Alone, Stop!TypeOK
<1>3. ASSUME NEW s \in Services,
             ReceiveService(s) \/ (s = "renewal" /\ RenewalFails) \/ ServiceStops(s)
             \/ (s = "router" /\ ShutdownEnds)
      PROVE  TypeOK'
  <2>1. Serve!TypeOK'
    BY <1>3
    DEF TypeOK, ReceiveService, RenewalFails, ServiceStops, ShutdownEnds,
        Serve!Return, Serve!Receive, Serve!Result, Serve!TypeOK
  <2>2. UNCHANGED <<enabled, bootVars, signalVars, exporterVars, fns, stopVars,
                    deadline, lock, server, closing, requests, hijacked, streams>>
    BY <1>3 DEF ReceiveService, RenewalFails, ServiceStops, ShutdownEnds, OfService
  <2>3. overran' = overran \/ overran' = (requests > 0)
    BY <1>3 DEF ReceiveService, RenewalFails, ServiceStops, ShutdownEnds, OfService
  <2>4. (requests > 0) \in BOOLEAN /\ overran \in BOOLEAN
    BY DEF TypeOK
  <2>5. overran' \in BOOLEAN
    BY <2>3, <2>4, Zenon
  <2> QED
    BY <2>1, <2>2, <2>5 DEF TypeOK, Stop!TypeOK
<1>4. CASE ServerStep
  <2>1. UNCHANGED <<enabled, bootVars, signalVars, exporterVars, fns, stopVars,
                    deadline, serveVars, overran>>
        /\ closing' \in BOOLEAN /\ lock' \in {"free", "ours", "other"}
        /\ server' \in {"none", "listening", "serving", "down"} /\ hijacked' \in BOOLEAN
    BY <1>4
    DEF TypeOK, ServerStep, ServeBegins, Accept, Respond, H2c, UpgradeH2c,
        StreamBegins, StreamEnds, ShutdownBegins, TakenOver, OfService
  <2>2. requests' \in 0..MaxRequests /\ streams' \in 0..MaxRequests
    BY <1>4, BoundAssumption
    DEF TypeOK, ServerStep, ServeBegins, Accept, Respond, H2c, UpgradeH2c,
        StreamBegins, StreamEnds, ShutdownBegins, TakenOver
  <2> QED
    BY <2>1, <2>2 DEF TypeOK, Serve!TypeOK, Stop!TypeOK
<1>5. CASE ServeFails \/ Signal \/ HandleSignal
  <2>1. UNCHANGED <<enabled, failed, attempts, exporterVars, fns, lock, serveVars,
                    stopVars, deadline, serverVars>>
        /\ canceled' \in BOOLEAN
        /\ pc' \in {pc, "exited"} /\ exit' \in {exit, "forced"}
    BY <1>5 DEF TypeOK, ServeFails, Signal, HandleSignal, Exit
  <2>2. sigCh' \in 0..SigBuffer
    BY <1>5, BoundAssumption DEF TypeOK, ServeFails, Signal, HandleSignal
  <2> QED
    BY <2>1, <2>2 DEF TypeOK, Serve!TypeOK, Stop!TypeOK
<1>6. CASE RunShutdownFns \/ BootstrapReturns
  <2>1. Stop!TypeOK' /\ UNCHANGED <<serveTask, serveCtx, serveErrs>>
    BY <1>6 DEF TypeOK, RunShutdownFns, BootstrapReturns, Alone, Stop!Start,
                Stop!TypeOK
  <2>2. pc' \in {"shutdown", "exited"} /\ exit' \in {exit, "ok", "failed"}
    BY <1>6, NextStepValue DEF RunShutdownFns, BootstrapReturns, Proceed, Exit
  <2> QED
    BY <1>6, <2>1, <2>2
    DEF TypeOK, RunShutdownFns, BootstrapReturns, Proceed, Alone, Serve!TypeOK
<1>7. ASSUME NEW f \in ShutdownFns, StopFn(f) \/ ReceiveFn(f) \/ DeadlinePasses
      PROVE  TypeOK'
  <2>1. Stop!TypeOK'
    BY <1>7
    DEF TypeOK, StopFn, ReceiveFn, DeadlinePasses, Release, ShutdownExporter,
        StopError, Stop!Return, Stop!Receive, Stop!Result, Stop!TypeOK
  <2>2. lock' \in {"free", "ours", "other"} /\ exporters' \subseteq Exporter
        /\ discarded' = discarded /\ deadline' \in BOOLEAN
    BY <1>7
    DEF TypeOK, StopFn, ReceiveFn, DeadlinePasses, Release, Released, ShutdownExporter
  <2>3. UNCHANGED <<enabled, bootVars, signalVars, fns, serveVars, serverVars>>
    BY <1>7
    DEF StopFn, ReceiveFn, DeadlinePasses, Release, ShutdownExporter, OfStop
  <2> QED
    BY <2>1, <2>2, <2>3 DEF TypeOK, Serve!TypeOK
<1>8. CASE UNCHANGED vars
  BY <1>8 DEF TypeOK, vars, Serve!TypeOK, Stop!TypeOK
<1> QED
  BY <1>1, <1>2, <1>3, <1>4, <1>5, <1>6, <1>7, <1>8
  DEF Next, Bootstrap, Router, EarlyStep, ServerStep, Services, ShutdownFns

-----------------------------------------------------------------------------
(* The invariant.                                                          *)

LEMMA InvInit == Init => LifecycleInv
<1> SUFFICES ASSUME Init
             PROVE  LifecycleInv
  OBVIOUS
<1>1. TypeOK
  BY TypeInit
<1>2. Attempts /\ Outcome
  BY BoundAssumption DEF Init, Attempts, Outcome, Over
<1>3. NotStarted /\ ServiceInv /\ Drained
  BY DEF Init, NotStarted, ServiceInv, Drained, Over, Serve!Init, Services, Early
<1>4. LockHeld /\ StopInv /\ ExporterInv
  BY DEF Init, LockHeld, StopInv, ExporterInv, Over, Stop!Init, ShutdownFns, Exporter
<1> QED
  BY <1>1, <1>2, <1>3, <1>4 DEF LifecycleInv

\* The steps before the services start nothing but exporters.
LEMMA EarlyInv ==
  ASSUME LifecycleInv, EarlyStep
  PROVE  LifecycleInv'
<1> USE DEF LifecycleInv
<1>1. TypeOK'
  BY EarlyTypes
<1>2. Attempts'
  BY EarlyEffect, NextStepValue, BoundAssumption
  DEF TypeOK, Attempts, EarlyStep, ValidateEnvConfig, PlainStep, InitLogging,
      InitExporter, ConnectDatabase, Acquire, WaitOver, WaitCanceled, Proceed, Fail,
      Exit
<1>3. server = "none" /\ server' = "none"
  BY EarlyEffect DEF NotStarted
<1>4. Outcome' /\ Drained'
  <2>1. ~failed /\ exit = "no" /\ pc # "exited"
    BY EarlyEffect DEF Outcome, BeforeReturn, Early
  <2>2. exit' = "no" <=> pc' # "exited"
    BY <2>1, EarlyEffect DEF Early
  <2>3. pc' \in BeforeReturn => ~failed'
    BY <2>1, EarlyEffect DEF BeforeReturn, Early
  <2> QED
    BY <1>3, <2>2, <2>3 DEF Outcome, Drained
<1>5. NotStarted'
  <2>1. pc' # "serving"
    BY EarlyEffect DEF Early
  <2> QED
    BY <1>3, <2>1, EarlyEffect DEF NotStarted
<1>6. ServiceInv'
  BY <1>3, EarlyEffect DEF ServiceInv, Runs
<1>7. LockHeld'
  BY <1>3, EarlyEffect, NextStepValue
  DEF LockHeld, EarlyStep, ValidateEnvConfig, PlainStep, InitLogging, InitExporter,
      ConnectDatabase, Acquire, WaitOver, WaitCanceled, Proceed, Fail, Exit
<1>8. StopInv'
  <2>1. ~stopCtx' /\ \A f \in ShutdownFns : stopTask'[f] = "idle"
    BY EarlyEffect DEF StopInv, Early
  <2>2. Over' => fns' = {}
    BY EarlyEffect DEF StopInv, Outcome, Over, Early, EarlyStep, ValidateEnvConfig,
                       PlainStep, InitLogging, InitExporter, ConnectDatabase, Acquire,
                       WaitOver, WaitCanceled, Proceed, Fail
  <2>3. pc' = "config" => fns' = {}
    BY EarlyEffect, NextStepValue DEF StopInv, EarlyStep, ValidateEnvConfig,
        PlainStep, InitLogging, InitExporter, ConnectDatabase, Acquire, WaitOver,
        WaitCanceled, Proceed, Fail
  <2>4. "lock" \in ShutdownFns
    BY DEF ShutdownFns
  <2> QED
    BY <2>1, <2>2, <2>3, <2>4 DEF StopInv
<1>9. ExporterInv'
  <2>1. \A e \in ShutdownFns : stopTask'[e] = "idle"
    BY EarlyEffect DEF StopInv, Early
  <2>2. CASE InitLogging \/ InitExporter
    <3>1. CASE InitLogging
      BY <2>1, <3>1, NextStepValue DEF ExporterInv, InitLogging, Proceed, Fail
    <3>2. CASE InitExporter
      <4>1. PICK e \in {"traces", "metrics"} :
              \/ /\ exporters' = exporters \cup (enabled \cap {e})
                 /\ fns' = fns \cup (enabled \cap {e})
                 /\ discarded' = discarded
              \/ pc' = "returning" /\ DiscardFns /\ UNCHANGED exporters
        BY <3>2 DEF InitExporter, Proceed, Fail
      <4>2. ~discarded /\ (pc' = "metrics" => ~discarded')
        BY <3>2, NextStepValue DEF ExporterInv, InitExporter, Proceed, Fail
      <4>3. exporters' \ {"logs"} \subseteq fns' \/ discarded'
        BY <4>1, <4>2 DEF ExporterInv
      <4>4. pc' \notin {"config", "logging", "tracing"}
        BY <3>2, NextStepValue DEF InitExporter, Proceed, Fail
      <4> QED
        BY <2>1, <4>2, <4>3, <4>4 DEF ExporterInv
    <3> QED
      BY <2>2, <3>1, <3>2
  <2>3. CASE ~(InitLogging \/ InitExporter)
    <3>1. UNCHANGED exporterVars /\ fns \subseteq fns'
      BY <2>3 DEF EarlyStep, ValidateEnvConfig, PlainStep, ConnectDatabase, Acquire,
                  WaitOver, WaitCanceled
    <3> QED
      BY <2>1, <2>3, <3>1, EarlyEffect, NextStepValue
      DEF ExporterInv, Early, EarlyStep, ValidateEnvConfig, PlainStep,
          ConnectDatabase, Acquire, WaitOver, WaitCanceled, Proceed, Fail, Exit
  <2> QED
    BY <2>2, <2>3
<1> QED
  BY <1>1, <1>2, <1>4, <1>5, <1>6, <1>7, <1>8, <1>9

LEMMA StartInv ==
  ASSUME LifecycleInv, StartServices
  PROVE  LifecycleInv'
<1> USE DEF LifecycleInv
<1>1. TypeOK' /\ server = "none" /\ pc = "router"
  BY TypeStep DEF StartServices, NotStarted, Next, Bootstrap
<1>2. /\ \A s \in Services : serveTask[s] = "idle"
      /\ requests = 0 /\ ~closing /\ ~serveCtx /\ ~failed /\ exit = "no" /\ "lock" \in fns
  BY <1>1 DEF NotStarted, Outcome, BeforeReturn, LockHeld
<1>3. \/ /\ pc' = "serving" /\ server' = "listening" /\ UNCHANGED failed
         /\ serveTask' = [s \in Services |-> IF s \in Runs THEN "running" ELSE serveTask[s]]
      \/ pc' = "returning" /\ UNCHANGED <<serveTask, server>> /\ failed' = TRUE
  BY <1>1, NextStepValue DEF StartServices, Proceed, Fail, Serve!Start, serveVars
<1>4. UNCHANGED <<exit, enabled, attempts, canceled, exporterVars, fns, lock,
                  stopTask, stopCtx, stopErrs, closing, requests, overran, serveCtx,
                  serveErrs>>
  BY DEF StartServices, Proceed, Fail, Serve!Start, serveVars, stopVars, signalVars
<1>5. Attempts'
  BY <1>1, <1>3, <1>4 DEF Attempts
<1>6. Outcome' /\ Drained'
  BY <1>1, <1>2, <1>3, <1>4 DEF Outcome, Drained, Over, BeforeReturn, Early
<1>7. NotStarted'
  BY <1>1, <1>2, <1>3, <1>4 DEF NotStarted, Early
<1>8. ServiceInv'
  BY <1>1, <1>2, <1>3, <1>4 DEF ServiceInv, Runs, Services
<1>9. LockHeld'
  BY <1>1, <1>2, <1>3, <1>4 DEF LockHeld
<1>10. StopInv'
  BY <1>1, <1>2, <1>3, <1>4 DEF StopInv, Over
<1>11. ExporterInv'
  BY <1>1, <1>3, <1>4 DEF ExporterInv, BeforeReturn
<1> QED
  BY <1>1, <1>5, <1>6, <1>7, <1>8, <1>9, <1>10, <1>11

LEMMA ReturnedInv ==
  ASSUME LifecycleInv, ServicesReturned
  PROVE  LifecycleInv'
<1> USE DEF LifecycleInv
<1>1. TypeOK' /\ server # "none" /\ pc = "serving"
  BY TypeStep DEF ServicesReturned, NotStarted, Next, Bootstrap
<1>2. ~failed /\ exit = "no"
  BY <1>1 DEF Outcome, BeforeReturn
<1>3. UNCHANGED <<exit, enabled, attempts, canceled, exporterVars, fns, lock,
                  stopTask, stopCtx, stopErrs, serveTask, serveCtx, serveErrs, server,
                  closing, requests, overran>>
  BY DEF ServicesReturned, Proceed, Fail, Alone, serveVars, stopVars, signalVars,
         serverVars
<1>4. pc' = "returning" /\ failed' = (serveErrs # {})
  BY <1>1, <1>2, NextStepValue DEF ServicesReturned, Proceed, Fail, TypeOK
<1>5. serveCtx <=> serveErrs # {}
  <2>1. \A s \in Services : serveTask[s] # "error"
    BY DEF ServicesReturned, ServiceInv, Serve!Returned
  <2> QED
    BY <2>1 DEF ServiceInv, TypeOK, Serve!TypeOK
<1>6. Serve!Returned(Runs)'
  BY <1>3 DEF ServicesReturned, Serve!Returned, Runs
<1>7. Attempts' /\ Outcome'
  BY <1>1, <1>2, <1>3, <1>4 DEF Attempts, Outcome, BeforeReturn, Early, Over
<1>8. Drained'
  BY <1>3, <1>4, <1>5, <1>6 DEF Drained, TypeOK, Serve!TypeOK
<1>9. NotStarted' /\ ServiceInv'
  BY <1>1, <1>3, <1>4 DEF NotStarted, ServiceInv, Early, Runs
<1>10. LockHeld' /\ StopInv' /\ ExporterInv'
  BY <1>1, <1>2, <1>3, <1>4 DEF LockHeld, StopInv, ExporterInv, Over
<1> QED
  BY <1>1, <1>7, <1>8, <1>9, <1>10

\* A goroutine that returns or is received has not been received, so Bootstrap has
\* not gone on.
LEMMA ServiceStepInv ==
  ASSUME LifecycleInv, pc # "exited", NEW s \in Services,
         \/ ReceiveService(s)
         \/ s # "router" /\ ServiceStops(s)
         \/ s = "renewal" /\ RenewalFails
         \/ s = "router" /\ ShutdownEnds
  PROVE  TypeOK' => LifecycleInv'
<1> USE DEF LifecycleInv
<1>1. /\ serveTask[s] \notin {"idle", "received"}
      /\ UNCHANGED <<pc, failed, exit, enabled, attempts, canceled, exporterVars, fns,
                     lock, stopTask, stopCtx, stopErrs, server, closing, requests>>
  BY DEF ReceiveService, ServiceStops, RenewalFails, ShutdownEnds, Serve!Return,
         Serve!Receive, Serve!Result, OfService, bootVars, stopVars, signalVars,
         serverVars
<1>2. server # "none" /\ s \in Runs /\ ~Serve!Returned(Runs)
  BY <1>1 DEF NotStarted, ServiceInv, Serve!Returned
<1>3. pc \notin {"returning", "shutdown"} /\ ~Over /\ lock # "free"
  BY <1>2 DEF Drained, LockHeld
<1>4. Attempts' /\ Outcome' /\ NotStarted' /\ Drained' /\ LockHeld'
  BY <1>1, <1>2, <1>3 DEF Attempts, Outcome, NotStarted, Drained, LockHeld, Over
<1>5. StopInv' /\ ExporterInv'
  BY <1>1 DEF StopInv, ExporterInv, Over
<1> SUFFICES ServiceInv'
  BY <1>4, <1>5
<1>6. CASE ReceiveService(s)
  <2>1. /\ serveTask[s] \in Serve!Result /\ serveCtx' = serveCtx /\ overran' = overran
        /\ serveErrs' = serveErrs \cup (IF serveTask[s] = "error" THEN {s} ELSE {})
        /\ \A t \in Services :
             serveTask'[t] = IF t = s THEN "received" ELSE serveTask[t]
    BY <1>6 DEF ReceiveService, Serve!Receive, serverVars, TypeOK, Serve!TypeOK
  <2>2. (\E t \in Services : serveTask[t] = "error" \/ t \in serveErrs)
        => \E t \in Services : serveTask'[t] = "error" \/ t \in serveErrs'
    BY <2>1
  <2>3. \A t \in Services : serveTask'[t] = "error" \/ t \in serveErrs' => serveCtx'
    BY <2>1 DEF ServiceInv
  <2>4. serveTask'["router"] \notin {"idle", "running"} =>
          serveTask["router"] \notin {"idle", "running"}
    BY <2>1 DEF Services, Serve!Result
  <2>7. \A t \in Services : serveTask'[t] # "idle" => t \in Runs'
    BY <1>1, <1>2, <2>1 DEF ServiceInv, Runs
  <2>8. closing' => server' # "serving" /\ (canceled' \/ serveCtx')
    BY <1>1, <2>1 DEF ServiceInv
  <2> QED
    BY <2>1, <2>2, <2>3, <2>4, <2>7, <2>8, <1>1 DEF ServiceInv
<1>7. CASE ~ReceiveService(s)
  <2>1. PICK r \in Serve!Result : Serve!Return(s, r)
    BY <1>7 DEF ServiceStops, RenewalFails, ShutdownEnds, Serve!Result
  <2>2. /\ serveErrs' = serveErrs /\ serveCtx' = (serveCtx \/ r = "error")
        /\ serveTask[s] = "running"
        /\ \A t \in Services : serveTask'[t] = IF t = s THEN r ELSE serveTask[t]
    BY <2>1 DEF Serve!Return, TypeOK, Serve!TypeOK
  <2>3. IF s = "router" THEN closing /\ (requests = 0 \/ overran') ELSE overran' = overran
    BY <1>7, BoundAssumption
    DEF ServiceStops, RenewalFails, ShutdownEnds, OfService, serverVars, TypeOK
  <2>4. serveTask'["router"] \notin {"idle", "running"} => closing' /\ (requests' = 0 \/ overran')
    BY <1>1, <2>2, <2>3 DEF ServiceInv, Services
  <2>5. serveCtx' => \E t \in Services : serveTask'[t] = "error" \/ t \in serveErrs'
    <3>1. CASE r = "error"
      BY <2>2, <3>1
    <3>2. CASE r # "error"
      <4>1. PICK t \in Services : serveCtx' => serveTask[t] = "error" \/ t \in serveErrs
        BY <2>2, <3>2 DEF ServiceInv
      <4> QED
        BY <2>2, <4>1
    <3> QED
      BY <3>1, <3>2
  <2>6. \A t \in Services : serveTask'[t] = "error" \/ t \in serveErrs' => serveCtx'
    BY <2>2 DEF ServiceInv
  <2>7. \A t \in Services : serveTask'[t] # "idle" => t \in Runs'
    BY <1>1, <1>2, <2>2 DEF ServiceInv, Runs
  <2>8. closing' => server' # "serving" /\ (canceled' \/ serveCtx')
    BY <1>1, <2>2 DEF ServiceInv
  <2> QED
    BY <2>2, <2>4, <2>5, <2>6, <2>7, <2>8, <1>1 DEF ServiceInv
<1> QED
  BY <1>6, <1>7

LEMMA ServerInv ==
  ASSUME LifecycleInv, pc # "exited",
         ServerStep
  PROVE  TypeOK' => LifecycleInv'
<1> USE DEF LifecycleInv
<1>1. UNCHANGED <<pc, failed, exit, enabled, attempts, canceled, exporterVars, fns,
                  stopTask, stopCtx, stopErrs, serveTask, serveCtx, serveErrs,
                  overran>>
  BY DEF ServerStep, ServeBegins, Accept, Respond, H2c, UpgradeH2c, StreamBegins,
         StreamEnds, ShutdownBegins, TakenOver, OfService, bootVars, stopVars,
         signalVars, serverVars, serveVars
<1>2. /\ server' # "none" <=> server # "none"
      /\ server = "none" => UNCHANGED <<requests, closing>>
      /\ lock' # lock => lock = "ours" /\ lock' = "other"
  BY BoundAssumption
  DEF ServerStep, ServeBegins, Accept, Respond, H2c, UpgradeH2c, StreamBegins,
      StreamEnds, ShutdownBegins, TakenOver, serverVars, NotStarted, TypeOK, Services
<1>3. Attempts' /\ Outcome' /\ NotStarted'
  BY <1>1, <1>2 DEF Attempts, Outcome, NotStarted, Over
<1>4. Drained' /\ LockHeld'
  BY <1>1, <1>2 DEF Drained, LockHeld, Over, Serve!Returned, Runs
<1>5. StopInv' /\ ExporterInv'
  BY <1>1, <1>2 DEF StopInv, ExporterInv, Over
<1>6. closing' => server' # "serving" /\ (canceled' \/ serveCtx')
  BY <1>1
  DEF ServerStep, ServeBegins, Accept, Respond, H2c, UpgradeH2c, StreamBegins,
      StreamEnds, ShutdownBegins, TakenOver, serverVars, ServiceInv, ServiceCanceled
<1>7. serveTask["router"] \notin {"idle", "running"} => closing' /\ (requests' = 0 \/ overran)
  BY BoundAssumption
  DEF ServerStep, ServeBegins, Accept, Respond, H2c, UpgradeH2c, StreamBegins,
      StreamEnds, ShutdownBegins, TakenOver, serverVars, ServiceInv, TypeOK
<1>8. ServiceInv'
  BY <1>1, <1>6, <1>7 DEF ServiceInv, Runs
<1> QED
  BY <1>3, <1>4, <1>5, <1>8

LEMMA SignalInv ==
  ASSUME LifecycleInv, pc # "exited", ServeFails \/ Signal \/ HandleSignal
  PROVE  TypeOK' => LifecycleInv'
<1> USE DEF LifecycleInv
<1>1. /\ UNCHANGED <<failed, enabled, attempts, exporterVars, fns, lock, stopTask,
                     stopCtx, stopErrs, serveTask, serveCtx, serveErrs, server,
                     closing, requests, overran>>
      /\ canceled' = canceled \/ canceled' = TRUE
  BY DEF ServeFails, Signal, HandleSignal, bootVars, stopVars, serverVars, serveVars,
         signalVars
<1>2. /\ exit = "no"
      /\ UNCHANGED <<pc, exit>> \/ (pc' = "exited" /\ exit' = "forced")
  BY DEF Outcome, ServeFails, Signal, HandleSignal, Exit, bootVars
<1>3. Attempts' /\ Outcome' /\ NotStarted'
  BY <1>1, <1>2 DEF Attempts, Outcome, NotStarted, Over, BeforeReturn, Early
<1>4. Drained' /\ ServiceInv'
  BY <1>1, <1>2 DEF Drained, ServiceInv, Over, Serve!Returned, Runs
<1>5. LockHeld' /\ StopInv' /\ ExporterInv'
  BY <1>1, <1>2
  DEF LockHeld, StopInv, ExporterInv, Over, Serve!Returned, Runs, BeforeReturn, Early
<1> QED
  BY <1>3, <1>4, <1>5

LEMMA RunFnsInv ==
  ASSUME LifecycleInv, RunShutdownFns
  PROVE  TypeOK' => LifecycleInv'
<1> USE DEF LifecycleInv
<1>1. /\ pc = "returning" /\ pc' = "shutdown"
      /\ UNCHANGED <<failed, exit, enabled, attempts, canceled, exporterVars, fns,
                     lock, stopCtx, stopErrs, serveTask, serveCtx, serveErrs, server,
                     closing, requests, overran>>
      /\ \A f \in ShutdownFns : stopTask'[f] = IF f \in fns THEN "running" ELSE stopTask[f]
  BY NextStepValue DEF RunShutdownFns, Proceed, Stop!Start, signalVars, serverVars,
                       serveVars
<1>2. exit = "no" /\ ~stopCtx /\ \A f \in ShutdownFns : stopTask[f] = "idle"
  BY <1>1 DEF Outcome, StopInv
<1>3. Attempts' /\ Outcome' /\ NotStarted' /\ ServiceInv'
  BY <1>1, <1>2
  DEF Attempts, Outcome, NotStarted, ServiceInv, Over, BeforeReturn, Early, Runs
<1>4. Drained' /\ LockHeld'
  BY <1>1, <1>2 DEF Drained, LockHeld, Over, Serve!Returned, Runs
<1>5. StopInv'
  BY <1>1, <1>2 DEF StopInv, Over, ShutdownFns
<1>6. ExporterInv'
  BY <1>1, <1>2 DEF ExporterInv, BeforeReturn, Early, ShutdownFns
<1> QED
  BY <1>3, <1>4, <1>5, <1>6

LEMMA ReturnInv ==
  ASSUME LifecycleInv, BootstrapReturns
  PROVE  TypeOK' => LifecycleInv'
<1> USE DEF LifecycleInv
<1>1. /\ pc = "shutdown" /\ pc' = "exited" /\ Stop!Returned(fns)
      /\ exit' = IF failed THEN "failed" ELSE "ok"
      /\ UNCHANGED <<failed, enabled, attempts, canceled, exporterVars, fns, lock,
                     stopTask, stopCtx, stopErrs, serveTask, serveCtx, serveErrs,
                     server, closing, requests, overran>>
  BY DEF BootstrapReturns, Exit, Alone, signalVars, serverVars, serveVars, stopVars
<1>2. Attempts' /\ Outcome' /\ NotStarted' /\ ServiceInv'
  BY <1>1
  DEF Attempts, Outcome, NotStarted, ServiceInv, Over, BeforeReturn, Early, Runs
<1>3. Drained' /\ LockHeld'
  BY <1>1 DEF Drained, LockHeld, Over, Serve!Returned, Runs
<1>4. StopInv'
  BY <1>1 DEF StopInv, Over, Stop!Returned
<1>5. ExporterInv'
  BY <1>1 DEF ExporterInv, BeforeReturn, Early
<1> QED
  BY <1>2, <1>3, <1>4, <1>5

\* A shutdown function that returns or is received is one that Bootstrap waits for.
LEMMA StopStepInv ==
  ASSUME LifecycleInv, pc # "exited", NEW f \in ShutdownFns,
         StopFn(f) \/ ReceiveFn(f)
  PROVE  TypeOK' => LifecycleInv'
<1> USE DEF LifecycleInv
<1>1. /\ stopTask[f] \notin {"idle", "received"}
      /\ UNCHANGED <<pc, failed, exit, enabled, attempts, canceled, fns, serveTask,
                     serveCtx, serveErrs, server, closing, requests, overran>>
  BY DEF StopFn, ReceiveFn, Release, ShutdownExporter, Stop!Return, Stop!Receive,
         Stop!Result, OfStop, bootVars, signalVars, serverVars, serveVars
<1>2. pc = "shutdown" /\ exit = "no" /\ f \in fns
  BY <1>1 DEF StopInv, Outcome
<1>3. lock' = lock \/ (lock = "ours" /\ lock' = "free")
  BY DEF StopFn, ReceiveFn, Release, Released, ShutdownExporter
<1>4. Attempts' /\ Outcome' /\ NotStarted' /\ ServiceInv'
  BY <1>1 DEF Attempts, Outcome, NotStarted, ServiceInv, Over, Runs
<1>5. Drained' /\ LockHeld'
  BY <1>1, <1>2, <1>3 DEF Drained, LockHeld, Over, Serve!Returned, Runs
<1>6. exporters' \subseteq exporters /\ discarded' = discarded
  BY DEF StopFn, ReceiveFn, Release, ShutdownExporter
<1>7. CASE ReceiveFn(f)
  <2>1. /\ stopTask[f] \in Stop!Result /\ UNCHANGED <<stopCtx, lock, exporterVars>>
        /\ stopErrs' = stopErrs \cup (IF stopTask[f] = "error" THEN {f} ELSE {})
        /\ \A g \in ShutdownFns : stopTask'[g] = IF g = f THEN "received" ELSE stopTask[g]
    BY <1>7 DEF ReceiveFn, Stop!Receive, TypeOK, Stop!TypeOK
  <2>2. stopCtx' => \E g \in ShutdownFns : stopTask'[g] = "error" \/ g \in stopErrs'
    BY <2>1 DEF StopInv
  <2>3. \A g \in ShutdownFns : stopTask'[g] \notin {"idle", "running"} =>
                               stopTask[g] \notin {"idle", "running"}
    BY <2>1 DEF Stop!Result
  <2>4. StopInv'
    BY <1>1, <1>2, <2>1, <2>2, <2>3 DEF StopInv, Over, ShutdownFns
  <2>5. ExporterInv'
    BY <1>1, <2>1, <2>3 DEF ExporterInv, ShutdownFns
  <2> QED
    BY <1>4, <1>5, <2>4, <2>5
<1>8. CASE StopFn(f)
  <2>1. PICK r \in Stop!Result : Stop!Return(f, r)
    BY <1>8 DEF StopFn, Release, ShutdownExporter, StopError, Stop!Result
  <2>2. /\ stopErrs' = stopErrs /\ stopCtx' = (stopCtx \/ r = "error")
        /\ stopTask[f] = "running"
        /\ \A g \in ShutdownFns : stopTask'[g] = IF g = f THEN r ELSE stopTask[g]
    BY <2>1 DEF Stop!Return, TypeOK, Stop!TypeOK
  <2>3. stopCtx' => \E g \in ShutdownFns : stopTask'[g] = "error" \/ g \in stopErrs'
    <3>1. CASE r = "error"
      BY <2>2, <3>1
    <3>2. CASE r # "error"
      <4>1. PICK g \in ShutdownFns : stopCtx' => stopTask[g] = "error" \/ g \in stopErrs
        BY <2>2, <3>2 DEF StopInv
      <4> QED
        BY <2>2, <4>1
    <3> QED
      BY <3>1, <3>2
  <2>4. f = "lock" /\ lock' = "ours" => stopCtx'
    BY <1>8 DEF StopFn, Release, Released, StopError, Stop!Return
  <2>5. lock' = "ours" => lock = "ours"
    BY <1>3
  <2>6. lock' = "ours" /\ stopTask'["lock"] \notin {"idle", "running"} => stopCtx'
    BY <2>2, <2>4, <2>5 DEF StopInv, ShutdownFns
  <2>7. StopInv'
    BY <1>1, <1>2, <2>2, <2>3, <2>6 DEF StopInv, Over
  <2>8. exporters' = IF f = "lock" THEN exporters ELSE exporters \ {f}
    BY <1>8 DEF StopFn, ShutdownExporter, Release
  <2>9. ExporterInv'
    BY <1>1, <1>2, <1>6, <2>2, <2>8 DEF ExporterInv, ShutdownFns, TypeOK, Exporter
  <2> QED
    BY <1>4, <1>5, <2>7, <2>9
<1> QED
  BY <1>7, <1>8

LEMMA InvStep == LifecycleInv /\ [Next]_vars => LifecycleInv'
<1> SUFFICES ASSUME LifecycleInv, [Next]_vars
             PROVE  LifecycleInv'
  OBVIOUS
<1>1. TypeOK'
  BY TypeStep DEF LifecycleInv
<1>2. CASE UNCHANGED vars
  BY <1>1, <1>2
  DEF vars, signalVars, bootVars, stopVars, serverVars, serveVars, LifecycleInv,
      Attempts, Outcome, NotStarted, ServiceInv, Drained, LockHeld, StopInv,
      ExporterInv, Over, Runs, Serve!Returned
<1>3. CASE DeadlinePasses
  BY <1>1, <1>3
  DEF DeadlinePasses, OfStop, signalVars, bootVars, stopVars, serverVars, serveVars,
      LifecycleInv, Attempts, Outcome, NotStarted, ServiceInv, Drained, LockHeld,
      StopInv, ExporterInv, Over, Runs, Serve!Returned
<1>4. CASE EarlyStep
  BY <1>4, EarlyInv
<1>5. CASE StartServices \/ ServicesReturned
  BY <1>5, StartInv, ReturnedInv
<1>6. CASE RunShutdownFns \/ BootstrapReturns
  BY <1>1, <1>6, RunFnsInv, ReturnInv
<1>7. CASE /\ pc # "exited"
           /\ ServerStep
  BY <1>1, <1>7, ServerInv
<1>8. CASE pc # "exited" /\ (ServeFails \/ Signal \/ HandleSignal)
  BY <1>1, <1>8, SignalInv
<1>9. ASSUME pc # "exited", NEW s \in Services,
             \/ ReceiveService(s)
             \/ s # "router" /\ ServiceStops(s)
             \/ s = "renewal" /\ RenewalFails
             \/ s = "router" /\ ShutdownEnds
      PROVE  LifecycleInv'
  BY <1>1, <1>9, ServiceStepInv
<1>10. ASSUME pc # "exited", NEW f \in ShutdownFns, StopFn(f) \/ ReceiveFn(f)
       PROVE  LifecycleInv'
  BY <1>1, <1>10, StopStepInv
<1>11. /\ "renewal" \in Services /\ "router" \in Services
       /\ \A s \in {"renewal", "scheduler"} : s \in Services /\ s # "router"
  BY DEF Services
<1> HIDE DEF LifecycleInv
<1> QED
  BY <1>2, <1>3, <1>4, <1>5, <1>6, <1>7, <1>8, <1>9, <1>10, <1>11
  DEF Next, Bootstrap, Router, EarlyStep, ServerStep

LEMMA InvCorrect == Spec => []LifecycleInv
BY InvInit, InvStep, PTL DEF Spec

-----------------------------------------------------------------------------
(* The theorems.                                                           *)

\* Every state is typed: no request beyond the bound, no attempt too many, no
\* goroutine where its code does not go.
THEOREM TypeCorrect == Spec => []TypeOK
<1>1. LifecycleInv => TypeOK
  BY DEF LifecycleInv
<1> QED
  BY <1>1, InvCorrect, PTL

\* The lock is given up only when no request is handled any more on a connection of
\* the server, or the server gave up on it: Bootstrap's deferred function runs after
\* the services.  Nothing is claimed of connections upgraded to h2c.
THEOREM ServesUnderLockTheorem == Spec => []ServesUnderLock
<1>1. LifecycleInv => ServesUnderLock
  <2> SUFFICES ASSUME LifecycleInv, requests > 0, lock = "free"
               PROVE  overran
    BY DEF ServesUnderLock
  <2>1. server # "none"
    BY DEF LifecycleInv, NotStarted
  <2>2. Serve!Returned(Runs)
    BY <2>1 DEF LifecycleInv, LockHeld
  <2>3. serveTask["router"] = "received"
    BY <2>2 DEF Serve!Returned, Runs
  <2> QED
    BY <2>3 DEF LifecycleInv, ServiceInv
<1> QED
  BY <1>1, InvCorrect, PTL

\* When Bootstrap has returned, no goroutine it waits for is left, and no exporter of
\* traces or metrics, unless its shutdown function was dropped; the log exporter has
\* none.
THEOREM NothingLeftTheorem == Spec => []NothingLeft
<1>1. LifecycleInv => NothingLeft
  <2> SUFFICES ASSUME LifecycleInv, Over
               PROVE  /\ \A s \in Services : serveTask[s] \in {"idle", "received"}
                      /\ \A f \in ShutdownFns : stopTask[f] \in {"idle", "received"}
                      /\ exporters \subseteq {"logs"} \/ discarded
    BY DEF NothingLeft, Over
  <2>1. \A s \in Services : serveTask[s] \in {"idle", "received"}
    BY DEF LifecycleInv, Drained, NotStarted, ServiceInv, Serve!Returned
  <2>2. \A f \in ShutdownFns : stopTask[f] \in {"idle", "received"}
    BY DEF LifecycleInv, StopInv
  <2>3. exporters \subseteq {"logs"} \/ discarded
    BY DEF LifecycleInv, StopInv, ExporterInv, TypeOK
  <2> QED
    BY <2>1, <2>2, <2>3
<1> QED
  BY <1>1, InvCorrect, PTL

\* A process that has served, and whose Bootstrap returned, leaves its lock only
\* with an error of a shutdown function.
THEOREM LockLeftTheorem == Spec => []LockLeftOnFailure
<1>1. LifecycleInv => LockLeftOnFailure
  <2> SUFFICES ASSUME LifecycleInv, Over, server # "none", lock = "ours"
               PROVE  stopErrs # {}
    BY DEF LockLeftOnFailure, Over
  <2>1. stopTask["lock"] = "received"
    BY DEF LifecycleInv, LockHeld, StopInv
  <2>2. stopCtx
    BY <2>1 DEF LifecycleInv, StopInv
  <2>3. \A f \in ShutdownFns : stopTask[f] # "error"
    BY DEF LifecycleInv, StopInv
  <2> QED
    BY <2>2, <2>3 DEF LifecycleInv, StopInv
<1> QED
  BY <1>1, InvCorrect, PTL

\* The exit code of a process that has served tells whether a service failed, in
\* whatever order errors and signals came.
THEOREM ExitTheorem == Spec => []ExitTellsFailure
<1>1. LifecycleInv => ExitTellsFailure
  <2> SUFFICES ASSUME LifecycleInv, Over, server # "none"
               PROVE  (exit = "failed" <=> serveCtx) /\ (exit = "ok" => canceled)
    BY DEF ExitTellsFailure, Over
  <2>1. Serve!Returned(Runs) /\ (exit = "failed" <=> serveCtx)
    BY DEF LifecycleInv, Drained, Outcome
  <2>2. closing
    BY <2>1 DEF LifecycleInv, ServiceInv, Serve!Returned, Runs
  <2> QED
    BY <2>1, <2>2 DEF LifecycleInv, ServiceInv
<1> QED
  BY <1>1, InvCorrect, PTL
=============================================================================
