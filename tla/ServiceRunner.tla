--------------------------- MODULE ServiceRunner ---------------------------
(***************************************************************************)
(* One run of a ServiceRunner (backend/internal/utils/servicerunner.go):   *)
(* a goroutine for each service, and one that collects what they return.   *)
(* Bootstrap has two of them, one for its services and one for its         *)
(* shutdown functions.                                                     *)
(***************************************************************************)
CONSTANT Service  \* every service that may be run

VARIABLES
  task,  \* where each goroutine is; one that is sending is named by its error
  ctx,   \* the runner has canceled the context of its services
  errs   \* the services whose errors were collected

\* What a service returns; a wrapped context.Canceled is "canceled".
Result == {"nil", "canceled", "error"}

TypeOK ==
  /\ task \in [Service -> {"idle", "running", "received"} \cup Result]
  /\ ctx \in BOOLEAN
  /\ errs \subseteq Service

Init ==
  /\ task = [s \in Service |-> "idle"]
  /\ ctx = FALSE
  /\ errs = {}

Start(services) ==
  /\ task' = [s \in Service |-> IF s \in services THEN "running" ELSE task[s]]
  /\ UNCHANGED <<ctx, errs>>

\* Mutant: an error does not cancel the context.
ReturnAlone(s, result) ==
  /\ task[s] = "running"
  /\ task' = [task EXCEPT ![s] = result]
  /\ UNCHANGED <<ctx, errs>>

\* The first error cancels the context before it is sent.
Return(s, result) ==
  /\ task[s] = "running"
  /\ task' = [task EXCEPT ![s] = result]
  /\ ctx' = (ctx \/ result = "error")
  /\ UNCHANGED errs

\* Mutant: an error that comes when the context is canceled is not collected.
ReceiveUnlessCanceled(s) ==
  /\ task[s] \in Result
  /\ task' = [task EXCEPT ![s] = "received"]
  /\ errs' = errs \cup (IF task[s] = "error" /\ ~ctx THEN {s} ELSE {})
  /\ UNCHANGED ctx

\* errCh has no buffer: the goroutine sends when Run receives.
Receive(s) ==
  /\ task[s] \in Result
  /\ task' = [task EXCEPT ![s] = "received"]
  /\ errs' = errs \cup (IF task[s] = "error" THEN {s} ELSE {})
  /\ UNCHANGED ctx

\* Mutant: Run returns with the first result.
ReturnedFirst(services) == \E s \in services : task[s] = "received"

\* Run returns when every service has.
Returned(services) == \A s \in services : task[s] = "received"
=============================================================================
