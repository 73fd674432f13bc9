---------------------------- MODULE TokenBucket ----------------------------
(***************************************************************************)
(* What the routes behind RateLimitMiddleware                              *)
(* (backend/internal/middleware/rate_limit.go) rely on: one token bucket   *)
(* for each client, that nothing but time fills and nothing but this       *)
(* client's own requests drain.  There is no map, no limiter that comes    *)
(* and goes, and no cleanup.                                               *)
(***************************************************************************)
EXTENDS Naturals

CONSTANTS Client, Exempt, Handler, Cost, Capacity

VARIABLES
  credit,  \* what each client may still spend
  answer   \* what the middleware made of the request of each handler

vars == <<credit, answer>>

Init ==
  /\ credit = [c \in Client |-> Capacity]
  /\ answer = [h \in Handler |-> "none"]

Tick ==
  /\ credit' = [c \in Client |->
                  IF credit[c] < Capacity THEN credit[c] + 1 ELSE Capacity]
  /\ UNCHANGED answer

Answer(h, verdict) ==
  /\ answer[h] = "none"
  /\ answer' = [answer EXCEPT ![h] = verdict]

Pass(h, c) ==
  /\ credit[c] >= Cost
  /\ credit' = [credit EXCEPT ![c] = @ - Cost]
  /\ Answer(h, "passed")

Refuse(h, c) ==
  /\ credit[c] < Cost
  /\ Answer(h, "aborted")
  /\ UNCHANGED credit

PassExempt(h) == Exempt # {} /\ Answer(h, "passed") /\ UNCHANGED credit

Respond(h) ==
  /\ answer' = [answer EXCEPT ![h] = "none"]
  /\ UNCHANGED credit

Next ==
  \/ Tick
  \/ \E h \in Handler : PassExempt(h) \/ Respond(h)
  \/ \E h \in Handler, c \in Client \ Exempt : Pass(h, c) \/ Refuse(h, c)

Spec == Init /\ [][Next]_vars
=============================================================================
