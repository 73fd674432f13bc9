------------------------ MODULE AppLockPromptProofs ------------------------
(***************************************************************************)
(* Proofs about the application lock if handlers run promptly: how long a  *)
(* process may serve on one lease, and that one process serves at a time.  *)
(***************************************************************************)
EXTENDS AppLockProofs

\* Nobody forces, timers fire on time, and a renewal statement times out before
\* the next tick.
PromptSetting == Restricted /\ Prompt /\ OpTimeout <= RenewInterval

\* The clock reading on which the last good lease of p is based.
Base(p) == lease[p] - TTL

\* The reading of p's clock when its current wait ends.
Deadline(p) == due[p] + Skew[p]

\* n attempts, and the sleeps between them.
Budget(n) == n * OpTimeout + (n - 1) * RetryDelay

\* The reading by which the first attempt after the base begins.
FirstTick(p) == Base(p) + AcquireLatency + RenewInterval

StampedInTime(p) ==
  pc[p] \in {"stamped", "written"} =>
    Clock(p) <= Deadline(p) /\ Deadline(p) <= stamp[p] + AcquireLatency

WaitingInTime(p) ==
  pc[p] = "waiting" =>
    Clock(p) <= Deadline(p) /\ Deadline(p) <= Base(p) + AcquireLatency

\* After an attempt that was answered late the tick may be past already.
RunningInTime(p) ==
  pc[p] = "running" => Clock(p) <= FirstTick(p) /\ Deadline(p) <= FirstTick(p)

RenewingInTime(p) ==
  pc[p] = "renewing" =>
    /\ attempt[p] >= 1
    /\ Clock(p) <= Deadline(p)
    /\ Deadline(p) = stamp[p] + OpTimeout
    /\ Deadline(p) <= FirstTick(p) + Budget(attempt[p])
    /\ ticker[p] + Skew[p] <= stamp[p] + RenewInterval

RetryingInTime(p) ==
  pc[p] = "retrying" =>
    /\ attempt[p] >= 1
    /\ Clock(p) <= Deadline(p)
    /\ Deadline(p) <= FirstTick(p) + Budget(attempt[p]) + RetryDelay
    /\ ticker[p] <= now + RenewInterval

DrainingInTime(p) ==
  pc[p] = "draining" => Clock(p) <= Deadline(p) /\ Deadline(p) <= Base(p) + Span

InTime(p) ==
  /\ StampedInTime(p)
  /\ WaitingInTime(p)
  /\ RunningInTime(p)
  /\ RenewingInTime(p)
  /\ RetryingInTime(p)
  /\ DrainingInTime(p)

PromptInv == \A p \in Process : InTime(p)

-----------------------------------------------------------------------------
(* Arithmetic.                                                             *)

LEMMA Settings ==
  /\ TTL \in Nat /\ TTL >= 1 /\ RenewInterval \in Nat /\ RenewInterval >= 1
  /\ RenewRetries \in Nat /\ RenewRetries >= 1 /\ OpTimeout \in Nat /\ OpTimeout >= 1
  /\ RetryDelay \in Nat /\ ShutdownGrace \in Nat /\ AcquireLatency \in Nat
  /\ MaxSkew \in Nat
BY DurationAssumption, SkewAssumption

LEMMA BudgetNext ==
  ASSUME NEW n \in Nat
  PROVE  /\ Budget(n) \in Int
         /\ Budget(1) = OpTimeout
         /\ Budget(n + 1) = Budget(n) + RetryDelay + OpTimeout
BY Settings DEF Budget

\* More attempts take no less time.
LEMMA BudgetGrows ==
  ASSUME NEW m \in Nat, NEW n \in Nat, m <= n
  PROVE  Budget(m) <= Budget(n)
<1>1. PICK k \in Nat : n = m + k
  BY n - m \in Nat, n = m + (n - m)
<1>2. Budget(n) = Budget(m) + k * OpTimeout + k * RetryDelay
  BY <1>1, Settings DEF Budget
<1>3. k * OpTimeout \in Nat /\ k * RetryDelay \in Nat
  BY Settings
<1>. QED BY <1>2, <1>3, BudgetNext

LEMMA SpanBudget ==
  /\ Span = AcquireLatency + RenewInterval + Budget(RenewRetries) + ShutdownGrace
  /\ Budget(RenewRetries) \in Int /\ Budget(RenewRetries) >= OpTimeout
  /\ Span \in Int
<1>1. Budget(RenewRetries) \in Int /\ Budget(RenewRetries) >= OpTimeout
  BY Settings, BudgetNext, BudgetGrows
<1>2. Span = AcquireLatency + RenewInterval + Budget(RenewRetries) + ShutdownGrace
  <2>1. RenewRetries * OpTimeout \in Int /\ (RenewRetries - 1) * RetryDelay \in Int
    BY Settings
  <2>. QED BY <2>1, Settings DEF Span, Budget
<1>. QED BY <1>1, <1>2, Settings

LEMMA InTimeNumbers ==
  ASSUME TypeOK, NEW p \in Process
  PROVE  /\ now \in Nat /\ Skew[p] \in Nat /\ stamp[p] \in Nat /\ due[p] \in Nat
         /\ ticker[p] \in Nat /\ attempt[p] \in 0..RenewRetries /\ attempt[p] \in Nat
         /\ lease[p] \in Int
         /\ Clock(p) = now + Skew[p] /\ Clock(p) \in Nat
         /\ Deadline(p) = due[p] + Skew[p] /\ Deadline(p) \in Nat
         /\ Base(p) = lease[p] - TTL /\ Base(p) \in Int
         /\ FirstTick(p) = lease[p] - TTL + AcquireLatency + RenewInterval
         /\ FirstTick(p) \in Int
         /\ Budget(attempt[p]) \in Int /\ Budget(attempt[p]) <= Budget(RenewRetries)
<1>1. /\ now \in Nat /\ Skew[p] \in Nat /\ stamp[p] \in Nat /\ due[p] \in Nat
      /\ ticker[p] \in Nat /\ attempt[p] \in 0..RenewRetries /\ lease[p] \in Nat \cup {-1}
  BY SkewAssumption DEF TypeOK, NoLease
<1>2. Budget(attempt[p]) \in Int /\ Budget(attempt[p]) <= Budget(RenewRetries)
  BY <1>1, Settings, BudgetNext, BudgetGrows
<1>. QED BY <1>1, <1>2, Settings DEF Clock, Deadline, Base, FirstTick

-----------------------------------------------------------------------------
(* The steps.                                                              *)

\* What p's own bounds are about changes by a step of p, or the time does.
LEMMA WhoSteps ==
  ASSUME TypeOK, [Next]_vars, NEW p \in Process
  PROVE  \/ Step(p) \/ Crash(p)
         \/ Advance
         \/ /\ now' = now /\ pc'[p] = pc[p] /\ stamp'[p] = stamp[p] /\ due'[p] = due[p]
            /\ attempt'[p] = attempt[p] /\ ticker'[p] = ticker[p] /\ lease'[p] = lease[p]
<1>1. ASSUME NEW q \in Process, Step(q) \/ Crash(q), q # p
      PROVE  /\ now' = now /\ pc'[p] = pc[p] /\ stamp'[p] = stamp[p] /\ due'[p] = due[p]
             /\ attempt'[p] = attempt[p] /\ ticker'[p] = ticker[p] /\ lease'[p] = lease[p]
  BY <1>1 DEF Step, Crash, AcquireSelect, AcquireStamp, AcquireUpsert, AcquireCommit,
    AcquireRefused, AcquireFail, BeginServing, AbandonWait, StartFails, TickerFires,
    RenewAnswered, RenewFails, RetryStart, StopRenewal, Drained, Release, Exit, Forget,
    Attempt, Drain, Goto, TypeOK, renewVars, leaseVars
<1>2. CASE \/ \E q \in Process : Cancel(q)
           \/ UNCHANGED vars
           \/ \E s \in late : LateExecutes(s) \/ LateIsLost(s)
  BY <1>2 DEF Cancel, vars, LateExecutes, LateIsLost, renewVars, leaseVars
<1>. QED BY <1>1, <1>2 DEF Next

\* The time does not pass the end of a wait.
LEMMA AdvanceInTime ==
  ASSUME Prompt, TypeOK, Advance, NEW p \in Process, InTime(p)
  PROVE  InTime(p)'
<1>1. /\ now' = now + 1 /\ pc' = pc /\ stamp' = stamp /\ due' = due /\ attempt' = attempt
      /\ ticker' = ticker /\ lease' = lease
  BY DEF Advance, renewVars, leaseVars
<1>2. Clock(p)' = Clock(p) + 1 /\ Deadline(p)' = Deadline(p) /\ Base(p)' = Base(p)
      /\ FirstTick(p)' = FirstTick(p)
  BY <1>1, InTimeNumbers DEF Clock, Deadline, Base, FirstTick
<1>3. pc[p] \in Timed => Clock(p)' <= Deadline(p)
  BY <1>2, InTimeNumbers DEF Advance
<1>4. StampedInTime(p)' /\ WaitingInTime(p)' /\ DrainingInTime(p)'
  BY <1>1, <1>2, <1>3 DEF InTime, StampedInTime, WaitingInTime, DrainingInTime, Timed, Serving
<1>5. RunningInTime(p)'
  BY <1>1, <1>2, <1>3, InTimeNumbers DEF InTime, RunningInTime, Timed, Serving
<1>6. RenewingInTime(p)'
  BY <1>1, <1>2, <1>3 DEF InTime, RenewingInTime, Timed, Serving, Budget
<1>7. RetryingInTime(p)'
  BY <1>1, <1>2, <1>3, InTimeNumbers, Settings DEF InTime, RetryingInTime, Timed, Serving, Budget
<1>. QED BY <1>4, <1>5, <1>6, <1>7 DEF InTime

\* The renewal stops at the latest after the last attempt.
LEMMA DrainInTime ==
  ASSUME TypeOK, NEW p \in Process, Drain(p), now' = now, lease' = lease,
         Clock(p) <= FirstTick(p) + Budget(RenewRetries)
  PROVE  InTime(p)'
<1>1. pc'[p] = "draining" /\ due'[p] = now + ShutdownGrace
  BY DEF Drain, Goto, TypeOK
<1>2. /\ Clock(p)' = Clock(p) /\ Base(p)' = Base(p)
      /\ Deadline(p)' = Clock(p) + ShutdownGrace
  BY <1>1, InTimeNumbers, Settings DEF Clock, Deadline, Base
<1>3. Clock(p) <= Clock(p) + ShutdownGrace /\ Clock(p) + ShutdownGrace <= Base(p) + Span
  BY InTimeNumbers, SpanBudget, Settings
<1>. QED
  BY <1>1, <1>2, <1>3 DEF InTime, StampedInTime, WaitingInTime, RunningInTime,
    RenewingInTime, RetryingInTime, DrainingInTime

\* An attempt has OpTimeout, from a clock reading that its statement names.
LEMMA AttemptInTime ==
  ASSUME TypeOK, NEW p \in Process, NEW n \in 1..RenewRetries, Attempt(p, n), now' = now,
         lease' = lease, ticker'[p] \in Nat, ticker'[p] <= now + RenewInterval,
         Clock(p) + OpTimeout <= FirstTick(p) + Budget(n)
  PROVE  InTime(p)'
<1>1. /\ pc'[p] = "renewing" /\ due'[p] = now + OpTimeout /\ attempt'[p] = n
      /\ stamp'[p] = Clock(p)
  BY DEF Attempt, Goto, TypeOK
<1>2. /\ Clock(p)' = Clock(p) /\ FirstTick(p)' = FirstTick(p)
      /\ Deadline(p)' = Clock(p) + OpTimeout
  BY <1>1, InTimeNumbers, Settings DEF Clock, Deadline, FirstTick, Base
<1>3. Budget(attempt[p])' = Budget(n)
  BY <1>1 DEF Budget
<1>4. n >= 1 /\ Clock(p) <= Clock(p) + OpTimeout /\ ticker'[p] + Skew[p] <= Clock(p) + RenewInterval
  BY InTimeNumbers, Settings
<1>. QED
  BY <1>1, <1>2, <1>3, <1>4 DEF InTime, StampedInTime, WaitingInTime, RunningInTime,
    RenewingInTime, RetryingInTime, DrainingInTime

\* Every step of a process keeps its bounds.
LEMMA OwnInTime ==
  ASSUME PromptSetting, TypeInv, StampPast, NeverForced, NEW p \in Process, InTime(p),
         Step(p) \/ Crash(p)
  PROVE  InTime(p)'
<1>. USE InTimeNumbers, Settings
<1>. TypeOK
  BY DEF TypeInv
<1>. DEFINE Waits == {"stamped", "written", "waiting"} \cup Serving
<1>1. ASSUME pc'[p] \notin Waits
      PROVE  InTime(p)'
  BY <1>1 DEF InTime, StampedInTime, WaitingInTime, RunningInTime, RenewingInTime,
    RetryingInTime, DrainingInTime, Serving
<1>2. ASSUME \/ AcquireSelect(p) \/ AcquireRefused(p) \/ AcquireFail(p)
             \/ AbandonWait(p) \/ StartFails(p) \/ Drained(p) \/ Release(p) \/ Crash(p)
      PROVE  InTime(p)'
  BY <1>1, <1>2 DEF AcquireSelect, AcquireRefused, AcquireFail, AbandonWait, StartFails,
    Drained, Release, Crash, Exit, Goto, Serving, TypeOK
<1>3. CASE AcquireStamp(p)
  <2>1. /\ pc'[p] = "stamped" /\ stamp'[p] = Clock(p) /\ due'[p] = now + AcquireLatency
        /\ now' = now
    BY <1>3 DEF AcquireStamp, Goto, TypeOK
  <2>2. Clock(p)' = Clock(p) /\ Deadline(p)' = Clock(p) + AcquireLatency
    BY <2>1 DEF Clock, Deadline
  <2>. QED
    BY <2>1, <2>2 DEF InTime, StampedInTime, WaitingInTime, RunningInTime, RenewingInTime,
      RetryingInTime, DrainingInTime
<1>4. CASE AcquireUpsert(p)
  <2>1. /\ pc[p] = "stamped" /\ pc'[p] \in {"written", "refused"} /\ stamp'[p] = stamp[p]
        /\ due'[p] = due[p] /\ now' = now
    BY <1>4 DEF AcquireUpsert, Goto, TypeOK
  <2>2. Clock(p)' = Clock(p) /\ Deadline(p)' = Deadline(p)
    BY <2>1 DEF Clock, Deadline
  <2>. QED
    BY <2>1, <2>2 DEF InTime, StampedInTime, WaitingInTime, RunningInTime, RenewingInTime,
      RetryingInTime, DrainingInTime
<1>5. CASE AcquireCommit(p)
  <2>1. WaitFor(p) = 0
    BY DEF WaitFor, NeverForced
  <2>2. due'[p] = due[p]
    <3>1. due' = [due EXCEPT ![p] = Later(due[p], WaitFor(p) - Skew[p])]
      BY <1>5 DEF AcquireCommit, TypeOK
    <3>2. Later(due[p], WaitFor(p) - Skew[p]) = due[p]
      BY <2>1 DEF Later
    <3>. QED BY <3>1, <3>2 DEF TypeOK
  <2>3. /\ pc[p] = "written" /\ pc'[p] = "waiting" /\ lease'[p] = stamp[p] + TTL
        /\ now' = now
    BY <1>5 DEF AcquireCommit, Goto, TypeOK
  <2>4. Clock(p)' = Clock(p) /\ Deadline(p)' = Deadline(p) /\ Base(p)' = stamp[p]
    BY <2>2, <2>3 DEF Clock, Deadline, Base
  <2>. QED
    BY <2>3, <2>4 DEF InTime, StampedInTime, WaitingInTime, RunningInTime, RenewingInTime,
      RetryingInTime, DrainingInTime
<1>6. CASE BeginServing(p)
  <2>1. /\ pc[p] = "waiting" /\ pc'[p] = "running" /\ due'[p] = now + RenewInterval
        /\ lease'[p] = lease[p] /\ now' = now
    BY <1>6 DEF BeginServing, Goto, leaseVars, TypeOK
  <2>2. /\ Clock(p)' = Clock(p) /\ Deadline(p)' = Clock(p) + RenewInterval
        /\ FirstTick(p)' = FirstTick(p)
    BY <2>1 DEF Clock, Deadline, FirstTick, Base
  <2>3. Clock(p) <= Base(p) + AcquireLatency
    BY <2>1 DEF InTime, WaitingInTime
  <2>4. Clock(p) <= FirstTick(p) /\ Clock(p) + RenewInterval <= FirstTick(p)
    BY <2>3
  <2>. QED
    BY <2>1, <2>2, <2>4 DEF InTime, StampedInTime, WaitingInTime, RunningInTime,
      RenewingInTime, RetryingInTime, DrainingInTime
<1>7. CASE TickerFires(p)
  <2>1. Clock(p) <= FirstTick(p)
    BY <1>7 DEF TickerFires, InTime, RunningInTime
  <2>2. ticker'[p] \in Nat /\ ticker'[p] <= now + RenewInterval
    BY <1>7 DEF TickerFires, TypeOK
  <2>3. Clock(p) + OpTimeout <= FirstTick(p) + Budget(1)
    BY <2>1, BudgetNext
  <2>. QED BY <1>7, <2>2, <2>3, AttemptInTime DEF TickerFires, leaseVars
<1>8. CASE RetryStart(p)
  <2>1. /\ pc[p] = "retrying" /\ attempt[p] + 1 \in 1..RenewRetries
        /\ ticker'[p] = ticker[p] /\ now' = now /\ lease' = lease
    BY <1>8 DEF RetryStart, TypeInv, RetriesLeft, leaseVars
  <2>2. Clock(p) <= FirstTick(p) + Budget(attempt[p]) + RetryDelay
    BY <2>1 DEF InTime, RetryingInTime
  <2>3. Clock(p) + OpTimeout <= FirstTick(p) + Budget(attempt[p] + 1)
    BY <2>2, BudgetNext
  <2>4. ticker[p] <= now + RenewInterval
    BY <2>1 DEF InTime, RetryingInTime
  <2>. QED BY <1>8, <2>1, <2>3, <2>4, AttemptInTime DEF RetryStart
<1>9. CASE RenewAnswered(p)
  <2>1. /\ Clock(p) <= Deadline(p) /\ Deadline(p) = stamp[p] + OpTimeout
        /\ Deadline(p) <= FirstTick(p) + Budget(attempt[p])
        /\ ticker[p] + Skew[p] <= stamp[p] + RenewInterval
    BY <1>9 DEF RenewAnswered, InTime, RenewingInTime
  <2>2. CASE Renewable(p, stamp[p])
    <3>1. /\ pc'[p] = "running" /\ lease'[p] = stamp[p] + TTL /\ due'[p] = ticker[p]
          /\ now' = now
      BY <1>9, <2>2 DEF RenewAnswered, Goto, TypeOK
    <3>2. /\ Clock(p)' = Clock(p) /\ Deadline(p)' = ticker[p] + Skew[p]
          /\ FirstTick(p)' = stamp[p] + AcquireLatency + RenewInterval
      BY <3>1 DEF Clock, Deadline, FirstTick, Base
    <3>3. /\ Clock(p) <= stamp[p] + AcquireLatency + RenewInterval
          /\ ticker[p] + Skew[p] <= stamp[p] + AcquireLatency + RenewInterval
      BY <2>1 DEF PromptSetting
    <3>. QED
      BY <3>1, <3>2, <3>3 DEF InTime, StampedInTime, WaitingInTime, RunningInTime,
        RenewingInTime, RetryingInTime, DrainingInTime
  <2>3. CASE ~Renewable(p, stamp[p])
    <3>1. Clock(p) <= FirstTick(p) + Budget(RenewRetries)
      BY <2>1, SpanBudget
    <3>. QED BY <1>9, <2>3, <3>1, DrainInTime DEF RenewAnswered
  <2>. QED BY <2>2, <2>3
<1>10. CASE RenewFails(p)
  <2>1. /\ attempt[p] >= 1 /\ Clock(p) <= Deadline(p)
        /\ Deadline(p) <= FirstTick(p) + Budget(attempt[p])
        /\ ticker[p] + Skew[p] <= stamp[p] + RenewInterval
    BY <1>10 DEF RenewFails, InTime, RenewingInTime
  <2>2. CASE attempt[p] < RenewRetries
    <3>1. /\ pc'[p] = "retrying" /\ due'[p] = now + RetryDelay /\ now' = now
          /\ lease'[p] = lease[p] /\ attempt'[p] = attempt[p] /\ ticker'[p] = ticker[p]
      BY <1>10, <2>2 DEF RenewFails, Goto, TypeOK, renewVars, leaseVars
    <3>2. /\ Clock(p)' = Clock(p) /\ Deadline(p)' = Clock(p) + RetryDelay
          /\ FirstTick(p)' = FirstTick(p) /\ Budget(attempt[p])' = Budget(attempt[p])
      BY <3>1 DEF Clock, Deadline, FirstTick, Base, Budget
    <3>3. /\ Clock(p) + RetryDelay <= FirstTick(p) + Budget(attempt[p]) + RetryDelay
          /\ ticker[p] <= now + RenewInterval
      BY <2>1 DEF StampPast
    <3>. QED
      BY <2>1, <3>1, <3>2, <3>3 DEF InTime, StampedInTime, WaitingInTime, RunningInTime,
        RenewingInTime, RetryingInTime, DrainingInTime
  <2>3. CASE ~(attempt[p] < RenewRetries)
    <3>1. Clock(p) <= FirstTick(p) + Budget(RenewRetries)
      BY <2>1, SpanBudget
    <3>. QED BY <1>10, <2>3, <3>1, DrainInTime DEF RenewFails, leaseVars
  <2>. QED BY <2>2, <2>3
<1>11. CASE StopRenewal(p)
  <2>1. CASE pc[p] = "running"
    <3>1. Clock(p) <= FirstTick(p) + Budget(RenewRetries)
      BY <2>1, SpanBudget DEF InTime, RunningInTime
    <3>. QED BY <1>11, <3>1, DrainInTime DEF StopRenewal, leaseVars
  <2>2. CASE pc[p] = "retrying"
    <3>1. Clock(p) <= FirstTick(p) + Budget(attempt[p]) + RetryDelay
      BY <2>2 DEF InTime, RetryingInTime
    <3>2. Budget(attempt[p]) + RetryDelay + OpTimeout <= Budget(RenewRetries)
      <4>1. attempt[p] + 1 <= RenewRetries
        BY <2>2 DEF TypeInv, RetriesLeft
      <4>2. Budget(attempt[p] + 1) <= Budget(RenewRetries)
        BY <4>1, BudgetGrows
      <4>. QED BY <4>2, BudgetNext
    <3>3. Clock(p) <= FirstTick(p) + Budget(RenewRetries)
      BY <3>1, <3>2, SpanBudget
    <3>. QED BY <1>11, <3>3, DrainInTime DEF StopRenewal, leaseVars
  <2>. QED BY <1>11, <2>1, <2>2 DEF StopRenewal
<1>. QED
  BY <1>2, <1>3, <1>4, <1>5, <1>6, <1>7, <1>8, <1>9, <1>10, <1>11 DEF Step

LEMMA PromptCorrect ==
  PromptSetting /\ Spec => [](PromptSetting /\ TypeInv /\ LeaseInv /\ PromptInv)
<1>1. Init => PromptInv
  BY DEF Init, PromptInv, InTime, StampedInTime, WaitingInTime, RunningInTime,
    RenewingInTime, RetryingInTime, DrainingInTime
<1>2. PromptSetting /\ TypeInv /\ LeaseInv /\ PromptInv /\ [Next]_vars => PromptInv'
  <2>. SUFFICES ASSUME PromptSetting, TypeInv, LeaseInv, PromptInv, [Next]_vars,
                       NEW p \in Process
                PROVE  InTime(p)'
    BY DEF PromptInv
  <2>1. TypeOK /\ StampPast /\ NeverForced /\ InTime(p) /\ Prompt
    BY DEF TypeInv, LeaseInv, PromptInv, PromptSetting
  <2>2. CASE Step(p) \/ Crash(p)
    BY <2>1, <2>2, OwnInTime
  <2>3. CASE Advance
    BY <2>1, <2>3, AdvanceInTime
  <2>4. CASE /\ now' = now /\ pc'[p] = pc[p] /\ stamp'[p] = stamp[p] /\ due'[p] = due[p]
             /\ attempt'[p] = attempt[p] /\ ticker'[p] = ticker[p] /\ lease'[p] = lease[p]
    BY <2>1, <2>4 DEF InTime, StampedInTime, WaitingInTime, RunningInTime, RenewingInTime,
      RetryingInTime, DrainingInTime, Clock, Deadline, FirstTick, Base, Budget
  <2>. QED BY <2>1, <2>2, <2>3, <2>4, WhoSteps
<1>3. PromptSetting => PromptSetting' /\ Restricted
  BY DEF PromptSetting, Restricted, NoForce, NoLate
<1>. QED BY <1>1, <1>2, <1>3, LeaseCorrect, PTL DEF Spec

\* Whoever serves is within Span of the clock reading its lease is based on.
LEMMA ServesInTime ==
  ASSUME TypeInv, PromptInv, NEW p \in Process, pc[p] \in Serving
  PROVE  Clock(p) <= lease[p] - TTL + Span
<1>. USE InTimeNumbers, Settings, SpanBudget
<1>. TypeOK /\ InTime(p)
  BY DEF TypeInv, PromptInv
<1>1. CASE pc[p] = "running"
  BY <1>1 DEF InTime, RunningInTime
<1>2. CASE pc[p] = "renewing"
  BY <1>2 DEF InTime, RenewingInTime
<1>3. CASE pc[p] = "retrying"
  <2>1. attempt[p] + 1 <= RenewRetries
    BY <1>3 DEF TypeInv, RetriesLeft
  <2>2. Budget(attempt[p] + 1) <= Budget(RenewRetries)
    BY <2>1, BudgetGrows
  <2>3. Clock(p) <= FirstTick(p) + Budget(attempt[p]) + RetryDelay
    BY <1>3 DEF InTime, RetryingInTime
  <2>. QED BY <2>2, <2>3, BudgetNext
<1>4. CASE pc[p] = "draining"
  BY <1>4 DEF InTime, DrainingInTime
<1>. QED BY <1>1, <1>2, <1>3, <1>4 DEF Serving

\* A prompt process serves no longer than Span on one good lease.
THEOREM ServingBoundTheorem == PromptSetting /\ Spec => []ServingBound
<1>1. TypeInv /\ PromptInv => ServingBound
  BY ServesInTime DEF ServingBound
<1>. QED BY <1>1, PromptCorrect, PTL

-----------------------------------------------------------------------------
(* What the settings have to be for one process to serve at a time.  The   *)
(* values that the program ships do not satisfy this.                      *)

LongEnough == TTL >= Span + MaxSkew

\* Then a process that serves has a lease that is over by nobody's clock.
LEMMA ServesLive ==
  ASSUME LongEnough, TypeInv, LeaseInv, PromptInv, NEW p \in Process, pc[p] \in Serving
  PROVE  Live(p) /\ row.owner = p /\ row.expires >= lease[p]
<1>. TypeOK
  BY DEF TypeInv
<1>1. Clock(p) <= lease[p] - TTL + Span
  BY ServesInTime
<1>2. Live(p)
  BY <1>1, InTimeNumbers, Settings, SpanBudget DEF LongEnough, Live
<1>. QED BY <1>2 DEF LeaseInv, LiveBacked

\* One process at a time runs the server and the scheduled jobs.
THEOREM OneServerTheorem == LongEnough /\ PromptSetting /\ Spec => []OneServer
<1>1. LongEnough /\ TypeInv /\ LeaseInv /\ PromptInv => OneServer
  BY ServesLive DEF OneServer
<1>2. LongEnough => LongEnough'
  BY DEF LongEnough, Span
<1>. QED BY <1>1, <1>2, PromptCorrect, PTL

\* A prompt process is never told that it has lost the lock.
THEOREM NeverLostTheorem == LongEnough /\ PromptSetting /\ Spec => NeverLost
<1>1. LongEnough /\ TypeInv /\ LeaseInv /\ PromptInv =>
        [\A p \in Process : RenewAnswered(p) => pc'[p] = "running"]_vars
  <2>. SUFFICES ASSUME LongEnough, TypeInv, LeaseInv, PromptInv, NEW p \in Process,
                       RenewAnswered(p)
                PROVE  pc'[p] = "running"
    OBVIOUS
  <2>1. TypeOK /\ pc[p] = "renewing" /\ InTime(p)
    BY DEF TypeInv, PromptInv, RenewAnswered
  <2>2. row.owner = p /\ row.expires >= lease[p]
    BY <2>1, ServesLive DEF Serving
  <2>3. /\ Deadline(p) = stamp[p] + OpTimeout
        /\ Deadline(p) <= FirstTick(p) + Budget(attempt[p])
    BY <2>1 DEF InTime, RenewingInTime
  <2>4. stamp[p] < lease[p]
    BY <2>1, <2>3, InTimeNumbers, Settings, SpanBudget DEF LongEnough
  <2>5. Renewable(p, stamp[p])
    BY <2>1, <2>2, <2>4, InTimeNumbers DEF Renewable, TypeOK
  <2>. QED BY <2>1, <2>5 DEF RenewAnswered, Goto, TypeOK
<1>2. LongEnough => LongEnough'
  BY DEF LongEnough, Span
<1>. QED BY <1>1, <1>2, PromptCorrect, PTL DEF NeverLost, Spec
=============================================================================
