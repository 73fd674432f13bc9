--------------------------- MODULE AppLockProofs ---------------------------
(***************************************************************************)
(* Proofs about the application lock, for every number of processes, every *)
(* duration, every clock skew and both dialects.                           *)
(***************************************************************************)
EXTENDS AppLock, TLAPS

-----------------------------------------------------------------------------
(* Types.  An attempt counter in range needs to know that only an attempt  *)
(* that was not the last one is retried.                                   *)

RetriesLeft == \A p \in Process : pc[p] = "retrying" => attempt[p] < RenewRetries

TypeInv == TypeOK /\ RetriesLeft

\* A clock reading, an expiry and a row are what the variables may hold.
LEMMA ClockType ==
  ASSUME NEW p \in Process, TypeOK
  PROVE  Clock(p) \in Nat /\ Clock(p) = now + Skew[p]
BY SkewAssumption DEF TypeOK, Clock

LEMMA LockValueType ==
  ASSUME NEW p \in Process, NEW t \in Nat
  PROVE  /\ LockValue(p, t) \in [owner : Process \cup {NoProcess}, expires : Nat]
         /\ LockValue(p, t).owner = p
         /\ LockValue(p, t).expires = t + TTL
BY DurationAssumption DEF LockValue

\* Whatever becomes of a statement, the row and the set of late statements
\* keep their types.
LEMMA UnansweredType ==
  ASSUME NEW p \in Process, TypeOK, Unanswered(Statement(p))
  PROVE  /\ row' \in [owner : Process \cup {NoProcess}, expires : Nat]
         /\ late' \subseteq [proc : Process, op : {"renew", "release"}, at : Nat]
<1> DEFINE s == Statement(p)
<1>1. s \in [proc : Process, op : {"renew", "release"}, at : Nat]
  BY DEF Statement, TypeOK
<1>2. Execute(s) => row' \in [owner : Process \cup {NoProcess}, expires : Nat]
  BY <1>1, LockValueType DEF Execute, TypeOK, NoRow
<1> QED
  BY <1>1, <1>2 DEF Unanswered, TypeOK

LEMMA TypeInit == Init => TypeInv
BY DurationAssumption DEF Init, TypeInv, TypeOK, RetriesLeft, NoRow, NoLease,
  State, Acquiring, Serving

\* The assignments made by Exit, Forget, Drain and Goto are well typed.
LEMMA ExitType ==
  ASSUME NEW p \in Process, TypeOK, Exit(p)
  PROVE  /\ pc' \in [Process -> State]
         /\ force' \in [Process -> BOOLEAN]
         /\ prev' \in [Process -> [owner : Process \cup {NoProcess}, expires : Nat]]
         /\ stamp' \in [Process -> Nat]
         /\ attempt' \in [Process -> 0..RenewRetries]
         /\ due' \in [Process -> Nat]
         /\ ticker' \in [Process -> Nat]
         /\ lease' \in [Process -> Nat \cup {NoLease}]
         /\ waitUntil' \in [Process -> Nat]
BY DurationAssumption DEF TypeOK, Exit, Goto, NoRow, NoLease, State

LEMMA TypeStep == TypeInv /\ [Next]_vars => TypeInv'
<1> SUFFICES ASSUME TypeInv, [Next]_vars
             PROVE  TypeInv'
  OBVIOUS
<1> USE DEF TypeInv
<1>1. CASE Advance
  BY <1>1 DEF Advance, TypeOK, RetriesLeft, dbVars, acquireVars, renewVars, leaseVars
<1>2. ASSUME NEW p \in Process, AcquireSelect(p)
      PROVE  TypeInv'
  BY <1>2, SettingAssumption DEF AcquireSelect, Goto, State, Acquiring, TypeOK,
    RetriesLeft, renewVars, leaseVars
<1>3. ASSUME NEW p \in Process, AcquireStamp(p)
      PROVE  TypeInv'
  BY <1>3, ClockType, DurationAssumption DEF AcquireStamp, Goto, State, Acquiring,
    TypeOK, RetriesLeft, dbVars, acquireVars, renewVars, leaseVars
<1>4. ASSUME NEW p \in Process, AcquireUpsert(p)
      PROVE  TypeInv'
  BY <1>4 DEF AcquireUpsert, Goto, State, Acquiring, TypeOK, RetriesLeft,
    acquireVars, renewVars, leaseVars
<1>5. ASSUME NEW p \in Process, AcquireCommit(p)
      PROVE  TypeInv'
  <2>1. WaitFor(p) \in Nat
    BY DEF WaitFor, TypeOK
  <2>2. Later(due[p], WaitFor(p) - Skew[p]) \in Nat
    BY <2>1, SkewAssumption DEF Later, TypeOK
  <2>3. row' \in [owner : Process \cup {NoProcess}, expires : Nat]
    BY <1>5, LockValueType DEF AcquireCommit, TypeOK
  <2> QED
    BY <1>5, <2>1, <2>2, <2>3, DurationAssumption DEF AcquireCommit, Goto, State,
      TypeOK, RetriesLeft, acquireVars, renewVars
<1>6. ASSUME NEW p \in Process, AcquireRefused(p)
      PROVE  TypeInv'
  BY <1>6, ExitType DEF AcquireRefused, Exit, Goto, TypeOK, RetriesLeft
<1>7. ASSUME NEW p \in Process, AcquireFail(p)
      PROVE  TypeInv'
  <2>1. row' \in [owner : Process \cup {NoProcess}, expires : Nat]
    BY <1>7, LockValueType DEF AcquireFail, TypeOK
  <2> QED
    BY <1>7, <2>1, ExitType DEF AcquireFail, Unlock, Exit, Goto, TypeOK, RetriesLeft
<1>8. ASSUME NEW p \in Process, BeginServing(p)
      PROVE  TypeInv'
  BY <1>8, DurationAssumption DEF BeginServing, Goto, State, Serving, TypeOK, NoRow,
    RetriesLeft, dbVars, leaseVars
<1>9. ASSUME NEW p \in Process, AbandonWait(p)
      PROVE  TypeInv'
  BY <1>9, ExitType DEF AbandonWait, Exit, Goto, TypeOK, RetriesLeft, dbVars
<1>10. ASSUME NEW p \in Process, StartFails(p)
       PROVE  TypeInv'
  BY <1>10 DEF StartFails, Forget, Goto, State, TypeOK, RetriesLeft, dbVars,
    acquireVars, renewVars
<1>11. ASSUME NEW p \in Process, TickerFires(p)
       PROVE  TypeInv'
  <2>1. ticker' \in [Process -> Nat]
    BY <1>11, DurationAssumption DEF TickerFires, TypeOK
  <2> QED
    BY <1>11, <2>1, ClockType, DurationAssumption DEF TickerFires, Attempt, Goto, State,
      Serving, TypeOK, RetriesLeft, dbVars, acquireVars, leaseVars
<1>12. ASSUME NEW p \in Process, RenewAnswered(p)
       PROVE  TypeInv'
  <2>1. row' \in [owner : Process \cup {NoProcess}, expires : Nat]
    BY <1>12, LockValueType DEF RenewAnswered, Execute, Statement, TypeOK, NoRow
  <2> QED
    BY <1>12, <2>1, DurationAssumption DEF RenewAnswered, Drain, Goto, State, Serving,
      TypeOK, RetriesLeft, acquireVars, renewVars
<1>13. ASSUME NEW p \in Process, RenewFails(p)
       PROVE  TypeInv'
  <2>1. /\ row' \in [owner : Process \cup {NoProcess}, expires : Nat]
        /\ late' \subseteq [proc : Process, op : {"renew", "release"}, at : Nat]
    BY <1>13, UnansweredType DEF RenewFails
  <2>2. CASE attempt[p] < RenewRetries
    BY <1>13, <2>1, <2>2, DurationAssumption DEF RenewFails, Goto, State, Serving,
      TypeOK, RetriesLeft, acquireVars, renewVars, leaseVars
  <2>3. CASE ~(attempt[p] < RenewRetries)
    <3>1. Drain(p)
      BY <1>13, <2>3 DEF RenewFails
    <3>2. TypeOK'
      BY <1>13, <2>1, <3>1, DurationAssumption DEF RenewFails, Drain, Goto, State,
        Serving, TypeOK, acquireVars, renewVars, leaseVars
    <3>3. RetriesLeft'
      BY <1>13, <3>1 DEF RenewFails, Drain, Goto, RetriesLeft, TypeOK, renewVars
    <3> QED
      BY <3>2, <3>3
  <2> QED
    BY <2>2, <2>3
<1>14. ASSUME NEW p \in Process, RetryStart(p)
       PROVE  TypeInv'
  BY <1>14, ClockType, DurationAssumption DEF RetryStart, Attempt, Goto, State,
    Serving, TypeOK, RetriesLeft, dbVars, acquireVars, leaseVars
<1>15. ASSUME NEW p \in Process, StopRenewal(p)
       PROVE  TypeInv'
  BY <1>15, DurationAssumption DEF StopRenewal, Drain, Goto, State, Serving, TypeOK,
    RetriesLeft, dbVars, acquireVars, renewVars, leaseVars
<1>16. ASSUME NEW p \in Process, Drained(p)
       PROVE  TypeInv'
  BY <1>16 DEF Drained, Forget, Goto, State, TypeOK, RetriesLeft, dbVars,
    acquireVars, renewVars
<1>17. ASSUME NEW p \in Process, Release(p)
       PROVE  TypeInv'
  BY <1>17, UnansweredType, ExitType DEF Release, Exit, Goto, TypeOK, RetriesLeft
<1>18. ASSUME NEW p \in Process, Crash(p)
       PROVE  TypeInv'
  BY <1>18, UnansweredType, ExitType DEF Crash, Exit, Goto, TypeOK, RetriesLeft
<1>19. ASSUME NEW p \in Process, Cancel(p)
       PROVE  TypeInv'
  BY <1>19 DEF Cancel, TypeOK, RetriesLeft, dbVars, acquireVars, renewVars, leaseVars
<1>20. ASSUME NEW s \in late, LateExecutes(s)
       PROVE  TypeInv'
  <2>1. row' \in [owner : Process \cup {NoProcess}, expires : Nat]
    BY <1>20, LockValueType DEF LateExecutes, Execute, TypeOK, NoRow
  <2> QED
    BY <1>20, <2>1 DEF LateExecutes, TypeOK, RetriesLeft, acquireVars, renewVars, leaseVars
<1>21. ASSUME NEW s \in late, LateIsLost(s)
       PROVE  TypeInv'
  BY <1>21 DEF LateIsLost, TypeOK, RetriesLeft, acquireVars, renewVars, leaseVars
<1>22. CASE UNCHANGED vars
  BY <1>22 DEF vars, dbVars, acquireVars, renewVars, leaseVars, TypeOK, RetriesLeft
<1> QED
  BY <1>1, <1>2, <1>3, <1>4, <1>5, <1>6, <1>7, <1>8, <1>9, <1>10, <1>11, <1>12,
     <1>13, <1>14, <1>15, <1>16, <1>17, <1>18, <1>19, <1>20, <1>21, <1>22
  DEF Next, Step

\* Every variable of the lock keeps its type.
THEOREM TypeCorrect == Spec => []TypeOK
<1>1. TypeInv => TypeOK
  BY DEF TypeInv
<1> QED
  BY TypeInit, TypeStep, <1>1, PTL DEF Spec

-----------------------------------------------------------------------------
(* The row.  It changes by a commit, which the upsert has made possible, or *)
(* by a statement of the process that the row names.                        *)

\* A transaction that has executed its upsert holds the write lock, so no
\* other can be between its upsert and its commit, and no renewal executes.
UpsertLocks == \A p \in Process : pc[p] \in {"written", "refused"} => locker = p

\* The stamp was read from the clock earlier.
StampPast == \A p \in Process : stamp[p] <= Clock(p)

\* What an upsert has found in the row is still there.
WrittenOver ==
  \A p \in Process :
    pc[p] = "written" => row = NoRow \/ row.expires < stamp[p] \/ force[p]

RowInv == UpsertLocks /\ StampPast /\ WrittenOver

\* Every change of the row is a commit, or a renewal or release of its owner.
LEMMA RowStep ==
  ASSUME TypeOK, [Next]_vars
  PROVE  \/ row' = row
         \/ \E p \in Process : /\ pc[p] = "written" /\ pc'[p] \in {"waiting", "exited"}
                               /\ row' = LockValue(p, stamp[p])
         \/ \E p \in Process : /\ CanWrite /\ row.owner = p
                               /\ row'.owner \in {p, NoProcess}
<1>1. ASSUME NEW s \in [proc : Process, op : {"renew", "release"}, at : Nat],
             CanWrite, Execute(s)
      PROVE  \/ row' = row
             \/ row.owner = s.proc /\ row'.owner \in {s.proc, NoProcess}
  BY <1>1, LockValueType DEF Execute, Renewable, NoRow
<1>2. ASSUME NEW p \in Process
      PROVE  Statement(p) \in [proc : Process, op : {"renew", "release"}, at : Nat]
  BY DEF Statement, TypeOK
<1>3. ASSUME NEW p \in Process, Unanswered(Statement(p))
      PROVE  \/ row' = row
             \/ \E q \in Process : /\ CanWrite /\ row.owner = q
                                   /\ row'.owner \in {q, NoProcess}
  BY <1>1, <1>2, <1>3 DEF Unanswered
<1>4. CASE Advance \/ UNCHANGED vars
  BY <1>4 DEF Advance, vars, dbVars
<1>5. ASSUME NEW p \in Process,
             \/ AcquireSelect(p) \/ AcquireStamp(p) \/ AcquireUpsert(p)
             \/ AcquireRefused(p) \/ BeginServing(p) \/ AbandonWait(p) \/ StartFails(p)
             \/ TickerFires(p) \/ RetryStart(p) \/ StopRenewal(p) \/ Drained(p)
             \/ Cancel(p)
      PROVE  row' = row
  BY <1>5 DEF AcquireSelect, AcquireStamp, AcquireUpsert, AcquireRefused, BeginServing,
    AbandonWait, StartFails, TickerFires, RetryStart, StopRenewal, Drained, Cancel, dbVars
<1>6. ASSUME NEW p \in Process, AcquireCommit(p) \/ AcquireFail(p)
      PROVE  \/ row' = row
             \/ /\ pc[p] = "written" /\ pc'[p] \in {"waiting", "exited"}
                /\ row' = LockValue(p, stamp[p])
  BY <1>6 DEF AcquireCommit, AcquireFail, Exit, Goto, TypeOK
<1>7. ASSUME NEW p \in Process, RenewAnswered(p)
      PROVE  \/ row' = row
             \/ CanWrite /\ row.owner = p /\ row'.owner \in {p, NoProcess}
  <2>1. Statement(p).proc = p
    BY DEF Statement
  <2>. QED BY <1>1, <1>2, <1>7, <2>1 DEF RenewAnswered
<1>8. ASSUME NEW p \in Process, RenewFails(p) \/ Release(p) \/ Crash(p)
      PROVE  row' = row \/ Unanswered(Statement(p))
  BY <1>8 DEF RenewFails, Release, Crash
<1>9. ASSUME NEW s \in late, LateExecutes(s) \/ LateIsLost(s)
      PROVE  \/ row' = row
             \/ \E q \in Process : /\ CanWrite /\ row.owner = q
                                   /\ row'.owner \in {q, NoProcess}
  <2>1. s \in [proc : Process, op : {"renew", "release"}, at : Nat]
    BY DEF TypeOK
  <2>. QED BY <1>1, <1>9, <2>1 DEF LateExecutes, LateIsLost
<1>. QED
  BY <1>3, <1>4, <1>5, <1>6, <1>7, <1>8, <1>9 DEF Next, Step

\* A process is about to commit only after an upsert that succeeded.
LEMMA WrittenStep ==
  ASSUME TypeOK, [Next]_vars, NEW p \in Process, pc'[p] = "written"
  PROVE  \/ pc[p] = "written" /\ stamp'[p] = stamp[p] /\ force'[p] = force[p]
         \/ AcquireUpsert(p)
<1>1. ASSUME NEW q \in Process, Step(q) \/ Crash(q) \/ Cancel(q), ~AcquireUpsert(p)
      PROVE  pc[p] = "written" /\ stamp'[p] = stamp[p] /\ force'[p] = force[p]
  <2>1. CASE q = p
    BY <1>1, <2>1 DEF Step, Crash, Cancel, AcquireSelect, AcquireStamp, AcquireCommit,
      AcquireRefused, AcquireFail, BeginServing, AbandonWait, StartFails, TickerFires,
      RenewAnswered, RenewFails, RetryStart, StopRenewal, Drained, Release, Exit, Attempt,
      Drain, Goto, TypeOK, acquireVars
  <2>2. CASE q # p
    BY <1>1, <2>2 DEF Step, Crash, Cancel, AcquireSelect, AcquireStamp, AcquireUpsert,
      AcquireCommit, AcquireRefused, AcquireFail, BeginServing, AbandonWait, StartFails,
      TickerFires, RenewAnswered, RenewFails, RetryStart, StopRenewal, Drained, Release,
      Exit, Attempt, Drain, Goto, TypeOK, acquireVars
  <2>. QED BY <2>1, <2>2
<1>2. ASSUME \/ Advance \/ UNCHANGED vars
             \/ \E s \in late : LateExecutes(s) \/ LateIsLost(s)
      PROVE  pc[p] = "written" /\ stamp'[p] = stamp[p] /\ force'[p] = force[p]
  BY <1>2 DEF Advance, vars, LateExecutes, LateIsLost, acquireVars
<1>. QED BY <1>1, <1>2 DEF Next

\* Only the holder of the write lock gives it up, or nobody holds it.
LEMMA LocksStep ==
  ASSUME TypeOK, UpsertLocks, [Next]_vars
  PROVE  UpsertLocks'
<1>1. ASSUME NEW q \in Process, Step(q) \/ Crash(q) \/ Cancel(q)
      PROVE  UpsertLocks'
  <2>. SUFFICES ASSUME NEW p \in Process, pc'[p] \in {"written", "refused"}
                PROVE  locker' = p
    BY DEF UpsertLocks
  <2>1. CASE q = p
    BY <1>1, <2>1 DEF UpsertLocks, Step, Crash, Cancel, AcquireSelect, AcquireStamp,
      AcquireUpsert, AcquireCommit, AcquireRefused, AcquireFail, BeginServing, AbandonWait,
      StartFails, TickerFires, RenewAnswered, RenewFails, RetryStart, StopRenewal, Drained,
      Release, Exit, Attempt, Drain, Goto, TypeOK, dbVars
  <2>2. CASE q # p
    <3>1. pc'[p] = pc[p] /\ locker = p
      BY <1>1, <2>2 DEF UpsertLocks, Step, Crash, Cancel, AcquireSelect, AcquireStamp,
        AcquireUpsert, AcquireCommit, AcquireRefused, AcquireFail, BeginServing,
        AbandonWait, StartFails, TickerFires, RenewAnswered, RenewFails, RetryStart,
        StopRenewal, Drained, Release, Exit, Attempt, Drain, Goto, TypeOK
    <3>2. row # NoRow \/ dialect # "postgres" => ~CanWrite
      BY <3>1, ProcessAssumption DEF CanWrite
    <3>. QED
      BY <1>1, <2>2, <3>1, ProcessAssumption DEF UpsertLocks, Step, Crash, Cancel,
        AcquireSelect, AcquireStamp, AcquireUpsert, AcquireCommit, AcquireRefused,
        AcquireFail, BeginServing, AbandonWait, StartFails, TickerFires, RenewAnswered,
        RenewFails, RetryStart, StopRenewal, Drained, Release, Unlock, SelectLocks, dbVars
  <2>. QED BY <2>1, <2>2
<1>2. CASE \/ Advance \/ UNCHANGED vars
           \/ \E s \in late : LateExecutes(s) \/ LateIsLost(s)
  BY <1>2 DEF Advance, vars, LateExecutes, LateIsLost, dbVars, UpsertLocks
<1>. QED BY <1>1, <1>2 DEF Next

LEMMA StampStep ==
  ASSUME TypeOK, TypeOK', StampPast, [Next]_vars
  PROVE  StampPast'
<1>. SUFFICES ASSUME NEW p \in Process PROVE stamp'[p] <= Clock(p)'
  BY DEF StampPast
<1>1. Clock(p) \in Nat /\ Clock(p)' \in Nat /\ stamp[p] \in Nat /\ stamp[p] <= Clock(p)
  BY SkewAssumption DEF Clock, StampPast, TypeOK
<1>2. now' = now \/ (now' = now + 1 /\ stamp' = stamp)
  BY DEF Next, Step, Crash, Cancel, Advance, vars, LateExecutes, LateIsLost, AcquireSelect,
    AcquireStamp, AcquireUpsert, AcquireCommit, AcquireRefused, AcquireFail, BeginServing,
    AbandonWait, StartFails, TickerFires, RenewAnswered, RenewFails, RetryStart,
    StopRenewal, Drained, Release
<1>3. Clock(p)' = Clock(p) \/ (Clock(p)' = Clock(p) + 1 /\ stamp' = stamp)
  <2>1. now \in Nat /\ Skew[p] \in Nat
    BY SkewAssumption DEF TypeOK
  <2>. QED BY <1>2, <2>1 DEF Clock
<1>4. stamp'[p] \in {stamp[p], 0, Clock(p)}
  BY DEF Next, Step, Crash, Cancel, Advance, vars, LateExecutes, LateIsLost, AcquireSelect,
    AcquireStamp, AcquireUpsert, AcquireCommit, AcquireRefused, AcquireFail, BeginServing,
    AbandonWait, StartFails, TickerFires, RenewAnswered, RenewFails, RetryStart,
    StopRenewal, Drained, Release, Exit, Attempt, TypeOK
<1>. QED BY <1>1, <1>3, <1>4

LEMMA WrittenOverStep ==
  ASSUME TypeOK, RowInv, [Next]_vars
  PROVE  WrittenOver'
<1>. SUFFICES ASSUME NEW p \in Process, pc'[p] = "written"
              PROVE  row' = NoRow \/ row'.expires < stamp'[p] \/ force'[p]
  BY DEF WrittenOver, NoRow
<1>1. CASE AcquireUpsert(p)
  BY <1>1 DEF AcquireUpsert, Goto, TypeOK, acquireVars
<1>2. CASE pc[p] = "written" /\ stamp'[p] = stamp[p] /\ force'[p] = force[p]
  <2>1. locker = p /\ p # NoProcess
    BY <1>2, ProcessAssumption DEF RowInv, UpsertLocks
  <2>2. CanWrite => row.owner = NoProcess
    BY <2>1 DEF CanWrite, NoRow
  <2>3. \A q \in Process : pc[q] = "written" => q = p
    BY <2>1 DEF RowInv, UpsertLocks
  <2>4. row' = row
    BY <1>2, <2>2, <2>3, RowStep, ProcessAssumption
  <2>. QED BY <1>2, <2>4 DEF RowInv, WrittenOver
<1>. QED BY <1>1, <1>2, WrittenStep

LEMMA RowCorrect == Spec => [](TypeInv /\ RowInv)
<1>1. Init => TypeInv /\ RowInv
  BY TypeInit, SkewAssumption DEF Init, RowInv, UpsertLocks, StampPast, WrittenOver, Clock
<1>2. TypeInv /\ RowInv /\ [Next]_vars => (TypeInv /\ RowInv)'
  <2>. SUFFICES ASSUME TypeInv, RowInv, [Next]_vars PROVE TypeInv' /\ RowInv'
    OBVIOUS
  <2>1. TypeOK /\ TypeInv' /\ TypeOK'
    BY TypeStep DEF TypeInv
  <2>. QED BY <2>1, LocksStep, StampStep, WrittenOverStep DEF RowInv
<1>. QED BY <1>1, <1>2, PTL DEF Spec

\* A process that is gone, and whose transaction is over, comes back into the
\* row by none of its statements, however late they execute and although others
\* force the lock.
THEOREM DeadStayDeadTheorem == Spec => DeadStayDead
<1>1. TypeInv /\ [Next]_vars =>
        [\A p \in Process : pc[p] = "exited" /\ row.owner # p => row'.owner # p]_vars
  <2>. SUFFICES ASSUME TypeOK, [Next]_vars, NEW p \in Process, pc[p] = "exited",
                       row.owner # p, row'.owner = p
                PROVE  FALSE
    BY DEF TypeInv
  <2>1. ASSUME NEW q \in Process, pc[q] = "written", row' = LockValue(q, stamp[q])
        PROVE  FALSE
    BY <2>1, LockValueType DEF TypeOK
  <2>. QED BY <2>1, RowStep, ProcessAssumption
<1>. QED BY <1>1, RowCorrect, PTL DEF Spec, DeadStayDead

-----------------------------------------------------------------------------
(* The lease.  Bootstrap never passes force = TRUE; with that, and if no   *)
(* statement executes after its timeout, a live lease is backed by the row.*)

NoForce == ForceArgs = {FALSE}
NoLate == LateStatements = FALSE

\* Nobody who acquires without force takes the row from a process before the
\* expiry that it names is over, even if statements execute late.
THEOREM TakenWhenOverTheorem == NoForce /\ Spec => TakenWhenOver
<1>. DEFINE Unforced == NoForce /\ \A p \in Process : ~force[p]
<1>1. NoForce /\ Init => Unforced
  BY DEF Init
<1>2. TypeInv /\ Unforced /\ [Next]_vars => Unforced'
  <2>. SUFFICES ASSUME TypeOK, Unforced, [Next]_vars, NEW p \in Process PROVE ~force'[p]
    BY DEF TypeInv, NoForce
  <2>1. ASSUME NEW q \in Process, AcquireSelect(q)
        PROVE  ~force'[p]
    <3>1. force' = [force EXCEPT ![q] = FALSE]
      BY <2>1, Zenon DEF AcquireSelect, NoForce
    <3>. QED BY <3>1 DEF TypeOK
  <2>2. ASSUME ~(\E q \in Process : AcquireSelect(q))
        PROVE  force' = force \/ \E q \in Process : force' = [force EXCEPT ![q] = FALSE]
    BY <2>2 DEF Next, Step, Crash, Cancel, Advance, vars, LateExecutes, LateIsLost,
      AcquireStamp, AcquireUpsert, AcquireCommit, AcquireRefused, AcquireFail,
      BeginServing, AbandonWait, StartFails, TickerFires, RenewAnswered, RenewFails,
      RetryStart, StopRenewal, Drained, Release, Exit, acquireVars
  <2>. QED BY <2>1, <2>2 DEF TypeOK
<1>3. TypeInv /\ RowInv /\ Unforced /\ [Next]_vars =>
        [\A p \in Process :
           row.owner \notin {p, NoProcess} /\ row'.owner = p => row.expires < Clock(p)]_vars
  <2>. SUFFICES ASSUME TypeOK, RowInv, Unforced, [Next]_vars, NEW p \in Process,
                       row.owner \notin {p, NoProcess}, row'.owner = p
                PROVE  row.expires < Clock(p)
    BY DEF TypeInv
  <2>1. PICK q \in Process : pc[q] = "written" /\ row' = LockValue(q, stamp[q])
    BY RowStep, ProcessAssumption
  <2>2. q = p
    BY <2>1, LockValueType DEF TypeOK
  <2>3. row.expires < stamp[p]
    BY <2>1, <2>2 DEF RowInv, WrittenOver, NoRow
  <2>. QED BY <2>3, ClockType DEF RowInv, StampPast, TypeOK
<1>. HIDE DEF Unforced
<1>. QED BY <1>1, <1>2, <1>3, RowCorrect, PTL DEF Spec, TakenWhenOver

\* By a clock MaxSkew ahead of its own, the lease p knows of is not over, or
\* ends now: the upsert of another process takes a row whose expiry is earlier.
Live(p) == Clock(p) + MaxSkew <= lease[p]

NeverForced == late = {} /\ \A p \in Process : ~force[p]

\* A lease is counted from a stamp.
LeaseSpan ==
  \A p \in Process :
    /\ lease[p] <= Clock(p) + TTL
    /\ pc[p] = "renewing" => lease[p] <= stamp[p] + TTL

\* Nobody holds a live lease while an upsert that took the row is pending.
WrittenAlone ==
  \A p, q \in Process : pc[p] = "written" => ~Live(q)

LiveBacked ==
  \A p \in Process :
    Live(p) => row.owner = p /\ row.expires >= lease[p]

NoLeaseYet == \A p \in Process : pc[p] \in Acquiring => lease[p] = NoLease

LeaseInv ==
  /\ UpsertLocks
  /\ NeverForced
  /\ NoLeaseYet
  /\ StampPast
  /\ LeaseSpan
  /\ WrittenAlone
  /\ LiveBacked

LEMMA LeaseInit == ASSUME NoForce PROVE Init => LeaseInv
BY SkewAssumption, DurationAssumption, ProcessAssumption DEF Init, LeaseInv, UpsertLocks,
  NeverForced, NoLeaseYet, StampPast, LeaseSpan, WrittenAlone, LiveBacked, Live, Clock,
  NoLease, Acquiring

\* Clocks differ by at most MaxSkew: a lease that is live for p is not over by
\* the clock of any other process.
LEMMA LiveForAll ==
  ASSUME TypeOK, NEW p \in Process, NEW q \in Process, Live(p)
  PROVE  Clock(q) <= lease[p]
BY SkewAssumption, ClockType DEF Live, Clock, TypeOK, NoLease

\* An upsert succeeds, unforced, only if no lease is live.
LEMMA UpsertAlone ==
  ASSUME TypeOK, LeaseInv, NEW p \in Process, AcquireUpsert(p), pc'[p] = "written",
         NEW q \in Process
  PROVE  ~Live(q)
<1> SUFFICES ASSUME Live(q) PROVE FALSE
  OBVIOUS
<1>1. row.owner = q /\ row.expires >= lease[q]
  BY DEF LeaseInv, LiveBacked
<1>2. row # NoRow
  BY <1>1, ProcessAssumption DEF NoRow
<1>3. row.expires < stamp[p]
  BY <1>2 DEF AcquireUpsert, Goto, LeaseInv, NeverForced, TypeOK
<1>4. stamp[p] <= Clock(p)
  BY DEF LeaseInv, StampPast
<1> QED
  BY <1>1, <1>3, <1>4, LiveForAll, ClockType DEF TypeOK, NoLease

\* While an upsert is pending no renewal can take effect.
LEMMA RenewExcludesUpsert ==
  ASSUME TypeOK, LeaseInv, NEW p \in Process, NEW q \in Process, NEW t \in Nat,
         CanWrite, Renewable(q, t), pc[p] = "written"
  PROVE  FALSE
BY ProcessAssumption DEF CanWrite, Renewable, LeaseInv, UpsertLocks, NoRow

\* A renewal that takes effect leaves every other lease where it was: over.
LEMMA RenewedRow ==
  ASSUME TypeOK, LeaseInv, NEW p \in Process, NEW q \in Process,
         pc[p] = "renewing", Execute(Statement(p)), q # p, Live(q)
  PROVE  row' = row
BY DEF Execute, Statement, Renewable, LeaseInv, LiveBacked

\* A step that leaves the row alone, extends no lease, starts no upsert and
\* stamps nothing later than the present keeps the invariant.
LEMMA QuietStep ==
  ASSUME TypeOK, TypeOK', LeaseInv, UpsertLocks', now' >= now, row' = row, late' = late,
         \A q \in Process :
           /\ ~force'[q]
           /\ lease'[q] \in {lease[q], NoLease}
           /\ stamp'[q] \in {stamp[q], Clock(q), 0}
           /\ pc'[q] = "written" => pc[q] = "written"
           /\ pc'[q] \in Acquiring => pc[q] \in Acquiring
           /\ pc'[q] = "renewing" =>
                \/ pc[q] = "renewing" /\ stamp'[q] = stamp[q]
                \/ stamp'[q] = Clock(q)
  PROVE  LeaseInv'
<1>1. \A q \in Process : /\ Clock(q)' \in Nat /\ Clock(q) \in Nat
                         /\ Clock(q)' >= Clock(q)
                         /\ stamp[q] \in Nat /\ lease[q] \in Nat \cup {-1}
  BY SkewAssumption DEF Clock, TypeOK, NoLease
<1>2. \A q \in Process : Live(q)' => Live(q) /\ lease'[q] = lease[q]
  BY <1>1, SkewAssumption DEF Live, NoLease
<1>3. NeverForced' /\ NoLeaseYet'
  BY DEF LeaseInv, NeverForced, NoLeaseYet
<1>4. StampPast'
  BY <1>1 DEF LeaseInv, StampPast
<1>5. LeaseSpan'
  BY <1>1, DurationAssumption DEF LeaseInv, LeaseSpan, NoLease
<1>6. WrittenAlone'
  BY <1>2 DEF LeaseInv, WrittenAlone
<1>7. LiveBacked'
  BY <1>2 DEF LeaseInv, LiveBacked
<1> QED
  BY <1>3, <1>4, <1>5, <1>6, <1>7 DEF LeaseInv

\* So does a step in which a process exits, if the row stays with a live owner.
LEMMA ExitStep ==
  ASSUME TypeOK, TypeOK', LeaseInv, UpsertLocks', NEW p \in Process, Exit(p),
         now' = now, late' = late,
         \A q \in Process \ {p} : Live(q) => row' = row
  PROVE  LeaseInv'
<1>1. /\ lease'[p] = NoLease /\ pc'[p] = "exited" /\ stamp'[p] = 0
      /\ \A q \in Process \ {p} :
           lease'[q] = lease[q] /\ pc'[q] = pc[q] /\ stamp'[q] = stamp[q]
      /\ \A q \in Process : force'[q] => force[q]
  BY DEF Exit, Goto, TypeOK
<1>2. \A q \in Process : Clock(q)' = Clock(q) /\ Clock(q) \in Nat
  BY SkewAssumption DEF Clock, TypeOK
<1>3. \A q \in Process : Live(q)' => Live(q) /\ q # p /\ lease'[q] = lease[q]
  BY <1>1, <1>2, SkewAssumption DEF Live, NoLease
<1>4. NeverForced' /\ NoLeaseYet' /\ StampPast'
  BY <1>1, <1>2 DEF LeaseInv, NeverForced, NoLeaseYet, StampPast, Acquiring
<1>5. LeaseSpan'
  BY <1>1, <1>2, DurationAssumption DEF LeaseInv, LeaseSpan, NoLease
<1>6. WrittenAlone'
  BY <1>1, <1>3 DEF LeaseInv, WrittenAlone
<1>7. LiveBacked'
  BY <1>3 DEF LeaseInv, LiveBacked
<1> QED
  BY <1>4, <1>5, <1>6, <1>7 DEF LeaseInv

LEMMA LeaseStep ==
  ASSUME NoForce, NoLate
  PROVE  TypeInv /\ LeaseInv /\ [Next]_vars => LeaseInv'
<1> SUFFICES ASSUME TypeInv, LeaseInv, [Next]_vars
             PROVE  LeaseInv'
  OBVIOUS
<1>0. TypeOK /\ TypeOK'
  BY TypeStep DEF TypeInv
<1> USE DEF Acquiring
<1>1. CASE Advance
  <2>1. UpsertLocks'
    BY <1>1 DEF Advance, dbVars, LeaseInv, UpsertLocks
  <2> QED
    BY <1>0, <1>1, <2>1, QuietStep DEF Advance, TypeOK, dbVars, acquireVars, leaseVars,
      LeaseInv, NeverForced
<1>2. ASSUME NEW p \in Process, AcquireSelect(p)
      PROVE  LeaseInv'
  <2>1. UpsertLocks'
    BY <1>0, <1>2, ProcessAssumption DEF AcquireSelect, Goto, leaseVars, TypeOK,
      LeaseInv, UpsertLocks
  <2>2. \A q \in Process : ~force'[q]
    <3>1. PICK f \in ForceArgs : force' = [force EXCEPT ![p] = f]
      BY <1>2, Zenon DEF AcquireSelect
    <3>2. f = FALSE
      BY <3>1, Zenon DEF NoForce
    <3>3. force' = [force EXCEPT ![p] = FALSE]
      BY <3>1, <3>2
    <3> QED
      BY <3>3 DEF TypeOK, LeaseInv, NeverForced
  <2>3. /\ UNCHANGED <<now, row, late, stamp, lease>>
        /\ pc' = [pc EXCEPT ![p] = "selected"] /\ pc[p] = "boot"
    BY <1>2 DEF AcquireSelect, Goto, leaseVars
  <2> QED
    BY <1>0, <2>1, <2>2, <2>3, QuietStep DEF TypeOK
<1>3. ASSUME NEW p \in Process, AcquireStamp(p)
      PROVE  LeaseInv'
  <2>1. UpsertLocks'
    BY <1>0, <1>3, ProcessAssumption DEF AcquireStamp, Goto, dbVars, acquireVars, leaseVars, TypeOK,
      LeaseInv, UpsertLocks
  <2> QED
    BY <1>0, <1>3, <2>1, QuietStep DEF AcquireStamp, Goto, dbVars, acquireVars, leaseVars, TypeOK,
      LeaseInv, NeverForced
<1>4. ASSUME NEW p \in Process, AcquireRefused(p)
      PROVE  LeaseInv'
  <2>1. UpsertLocks'
    BY <1>0, <1>4, ProcessAssumption DEF AcquireRefused, Exit, Goto, TypeOK,
      LeaseInv, UpsertLocks
  <2> QED
    BY <1>0, <1>4, <2>1, QuietStep DEF AcquireRefused, Exit, Goto, TypeOK,
      LeaseInv, NeverForced
<1>5. ASSUME NEW p \in Process, BeginServing(p)
      PROVE  LeaseInv'
  <2>1. UpsertLocks'
    BY <1>0, <1>5, ProcessAssumption DEF BeginServing, Goto, dbVars, leaseVars, TypeOK,
      LeaseInv, UpsertLocks
  <2> QED
    BY <1>0, <1>5, <2>1, QuietStep DEF BeginServing, Goto, dbVars, leaseVars, TypeOK,
      LeaseInv, NeverForced
<1>6. ASSUME NEW p \in Process, AbandonWait(p)
      PROVE  LeaseInv'
  <2>1. UpsertLocks'
    BY <1>0, <1>6, ProcessAssumption DEF AbandonWait, Exit, Goto, dbVars, TypeOK,
      LeaseInv, UpsertLocks
  <2> QED
    BY <1>0, <1>6, <2>1, QuietStep DEF AbandonWait, Exit, Goto, dbVars, TypeOK,
      LeaseInv, NeverForced
<1>7. ASSUME NEW p \in Process, StartFails(p)
      PROVE  LeaseInv'
  <2>1. UpsertLocks'
    BY <1>0, <1>7, ProcessAssumption DEF StartFails, Forget, Goto, dbVars, acquireVars, TypeOK,
      LeaseInv, UpsertLocks
  <2> QED
    BY <1>0, <1>7, <2>1, QuietStep DEF StartFails, Forget, Goto, dbVars, acquireVars, TypeOK,
      LeaseInv, NeverForced
<1>8. ASSUME NEW p \in Process, TickerFires(p)
      PROVE  LeaseInv'
  <2>1. UpsertLocks'
    BY <1>0, <1>8, ProcessAssumption DEF TickerFires, Attempt, Goto, dbVars, acquireVars, leaseVars, TypeOK,
      LeaseInv, UpsertLocks
  <2> QED
    BY <1>0, <1>8, <2>1, QuietStep DEF TickerFires, Attempt, Goto, dbVars, acquireVars, leaseVars, TypeOK,
      LeaseInv, NeverForced
<1>9. ASSUME NEW p \in Process, RetryStart(p)
      PROVE  LeaseInv'
  <2>1. UpsertLocks'
    BY <1>0, <1>9, ProcessAssumption DEF RetryStart, Attempt, Goto, dbVars, acquireVars, leaseVars, TypeOK,
      LeaseInv, UpsertLocks
  <2> QED
    BY <1>0, <1>9, <2>1, QuietStep DEF RetryStart, Attempt, Goto, dbVars, acquireVars, leaseVars, TypeOK,
      LeaseInv, NeverForced
<1>10. ASSUME NEW p \in Process, StopRenewal(p)
       PROVE  LeaseInv'
  <2>1. UpsertLocks'
    BY <1>0, <1>10, ProcessAssumption DEF StopRenewal, Drain, Goto, dbVars, acquireVars, leaseVars, TypeOK,
      LeaseInv, UpsertLocks
  <2> QED
    BY <1>0, <1>10, <2>1, QuietStep DEF StopRenewal, Drain, Goto, dbVars, acquireVars, leaseVars, TypeOK,
      LeaseInv, NeverForced
<1>11. ASSUME NEW p \in Process, Drained(p)
       PROVE  LeaseInv'
  <2>1. UpsertLocks'
    BY <1>0, <1>11, ProcessAssumption DEF Drained, Forget, Goto, dbVars, acquireVars, TypeOK,
      LeaseInv, UpsertLocks
  <2> QED
    BY <1>0, <1>11, <2>1, QuietStep DEF Drained, Forget, Goto, dbVars, acquireVars, TypeOK,
      LeaseInv, NeverForced
<1>12. ASSUME NEW p \in Process, Cancel(p)
       PROVE  LeaseInv'
  <2>1. UpsertLocks'
    BY <1>0, <1>12, ProcessAssumption DEF Cancel, dbVars, acquireVars, leaseVars, TypeOK,
      LeaseInv, UpsertLocks
  <2> QED
    BY <1>0, <1>12, <2>1, QuietStep DEF Cancel, dbVars, acquireVars, leaseVars, TypeOK,
      LeaseInv, NeverForced
<1>13. ASSUME NEW p \in Process, AcquireUpsert(p)
       PROVE  LeaseInv'
  <2>1. WrittenAlone'
    BY <1>0, <1>13, UpsertAlone DEF AcquireUpsert, Goto, LeaseInv, WrittenAlone, Live,
      Clock, TypeOK, leaseVars
  <2> QED
    BY <1>0, <1>13, <2>1, ProcessAssumption DEF AcquireUpsert, Goto, Acquiring, TypeOK,
      acquireVars, leaseVars, LeaseInv, UpsertLocks, NeverForced, NoLeaseYet, StampPast,
      LeaseSpan, LiveBacked, Live, Clock
<1>14. ASSUME NEW p \in Process, AcquireCommit(p)
       PROVE  LeaseInv'
  <2>1. \A q \in Process : ~Live(q)
    BY <1>14 DEF AcquireCommit, LeaseInv, WrittenAlone
  <2>2. \A q \in Process \ {p} : pc[q] \notin {"written", "refused"}
    BY <1>14 DEF AcquireCommit, LeaseInv, UpsertLocks
  <2>3. LiveBacked'
    <3>1. row' = LockValue(p, stamp[p]) /\ lease' = [lease EXCEPT ![p] = stamp[p] + TTL]
      BY <1>14 DEF AcquireCommit
    <3>2. \A q \in Process \ {p} : ~Live(q)'
      BY <1>0, <1>14, <2>1, <3>1 DEF AcquireCommit, Live, Clock, TypeOK
    <3>3. row'.owner = p /\ row'.expires = stamp[p] + TTL /\ lease'[p] = stamp[p] + TTL
      BY <1>0, <3>1, LockValueType DEF TypeOK
    <3> QED
      BY <1>0, <3>2, <3>3, DurationAssumption DEF LiveBacked, TypeOK
  <2>4. /\ \A q \in Process \ {p} : lease'[q] = lease[q] /\ pc'[q] = pc[q]
        /\ lease'[p] = stamp[p] + TTL /\ pc'[p] = "waiting"
        /\ stamp' = stamp /\ \A q \in Process : Clock(q)' = Clock(q)
    BY <1>0, <1>14 DEF AcquireCommit, Goto, TypeOK, Clock
  <2>5. LeaseSpan' /\ StampPast' /\ NoLeaseYet'
    <3>1. \A q \in Process : Clock(q) \in Nat /\ stamp[q] \in Nat /\ TTL \in Nat
      BY <1>0, DurationAssumption, ClockType DEF TypeOK
    <3> QED
      BY <2>4, <3>1 DEF LeaseInv, LeaseSpan, StampPast, NoLeaseYet
  <2>6. WrittenAlone' /\ UpsertLocks'
    BY <1>0, <2>2, <2>4 DEF LeaseInv, WrittenAlone, UpsertLocks
  <2> QED
    BY <1>0, <1>14, <2>3, <2>5, <2>6 DEF AcquireCommit, LeaseInv, NeverForced, acquireVars
<1>15. ASSUME NEW p \in Process, AcquireFail(p)
       PROVE  LeaseInv'
  <2>1. row' # row => \A q \in Process : ~Live(q)
    BY <1>15 DEF AcquireFail, LeaseInv, WrittenAlone
  <2>2. UpsertLocks'
    BY <1>0, <1>15 DEF AcquireFail, Unlock, Exit, Goto, LeaseInv, UpsertLocks, TypeOK
  <2> QED
    BY <1>0, <1>15, <2>1, <2>2, ExitStep DEF AcquireFail
<1>16. ASSUME NEW p \in Process, RenewAnswered(p)
       PROVE  LeaseInv'
  <2>1. CASE Renewable(p, stamp[p])
    <3>1. \A q \in Process : pc[q] # "written"
      BY <1>0, <1>16, <2>1, RenewExcludesUpsert DEF RenewAnswered, TypeOK
    <3>2. row' = LockValue(p, stamp[p]) /\ lease' = [lease EXCEPT ![p] = stamp[p] + TTL]
      BY <1>16, <2>1 DEF RenewAnswered, Execute, Statement
    <3>3. LiveBacked'
      BY <1>0, <1>16, <2>1, <3>2, LockValueType DEF RenewAnswered, Renewable, LeaseInv,
        LiveBacked, Live, Clock, TypeOK
    <3>4. /\ \A q \in Process \ {p} : lease'[q] = lease[q] /\ pc'[q] = pc[q]
          /\ lease'[p] = stamp[p] + TTL /\ pc'[p] = "running"
          /\ stamp' = stamp /\ \A q \in Process : Clock(q)' = Clock(q)
      BY <1>0, <1>16, <2>1, <3>2 DEF RenewAnswered, Goto, TypeOK, Clock
    <3>5. LeaseSpan' /\ StampPast' /\ NoLeaseYet'
      <4>1. \A q \in Process : Clock(q) \in Nat /\ stamp[q] \in Nat /\ TTL \in Nat
        BY <1>0, DurationAssumption, ClockType DEF TypeOK
      <4> QED
        BY <3>4, <4>1, <1>16 DEF LeaseInv, LeaseSpan, StampPast, NoLeaseYet, RenewAnswered
    <3>6. WrittenAlone' /\ UpsertLocks'
      BY <1>16, <3>1, <3>4 DEF RenewAnswered, LeaseInv, WrittenAlone, UpsertLocks
    <3> QED
      BY <1>16, <3>3, <3>5, <3>6 DEF RenewAnswered, LeaseInv, NeverForced, acquireVars
  <2>2. CASE ~Renewable(p, stamp[p])
    <3>1. row' = row /\ lease' = lease /\ pc' = [pc EXCEPT ![p] = "draining"]
      BY <1>16, <2>2 DEF RenewAnswered, Execute, Statement, Drain, Goto
    <3> QED
      BY <1>0, <1>16, <3>1 DEF RenewAnswered, Acquiring, TypeOK, acquireVars,
        LeaseInv, UpsertLocks, NeverForced, NoLeaseYet, StampPast, LeaseSpan,
        WrittenAlone, LiveBacked, Live, Clock
  <2> QED
    BY <2>1, <2>2
<1>17. ASSUME NEW p \in Process, RenewFails(p)
       PROVE  LeaseInv'
  <2>1. \E to \in {"retrying", "draining"} : pc' = [pc EXCEPT ![p] = to]
    BY <1>17 DEF RenewFails, Drain, Goto
  <2>2. late' = late
    BY <1>17 DEF RenewFails, Unanswered, NoLate
  <2>3. Execute(Statement(p)) \/ row' = row
    BY <1>17 DEF RenewFails, Unanswered
  <2>4. LiveBacked'
    <3> SUFFICES ASSUME NEW q \in Process, Live(q)
                 PROVE  row'.owner = q /\ row'.expires >= lease[q]
      BY <1>0, <1>17 DEF RenewFails, leaseVars, LiveBacked, Live, Clock, TypeOK
    <3>1. row.owner = q /\ row.expires >= lease[q]
      BY DEF LeaseInv, LiveBacked
    <3>2. CASE row' = row
      BY <3>1, <3>2
    <3>3. CASE row' # row
      <4>1. q = p
        BY <1>0, <1>17, <2>3, <3>3, RenewedRow DEF RenewFails
      <4>2. row' = LockValue(p, stamp[p])
        BY <1>17, <2>3, <3>3 DEF RenewFails, Execute, Statement
      <4>3. lease[p] <= stamp[p] + TTL
        BY <1>17 DEF RenewFails, LeaseInv, LeaseSpan
      <4> QED
        BY <1>0, <4>1, <4>2, <4>3, LockValueType DEF TypeOK
    <3> QED
      BY <3>2, <3>3
  <2> QED
    BY <1>0, <1>17, <2>1, <2>2, <2>4 DEF RenewFails, Acquiring, TypeOK, acquireVars,
      leaseVars, LeaseInv, UpsertLocks, NeverForced, NoLeaseYet, StampPast, LeaseSpan,
      WrittenAlone, Live, Clock
<1>18. ASSUME NEW p \in Process, Release(p) \/ Crash(p)
       PROVE  LeaseInv'
  <2>1. Exit(p) /\ UNCHANGED <<now, locker>> /\ late' = late
    BY <1>18 DEF Release, Crash, Unanswered, NoLate
  <2>2. \A q \in Process \ {p} : Live(q) => row' = row
    <3> SUFFICES ASSUME NEW q \in Process \ {p}, Live(q)
                 PROVE  row' = row
      OBVIOUS
    <3>1. row.owner = q
      BY DEF LeaseInv, LiveBacked
    <3>2. Execute(Statement(p)) => row' = row
      BY <3>1 DEF Execute, Statement, Renewable
    <3> QED
      BY <1>18, <3>2 DEF Release, Crash, Unanswered
  <2>3. UpsertLocks'
    BY <1>0, <2>1 DEF Exit, Goto, LeaseInv, UpsertLocks, TypeOK
  <2> QED
    BY <1>0, <2>1, <2>2, <2>3, ExitStep
<1>19. ASSUME NEW s \in late
       PROVE  FALSE
  BY <1>19 DEF LeaseInv, NeverForced
<1>20. CASE UNCHANGED vars
  BY <1>20 DEF vars, dbVars, acquireVars, leaseVars,
    LeaseInv, UpsertLocks, NeverForced, NoLeaseYet, StampPast, LeaseSpan,
    WrittenAlone, LiveBacked, Live, Clock
<1> QED
  BY <1>1, <1>2, <1>3, <1>4, <1>5, <1>6, <1>7, <1>8, <1>9, <1>10, <1>11, <1>12,
     <1>13, <1>14, <1>15, <1>16, <1>17, <1>18, <1>19, <1>20
  DEF Next, Step

\* Neither restriction is about a state, so a step keeps them.
Restricted == NoForce /\ NoLate

LEMMA LeaseCorrect == Restricted /\ Spec => [](TypeInv /\ LeaseInv)
<1> DEFINE IInv == Restricted /\ TypeInv /\ LeaseInv
<1>1. Restricted /\ Init => IInv
  BY TypeInit, LeaseInit DEF Restricted
<1>2. IInv /\ [Next]_vars => IInv'
  <2>1. Restricted => Restricted'
    BY DEF Restricted, NoForce, NoLate
  <2> QED
    BY <2>1, TypeStep, LeaseStep DEF Restricted
<1>3. IInv => TypeInv /\ LeaseInv
  OBVIOUS
<1> HIDE DEF IInv
<1> QED
  BY <1>1, <1>2, <1>3, PTL DEF Spec

\* However long its statements, ticks and transactions are delayed, and
\* although answers get lost, the lease a process acts on is its own in the
\* database and lasts at least as long there.
THEOREM LeaseBackedTheorem == Restricted /\ Spec => []LeaseBacked
<1>1. TypeInv /\ LeaseInv => LeaseBacked
  <2>. SUFFICES ASSUME TypeInv, LeaseInv, NEW p \in Process, Valid(p) PROVE Live(p)
    BY DEF LeaseInv, LiveBacked, LeaseBacked
  <2>. QED
    BY ClockType, SkewAssumption DEF TypeInv, TypeOK, NoLease, Live, Valid
<1> QED
  BY <1>1, LeaseCorrect, PTL

\* Two processes never hold a valid lease at the same time.
THEOREM LeaseExclusionTheorem == Restricted /\ Spec => []LeaseExclusion
<1>1. LeaseBacked => LeaseExclusion
  BY DEF LeaseBacked, LeaseExclusion
<1> QED
  BY <1>1, LeaseBackedTheorem, PTL

-----------------------------------------------------------------------------
(* The lock implements the abstract lease AppLease: what is committed or   *)
(* renewed is a grant, and a process that ends drops its lease.            *)

\* Without force nobody is told to wait.
NoWait == \A p \in Process : waitUntil[p] = 0

LEMMA NoWaitStep ==
  ASSUME TypeOK, NeverForced, NoWait, [Next]_vars
  PROVE  NoWait'
<1>. SUFFICES ASSUME NEW p \in Process PROVE waitUntil'[p] = 0
  BY DEF NoWait
<1>1. ASSUME NEW q \in Process, AcquireCommit(q)
      PROVE  waitUntil'[p] = 0
  <2>1. WaitFor(q) = 0
    BY DEF WaitFor, NeverForced
  <2>. QED BY <1>1, <2>1 DEF AcquireCommit, NoWait, TypeOK
<1>2. ASSUME ~(\E q \in Process : AcquireCommit(q))
      PROVE  \/ waitUntil' = waitUntil
             \/ \E q \in Process : waitUntil' = [waitUntil EXCEPT ![q] = 0]
  BY <1>2 DEF Next, Step, Crash, Cancel, Advance, vars, LateExecutes, LateIsLost,
    AcquireSelect, AcquireStamp, AcquireUpsert, AcquireRefused, AcquireFail, BeginServing,
    AbandonWait, StartFails, TickerFires, RenewAnswered, RenewFails, RetryStart,
    StopRenewal, Drained, Release, Exit, Forget, leaseVars
<1>. QED BY <1>1, <1>2 DEF NoWait, TypeOK

\* A lease that ends at t is granted to p if no other lease is live.
LEMMA GrantStep ==
  ASSUME TypeOK, NoWait, NEW p \in Process, NEW t \in Nat, t <= Clock(p) + TTL,
         \A q \in Process \ {p} : ~Live(q),
         now' = now, lease' = [lease EXCEPT ![p] = t],
         waitUntil' \in {waitUntil, [waitUntil EXCEPT ![p] = 0]}
  PROVE  Lease!Grant(p)
<1>1. lease'[p] = t /\ waitUntil'[p] = 0 /\ waitUntil' = [waitUntil EXCEPT ![p] = 0]
  BY DEF TypeOK, NoWait
<1>2. Lease!Clock(p) = Clock(p) /\ Lease!StartOf(p, 0) = now
  BY ClockType DEF Lease!Clock, Clock, Lease!StartOf
<1>3. ASSUME NEW q \in Process \ {p}
      PROVE  now + Skew[q] + MaxSkew >= lease[q]
  <2>1. now \in Nat /\ Skew[q] \in Nat /\ MaxSkew \in Nat /\ lease[q] \in Nat \cup {-1}
    BY SkewAssumption DEF TypeOK, NoLease
  <2>2. ~(now + Skew[q] + MaxSkew <= lease[q])
    BY DEF Live, Clock
  <2>. QED BY <2>1, <2>2
<1>4. lease'[p] \in 0..(Lease!Clock(p) + TTL) /\ waitUntil'[p] \in Nat
  BY <1>1, <1>2, ClockType, DurationAssumption
<1>5. lease' = [lease EXCEPT ![p] = lease'[p]] /\ waitUntil' = [waitUntil EXCEPT ![p] = waitUntil'[p]]
  BY <1>1
<1>6. \A q \in Process \ {p} :
        Lease!StartOf(p, waitUntil'[p]) + Skew[q] + MaxSkew >= lease[q]
  BY <1>1, <1>2, <1>3
<1>. QED BY <1>4, <1>5, <1>6 DEF Lease!Grant

\* Whoever ends, or stops serving, drops its lease.
LEMMA LeaseDropped ==
  ASSUME NEW p \in Process,
         \/ AcquireRefused(p) \/ AcquireFail(p) \/ AbandonWait(p) \/ StartFails(p)
         \/ Drained(p) \/ Release(p) \/ Crash(p)
  PROVE  Lease!Drop(p)
BY DEF AcquireRefused, AcquireFail, AbandonWait, StartFails, Drained, Release, Crash,
  Exit, Forget, Lease!Drop, Lease!NoLease, NoLease

LEMMA LeaseKept ==
  ASSUME NEW p \in Process,
         \/ AcquireSelect(p) \/ AcquireStamp(p) \/ AcquireUpsert(p) \/ BeginServing(p)
         \/ TickerFires(p) \/ RenewFails(p) \/ RetryStart(p) \/ StopRenewal(p)
         \/ Cancel(p)
  PROVE  UNCHANGED <<now, lease, waitUntil>>
BY DEF AcquireSelect, AcquireStamp, AcquireUpsert, BeginServing, TickerFires,
  RenewFails, RetryStart, StopRenewal, Cancel, leaseVars

LEMMA LeaseStepRefines ==
  ASSUME TypeOK, LeaseInv, NoWait, [Next]_vars
  PROVE  [Lease!Next]_(Lease!vars)
<1>. USE DEF Lease!vars
<1>1. CASE Advance
  BY <1>1 DEF Advance, Lease!Next, Lease!Advance, leaseVars
<1>2. ASSUME NEW p \in Process, AcquireCommit(p)
      PROVE  Lease!Grant(p)
  <2>1. WaitFor(p) = 0
    BY DEF WaitFor, LeaseInv, NeverForced
  <2>2. \A q \in Process : ~Live(q)
    BY <1>2 DEF AcquireCommit, LeaseInv, WrittenAlone
  <2>3. stamp[p] + TTL \in Nat /\ stamp[p] + TTL <= Clock(p) + TTL
    BY DurationAssumption, ClockType DEF TypeOK, LeaseInv, StampPast
  <2>. QED BY <1>2, <2>1, <2>2, <2>3, GrantStep DEF AcquireCommit
<1>3. ASSUME NEW p \in Process, RenewAnswered(p), Renewable(p, stamp[p])
      PROVE  Lease!Grant(p)
  <2>1. \A q \in Process \ {p} : ~Live(q)
    BY <1>3 DEF Renewable, LeaseInv, LiveBacked
  <2>2. stamp[p] + TTL \in Nat /\ stamp[p] + TTL <= Clock(p) + TTL
    BY DurationAssumption, ClockType DEF TypeOK, LeaseInv, StampPast
  <2>. QED BY <1>3, <2>1, <2>2, GrantStep DEF RenewAnswered
<1>4. ASSUME NEW p \in Process, RenewAnswered(p), ~Renewable(p, stamp[p])
      PROVE  UNCHANGED <<now, lease, waitUntil>>
  BY <1>4 DEF RenewAnswered
<1>5. ASSUME NEW p \in Process,
             \/ AcquireRefused(p) \/ AcquireFail(p) \/ AbandonWait(p) \/ StartFails(p)
             \/ Drained(p) \/ Release(p) \/ Crash(p)
      PROVE  Lease!Drop(p)
  BY <1>5, LeaseDropped
<1>6. ASSUME NEW p \in Process,
             \/ AcquireSelect(p) \/ AcquireStamp(p) \/ AcquireUpsert(p) \/ BeginServing(p)
             \/ TickerFires(p) \/ RenewFails(p) \/ RetryStart(p) \/ StopRenewal(p)
             \/ Cancel(p)
      PROVE  UNCHANGED <<now, lease, waitUntil>>
  BY <1>6, LeaseKept
<1>7. CASE UNCHANGED vars \/ \E s \in late : LateExecutes(s) \/ LateIsLost(s)
  BY <1>7 DEF vars, LateExecutes, LateIsLost, leaseVars
<1>. QED
  BY <1>1, <1>2, <1>3, <1>4, <1>5, <1>6, <1>7 DEF Next, Step, Lease!Next

\* What the table, its transactions and the renewals do is what AppLease allows.
THEOREM LeaseTheorem == Restricted /\ Spec => LeaseSpec
<1>1. Init => Lease!Init /\ NoWait
  BY DEF Init, NoWait, Lease!Init, Lease!NoLease, NoLease
<1>2. TypeInv /\ LeaseInv /\ NoWait /\ [Next]_vars => NoWait'
  BY NoWaitStep DEF TypeInv, LeaseInv
<1>3. TypeInv /\ LeaseInv /\ NoWait /\ [Next]_vars => [Lease!Next]_(Lease!vars)
  BY LeaseStepRefines DEF TypeInv
<1>. QED
  BY <1>1, <1>2, <1>3, LeaseCorrect, PTL DEF Spec, LeaseSpec, Lease!Spec

\* In AppLease, of two processes one may not act before the other's lease is
\* over; whoever was granted its lease last was told to wait for that.
LeaseType ==
  /\ now \in Nat
  /\ lease \in [Process -> Nat \cup {NoLease}]
  /\ waitUntil \in [Process -> Nat]

StartsAfter(p, q) == Lease!StartOf(p, waitUntil[p]) + Skew[q] + MaxSkew >= lease[q]

OneWaits == \A p, q \in Process : p # q => StartsAfter(p, q) \/ StartsAfter(q, p)

LEMMA StartType ==
  ASSUME NEW n \in Nat, NEW p \in Process, NEW f \in Nat
  PROVE  LET s == IF f > n + Skew[p] THEN f - Skew[p] ELSE n IN s \in Nat /\ s >= n
BY SkewAssumption

LEMMA AbstractStep ==
  ASSUME LeaseType, OneWaits, [Lease!Next]_(Lease!vars)
  PROVE  LeaseType' /\ OneWaits'
<1>. USE DEF Lease!Clock, Lease!StartOf
<1>1. \A p \in Process : Skew[p] \in Nat
  BY SkewAssumption
<1>2. CASE Lease!Advance
  <2>1. LeaseType'
    BY <1>2 DEF Lease!Advance, LeaseType
  <2>2. ASSUME NEW p \in Process, NEW q \in Process, StartsAfter(p, q)
        PROVE  StartsAfter(p, q)'
    BY <1>1, <1>2, <2>2, SkewAssumption DEF Lease!Advance, LeaseType, StartsAfter, NoLease
  <2>. QED BY <2>1, <2>2 DEF OneWaits
<1>3. ASSUME NEW p \in Process, Lease!Grant(p)
      PROVE  LeaseType' /\ OneWaits'
  <2>1. PICK t \in Nat, f \in Nat :
          lease' = [lease EXCEPT ![p] = t] /\ waitUntil' = [waitUntil EXCEPT ![p] = f]
    BY <1>3 DEF Lease!Grant
  <2>2. LeaseType'
    BY <1>3, <2>1 DEF Lease!Grant, LeaseType
  <2>3. \A q \in Process \ {p} : StartsAfter(p, q)'
    BY <1>3, <2>1 DEF Lease!Grant, LeaseType, StartsAfter
  <2>4. \A r, q \in Process \ {p} : StartsAfter(r, q) => StartsAfter(r, q)'
    BY <1>3, <2>1 DEF Lease!Grant, LeaseType, StartsAfter
  <2>. QED BY <2>2, <2>3, <2>4 DEF OneWaits
<1>4. ASSUME NEW p \in Process, Lease!Drop(p)
      PROVE  LeaseType' /\ OneWaits'
  <2>1. LeaseType' /\ lease'[p] = -1
    BY <1>4 DEF Lease!Drop, LeaseType, Lease!NoLease, NoLease
  <2>2. \A q \in Process \ {p} : StartsAfter(q, p)'
    BY <1>1, <2>1, StartType, SkewAssumption DEF LeaseType, StartsAfter
  <2>3. \A r, q \in Process \ {p} : StartsAfter(r, q) => StartsAfter(r, q)'
    BY <1>4 DEF Lease!Drop, LeaseType, StartsAfter
  <2>. QED BY <2>1, <2>2, <2>3 DEF OneWaits
<1>5. CASE UNCHANGED Lease!vars
  BY <1>5 DEF Lease!vars, LeaseType, OneWaits, StartsAfter
<1>. QED BY <1>2, <1>3, <1>4, <1>5 DEF Lease!Next

\* What AppLease promises is enough: no two processes act at the same time.
THEOREM ExclusiveTheorem == LeaseSpec => []Lease!Exclusive
<1>. DEFINE Inv == LeaseType /\ OneWaits
<1>1. Lease!Init => Inv
  BY SkewAssumption DEF Lease!Init, LeaseType, OneWaits, StartsAfter, Lease!StartOf,
    Lease!Clock, Lease!NoLease, NoLease
<1>2. Inv /\ [Lease!Next]_(Lease!vars) => Inv'
  BY AbstractStep
<1>3. Inv => Lease!Exclusive
  <2>. SUFFICES ASSUME LeaseType, NEW p \in Process, NEW q \in Process,
                       Lease!Valid(p), Lease!Valid(q), StartsAfter(p, q)
                PROVE  FALSE
    BY DEF OneWaits, Lease!Exclusive
  <2>. QED
    BY SkewAssumption DEF LeaseType, StartsAfter, Lease!StartOf, Lease!Clock, Lease!Valid,
      NoLease
<1>. HIDE DEF Inv
<1>. QED BY <1>1, <1>2, <1>3, PTL DEF LeaseSpec, Lease!Spec

-----------------------------------------------------------------------------
(* Force, on SQLite.  An acquisition with force waits until the lease that *)
(* it took over has ended.  True time is what the clocks have in common: a *)
(* lease that ends at t by p's clock ends at t - Skew[p].                  *)

\* p could act on its lease, had it waited.
Usable(p) == Clock(p) + MaxSkew < lease[p]

\* The lease of q ends no later than the reading t of p's clock.
EndsBy(q, p, t) == lease[q] + Skew[p] <= t + Skew[q]

InTransaction == {"selected", "stamped", "written", "refused"}

\* An IMMEDIATE transaction owns the file from its SELECT on, so that the row
\* stays as it was read.
HoldsLock ==
  \A p \in Process : pc[p] \in InTransaction => locker = p /\ prev[p] = row

\* A lock_id is new when its process acquires.
NewId ==
  \A p \in Process : pc[p] \in Acquiring => row.owner # p /\ lease[p] = NoLease

\* The row, and the row that a transaction will write, outlast every lease.
RowLasts ==
  \A q \in Process :
    Usable(q) => row.owner \in Process /\ EndsBy(q, row.owner, row.expires)
StampLasts ==
  \A p, q \in Process :
    pc[p] \in {"stamped", "written"} /\ Usable(q) => EndsBy(q, p, stamp[p] + TTL)

\* p was told to wait until the lease of q is over by every clock.
WaitsFor(p, q) == EndsBy(q, p, waitUntil[p] + MaxSkew)

Owning == Serving \cup {"waiting"}
OwnerWaits ==
  \A p, q \in Process :
    p # q /\ pc[p] \in Owning /\ row.owner = p /\ Usable(q) => WaitsFor(p, q)
OneOfTwo ==
  \A p, q \in Process :
    p # q /\ Usable(p) /\ Usable(q) => WaitsFor(p, q) \/ WaitsFor(q, p)

Waited == \A p \in Process : pc[p] \in Serving => waitUntil[p] <= Clock(p)
ReleaseAlone ==
  \A p, q \in Process :
    p # q /\ pc[p] = "releasing" /\ row.owner = p => ~Usable(q)

ForceInv ==
  /\ late = {}
  /\ HoldsLock
  /\ NewId
  /\ LeaseSpan
  /\ RowLasts
  /\ StampLasts
  /\ OwnerWaits
  /\ OneOfTwo
  /\ Waited
  /\ ReleaseAlone

\* The numbers that the invariant compares.
LEMMA Numbers ==
  ASSUME TypeOK
  PROVE  /\ now \in Nat /\ TTL \in Nat /\ MaxSkew \in Nat /\ row.expires \in Nat
         /\ \A p \in Process :
              /\ Skew[p] \in Nat /\ stamp[p] \in Nat /\ waitUntil[p] \in Nat
              /\ lease[p] \in Nat \cup {-1}
              /\ prev[p] \in [owner : Process \cup {NoProcess}, expires : Nat]
         /\ \A p, q \in Process : Skew[p] <= Skew[q] + MaxSkew
BY SkewAssumption, DurationAssumption DEF TypeOK, NoLease

\* Whoever serves in the name of the row is the only one with a lease.
LEMMA OwnerAlone ==
  ASSUME TypeOK, ForceInv, NEW p \in Process, NEW q \in Process, p # q,
         pc[p] \in Owning, waitUntil[p] <= Clock(p), row.owner = p
  PROVE  ~Usable(q)
<1>1. Usable(q) => WaitsFor(p, q)
  BY DEF ForceInv, OwnerWaits
<1>. QED BY <1>1, Numbers DEF WaitsFor, EndsBy, Usable, Clock

\* A lease that is given is over, or waited for, by the clock of the process
\* that commits.
LEMMA CommitWaits ==
  ASSUME TypeOK, RowInv, ForceInv, NEW p \in Process, NEW q \in Process, p # q,
         pc[p] = "written", Usable(q)
  PROVE  EndsBy(q, p, WaitFor(p) + MaxSkew)
<1>1. row.owner \in Process /\ EndsBy(q, row.owner, row.expires)
  BY DEF ForceInv, RowLasts
<1>2. prev[p] = row /\ row.owner # p /\ stamp[p] <= Clock(p)
  BY DEF ForceInv, HoldsLock, NewId, InTransaction, Acquiring, RowInv, StampPast
<1>3. CASE force[p] /\ row.expires > stamp[p]
  <2>1. WaitFor(p) = row.expires
    BY <1>2, <1>3 DEF WaitFor
  <2>. QED BY <1>1, <2>1, Numbers DEF EndsBy
<1>4. CASE ~(force[p] /\ row.expires > stamp[p])
  <2>1. row # NoRow
    BY <1>1, ProcessAssumption DEF NoRow
  <2>2. row.expires <= stamp[p]
    BY <1>4, <2>1, Numbers DEF RowInv, WrittenOver
  <2>. QED BY <1>1, <1>2, <2>2, Numbers DEF EndsBy, Usable, Clock
<1>. QED BY <1>3, <1>4

\* What becomes of a lease in one step.
LEMMA LeaseMoves ==
  ASSUME TypeOK, [Next]_vars, NEW p \in Process
  PROVE  \/ lease'[p] = NoLease /\ pc'[p] \in {"exited", "releasing"}
         \/ lease'[p] = lease[p] /\ waitUntil'[p] = waitUntil[p]
         \/ AcquireCommit(p)
         \/ RenewAnswered(p) /\ Renewable(p, stamp[p])
<1>1. ASSUME NEW q \in Process, Step(q) \/ Crash(q) \/ Cancel(q)
      PROVE  \/ lease'[p] = NoLease /\ pc'[p] \in {"exited", "releasing"}
             \/ lease'[p] = lease[p] /\ waitUntil'[p] = waitUntil[p]
             \/ AcquireCommit(p)
             \/ RenewAnswered(p) /\ Renewable(p, stamp[p])
  <2>1. CASE q = p
    BY <1>1, <2>1 DEF Step, Crash, Cancel, AcquireSelect, AcquireStamp, AcquireUpsert,
      AcquireRefused, AcquireFail, BeginServing, AbandonWait, StartFails, TickerFires,
      RenewAnswered, RenewFails, RetryStart, StopRenewal, Drained, Release, Exit, Forget,
      Goto, TypeOK, leaseVars
  <2>2. CASE q # p
    BY <1>1, <2>2 DEF Step, Crash, Cancel, AcquireSelect, AcquireStamp, AcquireUpsert,
      AcquireCommit, AcquireRefused, AcquireFail, BeginServing, AbandonWait, StartFails,
      TickerFires, RenewAnswered, RenewFails, RetryStart, StopRenewal, Drained, Release,
      Exit, Forget, TypeOK, leaseVars
  <2>. QED BY <2>1, <2>2
<1>2. CASE \/ Advance \/ UNCHANGED vars
           \/ \E s \in late : LateExecutes(s) \/ LateIsLost(s)
  BY <1>2 DEF Advance, vars, LateExecutes, LateIsLost, leaseVars
<1>. QED BY <1>1, <1>2 DEF Next

\* How a process gets where it is.
LEMMA PcMoves ==
  ASSUME TypeOK, [Next]_vars, NEW p \in Process
  PROVE  \/ pc'[p] = pc[p] /\ stamp'[p] = stamp[p] /\ prev'[p] = prev[p]
         \/ AcquireSelect(p) /\ pc'[p] = "selected"
         \/ AcquireStamp(p) /\ pc'[p] = "stamped"
         \/ AcquireUpsert(p) /\ pc'[p] \in {"written", "refused"}
         \/ AcquireCommit(p) /\ pc'[p] = "waiting"
         \/ BeginServing(p) /\ pc'[p] = "running"
         \/ StartFails(p) /\ pc'[p] = "releasing"
         \/ (TickerFires(p) \/ RetryStart(p)) /\ pc'[p] = "renewing"
         \/ /\ RenewAnswered(p) \/ RenewFails(p) \/ StopRenewal(p)
            /\ pc'[p] \in Serving \ {"renewing"}
         \/ Drained(p) /\ pc'[p] = "releasing"
         \/ pc'[p] = "exited"
<1>1. ASSUME NEW q \in Process, Step(q) \/ Crash(q) \/ Cancel(q), q # p
      PROVE  pc'[p] = pc[p] /\ stamp'[p] = stamp[p] /\ prev'[p] = prev[p]
  BY <1>1 DEF Step, Crash, Cancel, AcquireSelect, AcquireStamp, AcquireUpsert,
    AcquireCommit, AcquireRefused, AcquireFail, BeginServing, AbandonWait, StartFails,
    TickerFires, RenewAnswered, RenewFails, RetryStart, StopRenewal, Drained, Release,
    Exit, Attempt, Drain, Goto, TypeOK, acquireVars
<1>2. CASE \/ Advance \/ UNCHANGED vars
           \/ \E s \in late : LateExecutes(s) \/ LateIsLost(s)
  BY <1>2 DEF Advance, vars, LateExecutes, LateIsLost, acquireVars
<1>3. CASE Cancel(p)
  BY <1>3 DEF Cancel, acquireVars
<1>4. CASE \/ AcquireRefused(p) \/ AcquireFail(p) \/ AbandonWait(p) \/ Release(p)
           \/ Crash(p)
  BY <1>4 DEF AcquireRefused, AcquireFail, AbandonWait, Release, Crash, Exit, Goto, TypeOK
<1>5. CASE \/ AcquireSelect(p) \/ AcquireStamp(p) \/ AcquireUpsert(p) \/ AcquireCommit(p)
           \/ BeginServing(p) \/ StartFails(p) \/ TickerFires(p) \/ RetryStart(p)
           \/ RenewAnswered(p) \/ RenewFails(p) \/ StopRenewal(p) \/ Drained(p)
  BY <1>5 DEF AcquireSelect, AcquireStamp, AcquireUpsert, AcquireCommit, BeginServing,
    StartFails, TickerFires, RetryStart, RenewAnswered, RenewFails, StopRenewal, Drained,
    Attempt, Drain, Goto, Serving, TypeOK
<1>. QED BY <1>1, <1>2, <1>3, <1>4, <1>5 DEF Next, Step

\* On SQLite no statement outlives its caller, and what it does to the row it
\* does while the caller is still there.
LEMMA SqliteStep ==
  ASSUME TypeOK, dialect = "sqlite", late = {}, [Next]_vars
  PROVE  /\ dialect' = "sqlite" /\ late' = {} /\ now' \in {now, now + 1}
         /\ \/ row' = row
            \/ \E p \in Process : /\ pc[p] = "written" /\ pc'[p] \in {"waiting", "exited"}
                                  /\ row' = LockValue(p, stamp[p])
            \/ \E p \in Process : /\ pc[p] = "renewing" /\ pc'[p] \in Serving \cup {"exited"}
                                  /\ locker = NoProcess /\ Renewable(p, stamp[p])
                                  /\ row' = LockValue(p, stamp[p])
            \/ \E p \in Process : /\ pc[p] = "releasing" /\ pc'[p] = "exited"
                                  /\ row.owner = p /\ row' = NoRow
<1>. DEFINE Renews(p) == /\ pc[p] = "renewing" /\ locker = NoProcess
                         /\ Renewable(p, stamp[p]) /\ row' = LockValue(p, stamp[p])
            Gives(p) == pc[p] = "releasing" /\ row.owner = p /\ row' = NoRow
<1>1. ASSUME NEW p \in Process, CanWrite, Execute(Statement(p)), pc[p] \in {"renewing", "releasing"}
      PROVE  row' = row \/ Renews(p) \/ Gives(p)
  BY <1>1 DEF Execute, Statement, CanWrite
<1>2. ASSUME NEW p \in Process, Unanswered(Statement(p)), pc[p] \in {"renewing", "releasing"}
      PROVE  late' = {} /\ (row' = row \/ Renews(p) \/ Gives(p))
  BY <1>1, <1>2 DEF Unanswered
<1>3. CASE Advance \/ UNCHANGED vars
  BY <1>3 DEF Advance, vars, dbVars
<1>4. ASSUME NEW p \in Process,
             \/ AcquireSelect(p) \/ AcquireStamp(p) \/ AcquireUpsert(p)
             \/ AcquireRefused(p) \/ BeginServing(p) \/ AbandonWait(p) \/ StartFails(p)
             \/ TickerFires(p) \/ RetryStart(p) \/ StopRenewal(p) \/ Drained(p)
             \/ Cancel(p)
      PROVE  UNCHANGED <<dialect, now, row, late>>
  BY <1>4 DEF AcquireSelect, AcquireStamp, AcquireUpsert, AcquireRefused, BeginServing,
    AbandonWait, StartFails, TickerFires, RetryStart, StopRenewal, Drained, Cancel, dbVars
<1>5. ASSUME NEW p \in Process, AcquireCommit(p) \/ AcquireFail(p)
      PROVE  /\ UNCHANGED <<dialect, now, late>>
             /\ \/ row' = row
                \/ /\ pc[p] = "written" /\ pc'[p] \in {"waiting", "exited"}
                   /\ row' = LockValue(p, stamp[p])
  BY <1>5 DEF AcquireCommit, AcquireFail, Exit, Goto, TypeOK
<1>6. ASSUME NEW p \in Process, RenewAnswered(p) \/ RenewFails(p)
      PROVE  /\ UNCHANGED <<dialect, now>> /\ late' = {}
             /\ pc[p] = "renewing" /\ pc'[p] \in Serving
             /\ row' = row \/ Renews(p)
  <2>1. pc[p] = "renewing" /\ pc'[p] \in Serving /\ UNCHANGED <<dialect, now>>
    BY <1>6 DEF RenewAnswered, RenewFails, Drain, Goto, Serving, TypeOK
  <2>2. late' = {} /\ (row' = row \/ Renews(p) \/ Gives(p))
    BY <1>1, <1>2, <1>6, <2>1 DEF RenewAnswered, RenewFails
  <2>. QED BY <2>1, <2>2
<1>7. ASSUME NEW p \in Process, Release(p) \/ Crash(p)
      PROVE  /\ UNCHANGED <<dialect, now>> /\ late' = {} /\ pc'[p] = "exited"
             /\ row' = row \/ Renews(p) \/ Gives(p)
  BY <1>2, <1>7 DEF Release, Crash, Exit, Goto, TypeOK
<1>. QED
  BY <1>3, <1>4, <1>5, <1>6, <1>7 DEF Next, Step, Renewable

\* A lease that can be acted on after a step could be before it, unless the
\* step granted it.
LEMMA UsableMoves ==
  ASSUME TypeOK, dialect = "sqlite", late = {}, [Next]_vars, NEW q \in Process, Usable(q)'
  PROVE  \/ Usable(q) /\ lease'[q] = lease[q] /\ waitUntil'[q] = waitUntil[q]
         \/ AcquireCommit(q)
         \/ RenewAnswered(q) /\ Renewable(q, stamp[q])
<1>1. now' \in {now, now + 1}
  BY SqliteStep
<1>2. now \in Nat /\ MaxSkew \in Nat /\ Skew[q] \in Nat /\ lease[q] \in Nat \cup {-1}
  BY Numbers
<1>3. lease'[q] # NoLease
  BY <1>1, <1>2 DEF Usable, Clock, NoLease
<1>4. lease'[q] = lease[q] => Usable(q)
  BY <1>1, <1>2 DEF Usable, Clock
<1>. QED BY <1>3, <1>4, LeaseMoves

\* While a transaction is open nothing else changes the row.
LEMMA HoldsLockStep ==
  ASSUME TypeOK, dialect = "sqlite", late = {}, HoldsLock, [Next]_vars
  PROVE  HoldsLock'
<1>. SUFFICES ASSUME NEW p \in Process, pc'[p] \in InTransaction
              PROVE  locker' = p /\ prev'[p] = row'
  BY DEF HoldsLock
<1>1. CASE AcquireSelect(p)
  BY <1>1 DEF AcquireSelect, SelectLocks, TypeOK
<1>2. CASE pc[p] \in InTransaction /\ ~AcquireSelect(p)
  <2>1. locker = p /\ prev[p] = row /\ p # NoProcess
    BY <1>2, ProcessAssumption DEF HoldsLock
  <2>2. \A q \in Process : pc[q] \in InTransaction => q = p
    BY <2>1 DEF HoldsLock
  <2>3. ~(pc'[p] \in {"waiting", "exited"})
    BY DEF InTransaction
  <2>4. row' = row
    <3>1. ASSUME NEW q \in Process, pc[q] = "releasing", row.owner = q, row' = NoRow
          PROVE  FALSE
      <4>1. CanWrite \/ row' = row
        BY <1>2, <2>1, <2>2, <3>1, RowStep, LockValueType, ProcessAssumption
        DEF InTransaction, NoRow, TypeOK
      <4>. QED BY <2>1, <3>1, <4>1, ProcessAssumption DEF CanWrite, NoRow
    <3>. QED
      BY <2>1, <2>2, <2>3, <3>1, SqliteStep DEF InTransaction
  <2>5. prev'[p] = prev[p]
    BY <1>2, PcMoves DEF InTransaction, Serving, AcquireStamp, AcquireUpsert, AcquireCommit,
      acquireVars
  <2>6. locker' = p
    <3>1. ASSUME NEW q \in Process, Step(q) \/ Crash(q) \/ Cancel(q)
          PROVE  locker' = p
      <4>1. CASE q = p
        BY <1>2, <2>1, <2>3, <3>1, <4>1 DEF Step, Crash, Cancel, AcquireStamp,
          AcquireUpsert, AcquireCommit, AcquireRefused, AcquireFail, BeginServing,
          AbandonWait, StartFails, TickerFires, RenewAnswered, RenewFails, RetryStart,
          StopRenewal, Drained, Release, Exit, Goto, TypeOK, dbVars
      <4>2. CASE q # p
        BY <1>2, <2>1, <2>2, <3>1, <4>2 DEF Step, Crash, Cancel, AcquireSelect,
          AcquireStamp, AcquireUpsert, AcquireCommit, AcquireRefused, AcquireFail,
          BeginServing, AbandonWait, StartFails, TickerFires, RenewAnswered, RenewFails,
          RetryStart, StopRenewal, Drained, Release, Unlock, SelectLocks, InTransaction,
          dbVars
      <4>. QED BY <4>1, <4>2
    <3>2. CASE Advance \/ UNCHANGED vars
      BY <2>1, <3>2 DEF Advance, vars, dbVars
    <3>. QED BY <3>1, <3>2 DEF Next
  <2>. QED BY <2>1, <2>4, <2>5, <2>6
<1>3. pc[p] \in InTransaction \/ AcquireSelect(p)
  BY PcMoves DEF InTransaction, Serving, AcquireStamp, AcquireUpsert
<1>. QED BY <1>1, <1>2, <1>3

\* Before it acquires, a process is not in the row and has no lease.
LEMMA NewIdStep ==
  ASSUME TypeOK, dialect = "sqlite", late = {}, NewId, [Next]_vars
  PROVE  NewId'
<1>. SUFFICES ASSUME NEW p \in Process, pc'[p] \in Acquiring
              PROVE  row'.owner # p /\ lease'[p] = NoLease
  BY DEF NewId
<1>1. pc[p] \in Acquiring /\ row.owner # p /\ lease[p] = NoLease
  <2>1. pc[p] \in Acquiring
    BY PcMoves DEF Acquiring, Serving, AcquireSelect, AcquireStamp, AcquireUpsert
  <2>. QED BY <2>1 DEF NewId
<1>2. row'.owner # p
  BY <1>1, SqliteStep, LockValueType, ProcessAssumption DEF TypeOK, NoRow, Acquiring, Renewable
<1>3. lease'[p] = NoLease
  BY <1>1, LeaseMoves DEF AcquireCommit, RenewAnswered, Acquiring, Goto, TypeOK
<1>. QED BY <1>2, <1>3

\* A lease is counted from a stamp, and a stamp from a clock.
LEMMA LeaseSpanStep ==
  ASSUME TypeOK, TypeOK', StampPast, LeaseSpan, [Next]_vars, now' \in {now, now + 1}
  PROVE  LeaseSpan'
<1>. SUFFICES ASSUME NEW p \in Process
              PROVE  /\ lease'[p] <= Clock(p)' + TTL
                     /\ pc'[p] = "renewing" => lease'[p] <= stamp'[p] + TTL
  BY DEF LeaseSpan
<1>1. /\ now \in Nat /\ TTL \in Nat /\ Skew[p] \in Nat
      /\ stamp[p] \in Nat /\ stamp[p] <= now + Skew[p] /\ stamp'[p] \in Nat
      /\ lease[p] \in Nat \cup {-1} /\ lease[p] <= now + Skew[p] + TTL
  BY Numbers DEF LeaseSpan, StampPast, Clock, TypeOK
<1>2. CASE lease'[p] = NoLease
  BY <1>1, <1>2 DEF NoLease, Clock
<1>3. CASE AcquireCommit(p) \/ (RenewAnswered(p) /\ Renewable(p, stamp[p]))
  <2>1. lease'[p] = stamp[p] + TTL /\ pc'[p] # "renewing"
    BY <1>3 DEF AcquireCommit, RenewAnswered, Goto, TypeOK
  <2>. QED BY <1>1, <2>1 DEF Clock
<1>4. CASE lease'[p] = lease[p]
  <2>1. pc'[p] = "renewing" => lease'[p] <= stamp'[p] + TTL
    <3>1. CASE pc'[p] = pc[p] /\ stamp'[p] = stamp[p]
      BY <1>4, <3>1 DEF LeaseSpan
    <3>2. CASE TickerFires(p) \/ RetryStart(p)
      <4>1. stamp'[p] = Clock(p)
        BY <3>2 DEF TickerFires, RetryStart, Attempt, TypeOK
      <4>. QED BY <1>1, <1>4, <4>1 DEF Clock
    <3>. QED BY <3>1, <3>2, PcMoves DEF Serving
  <2>. QED BY <1>1, <1>4, <2>1 DEF Clock
<1>. QED BY <1>2, <1>3, <1>4, LeaseMoves

\* A process that exits has no lease left.
LEMMA ExitForgets ==
  ASSUME TypeOK, [Next]_vars, NEW p \in Process, pc[p] # "exited", pc'[p] = "exited"
  PROVE  lease'[p] = NoLease
<1>1. ASSUME NEW q \in Process, Step(q) \/ Crash(q) \/ Cancel(q)
      PROVE  lease'[p] = NoLease
  <2>1. CASE q = p
    BY <1>1, <2>1 DEF Step, Crash, Cancel, AcquireSelect, AcquireStamp, AcquireUpsert,
      AcquireCommit, AcquireRefused, AcquireFail, BeginServing, AbandonWait, StartFails,
      TickerFires, RenewAnswered, RenewFails, RetryStart, StopRenewal, Drained, Release,
      Exit, Attempt, Drain, Goto, TypeOK
  <2>2. CASE q # p
    BY <1>1, <2>2 DEF Step, Crash, Cancel, AcquireSelect, AcquireStamp, AcquireUpsert,
      AcquireCommit, AcquireRefused, AcquireFail, BeginServing, AbandonWait, StartFails,
      TickerFires, RenewAnswered, RenewFails, RetryStart, StopRenewal, Drained, Release,
      Exit, Attempt, Drain, Goto, TypeOK
  <2>. QED BY <2>1, <2>2
<1>2. CASE \/ Advance \/ UNCHANGED vars
           \/ \E s \in late : LateExecutes(s) \/ LateIsLost(s)
  BY <1>2 DEF Advance, vars, LateExecutes, LateIsLost
<1>. QED BY <1>1, <1>2 DEF Next

\* The process that commits or renews writes a row that lasts as long as its
\* own lease, and nobody else's lease lasts longer.
LEMMA RowLastsStep ==
  ASSUME TypeOK, dialect = "sqlite", RowInv, ForceInv, [Next]_vars
  PROVE  RowLasts'
<1>. SUFFICES ASSUME NEW q \in Process, Usable(q)'
              PROVE  row'.owner \in Process /\ EndsBy(q, row.owner, row.expires)'
  BY DEF RowLasts
<1>. late = {}
  BY DEF ForceInv
<1>1. ASSUME NEW p \in Process, row' = LockValue(p, stamp[p]),
             lease'[q] + Skew[p] <= stamp[p] + TTL + Skew[q]
      PROVE  row'.owner \in Process /\ EndsBy(q, row.owner, row.expires)'
  BY <1>1, LockValueType DEF EndsBy, TypeOK
<1>2. CASE AcquireCommit(q)
  BY <1>1, <1>2, Numbers DEF AcquireCommit, TypeOK
<1>3. CASE RenewAnswered(q) /\ Renewable(q, stamp[q])
  BY <1>1, <1>3, Numbers DEF RenewAnswered, Execute, Statement, TypeOK
<1>4. CASE Usable(q) /\ lease'[q] = lease[q] /\ waitUntil'[q] = waitUntil[q]
  <2>1. CASE row' = row
    BY <1>4, <2>1 DEF ForceInv, RowLasts, EndsBy
  <2>2. ASSUME NEW p \in Process, pc[p] = "written", row' = LockValue(p, stamp[p])
        PROVE  row'.owner \in Process /\ EndsBy(q, row.owner, row.expires)'
    BY <1>1, <1>4, <2>2 DEF ForceInv, StampLasts, EndsBy
  <2>3. ASSUME NEW p \in Process, pc[p] = "renewing", Renewable(p, stamp[p]),
               row' = LockValue(p, stamp[p])
        PROVE  row'.owner \in Process /\ EndsBy(q, row.owner, row.expires)'
    <3>1. q = p
      BY <1>4, <2>3, OwnerAlone DEF Renewable, ForceInv, Waited, Owning, Serving
    <3>. QED BY <1>1, <1>4, <2>3, <3>1, Numbers DEF ForceInv, LeaseSpan
  <2>4. ASSUME NEW p \in Process, pc[p] = "releasing", pc'[p] = "exited", row.owner = p
        PROVE  FALSE
    <3>1. q = p
      BY <1>4, <2>4 DEF ForceInv, ReleaseAlone
    <3>2. lease'[p] = NoLease
      BY <2>4, ExitForgets
    <3>. QED BY <1>4, <3>1, <3>2, Numbers DEF Usable, Clock, NoLease
  <2>. QED BY <2>1, <2>2, <2>3, <2>4, SqliteStep
<1>. QED BY <1>2, <1>3, <1>4, UsableMoves

\* A stamp is read while the transaction is open: what is granted later than
\* the stamp would need the same lock.
LEMMA StampLastsStep ==
  ASSUME TypeOK, dialect = "sqlite", RowInv, ForceInv, [Next]_vars
  PROVE  StampLasts'
<1>. SUFFICES ASSUME NEW p \in Process, NEW q \in Process,
                     pc'[p] \in {"stamped", "written"}, Usable(q)'
              PROVE  EndsBy(q, p, stamp[p] + TTL)'
  BY DEF StampLasts
<1>. late = {}
  BY DEF ForceInv
<1>1. pc[p] \in InTransaction /\ (AcquireStamp(p) \/ (pc[p] \in {"stamped", "written"} /\ stamp'[p] = stamp[p]))
  BY PcMoves DEF InTransaction, Serving, AcquireStamp, AcquireUpsert
<1>2. locker = p /\ p # NoProcess /\ \A r \in Process : pc[r] \in InTransaction => r = p
  BY <1>1, ProcessAssumption DEF ForceInv, HoldsLock
<1>3. ~AcquireCommit(q) /\ ~(RenewAnswered(q) /\ Renewable(q, stamp[q]))
  <2>1. ASSUME AcquireCommit(q)
        PROVE  FALSE
    BY <1>1, <1>2, <2>1 DEF AcquireCommit, Goto, InTransaction, TypeOK
  <2>2. CanWrite => FALSE
    BY <1>2 DEF CanWrite
  <2>. QED BY <2>1, <2>2 DEF RenewAnswered
<1>4. Usable(q) /\ lease'[q] = lease[q]
  BY <1>3, UsableMoves
<1>5. CASE AcquireStamp(p)
  <2>1. stamp'[p] = Clock(p)
    BY <1>5 DEF AcquireStamp, TypeOK
  <2>. QED BY <1>4, <2>1, Numbers DEF ForceInv, LeaseSpan, EndsBy, Clock
<1>6. CASE pc[p] \in {"stamped", "written"} /\ stamp'[p] = stamp[p]
  BY <1>4, <1>6 DEF ForceInv, StampLasts, EndsBy
<1>. QED BY <1>1, <1>5, <1>6

\* Whoever is granted a lease is in the row.
LEMMA GrantOwns ==
  ASSUME TypeOK, NEW p \in Process,
         AcquireCommit(p) \/ (RenewAnswered(p) /\ Renewable(p, stamp[p]))
  PROVE  row'.owner = p
<1>1. row' = LockValue(p, stamp[p])
  BY DEF AcquireCommit, RenewAnswered, Execute, Statement
<1>. QED BY <1>1, LockValueType DEF TypeOK

LEMMA OwnerWaitsStep ==
  ASSUME TypeOK, dialect = "sqlite", RowInv, ForceInv, [Next]_vars
  PROVE  OwnerWaits'
<1>. SUFFICES ASSUME NEW p \in Process, NEW q \in Process, p # q, pc'[p] \in Owning,
                     row'.owner = p, Usable(q)'
              PROVE  lease'[q] + Skew[p] <= waitUntil'[p] + MaxSkew + Skew[q]
  BY DEF OwnerWaits, WaitsFor, EndsBy
<1>. late = {}
  BY DEF ForceInv
<1>1. Usable(q) /\ lease'[q] = lease[q]
  BY UsableMoves, GrantOwns
<1>2. CASE AcquireCommit(p)
  <2>1. waitUntil'[p] = WaitFor(p) /\ pc[p] = "written"
    BY <1>2 DEF AcquireCommit, TypeOK
  <2>. QED BY <1>1, <2>1, CommitWaits DEF EndsBy
<1>3. CASE ~AcquireCommit(p)
  <2>1. pc[p] \in Owning
    BY <1>3, PcMoves DEF Owning, Serving, BeginServing, TickerFires, RetryStart,
      RenewAnswered, RenewFails, StopRenewal
  <2>2. waitUntil'[p] = waitUntil[p]
    BY <1>3, LeaseMoves DEF Owning, Serving, RenewAnswered
  <2>3. row.owner = p
    <3>1. ASSUME NEW r \in Process, pc[r] = "written", row' = LockValue(r, stamp[r])
          PROVE  FALSE
      BY <2>1, <3>1, LockValueType DEF Owning, Serving, TypeOK
    <3>2. ASSUME NEW r \in Process, Renewable(r, stamp[r]), row' = LockValue(r, stamp[r])
          PROVE  row.owner = p
      BY <3>2, LockValueType DEF Renewable, TypeOK
    <3>. QED BY <3>1, <3>2, SqliteStep, ProcessAssumption DEF NoRow
  <2>4. WaitsFor(p, q)
    BY <1>1, <2>1, <2>3 DEF ForceInv, OwnerWaits
  <2>. QED BY <1>1, <2>2, <2>4 DEF WaitsFor, EndsBy
<1>. QED BY <1>2, <1>3

LEMMA OneOfTwoStep ==
  ASSUME TypeOK, dialect = "sqlite", RowInv, ForceInv, [Next]_vars
  PROVE  OneOfTwo'
<1>. DEFINE Granted(p) == AcquireCommit(p) \/ (RenewAnswered(p) /\ Renewable(p, stamp[p]))
            Same(p) == Usable(p) /\ lease'[p] = lease[p] /\ waitUntil'[p] = waitUntil[p]
            After(p, q) == lease'[q] + Skew[p] <= waitUntil'[p] + MaxSkew + Skew[q]
<1>. SUFFICES ASSUME NEW p \in Process, NEW q \in Process, p # q, Usable(p)', Usable(q)'
              PROVE  After(p, q) \/ After(q, p)
  BY DEF OneOfTwo, WaitsFor, EndsBy
<1>. late = {}
  BY DEF ForceInv
<1>1. ASSUME NEW r \in Process, NEW s \in Process, r # s, Granted(r), Same(s)
      PROVE  After(r, s)
  <2>1. CASE AcquireCommit(r)
    <3>1. waitUntil'[r] = WaitFor(r) /\ pc[r] = "written"
      BY <2>1 DEF AcquireCommit, TypeOK
    <3>. QED BY <1>1, <3>1, CommitWaits DEF EndsBy
  <2>2. CASE RenewAnswered(r) /\ Renewable(r, stamp[r])
    <3>1. pc[r] \in Owning /\ waitUntil[r] <= Clock(r) /\ row.owner = r
      BY <2>2 DEF RenewAnswered, Renewable, ForceInv, Waited, Owning, Serving
    <3>. QED BY <1>1, <3>1, OwnerAlone
  <2>. QED BY <1>1, <2>1, <2>2
<1>2. ~(Granted(p) /\ Granted(q))
  BY GrantOwns
<1>3. Same(p) /\ Same(q) => After(p, q) \/ After(q, p)
  BY DEF ForceInv, OneOfTwo, WaitsFor, EndsBy
<1>4. (Same(p) \/ Granted(p)) /\ (Same(q) \/ Granted(q))
  BY UsableMoves
<1>. QED BY <1>1, <1>2, <1>3, <1>4

LEMMA WaitedStep ==
  ASSUME TypeOK, Waited, [Next]_vars, now' \in {now, now + 1}
  PROVE  Waited'
<1>. SUFFICES ASSUME NEW p \in Process, pc'[p] \in Serving
              PROVE  waitUntil'[p] <= Clock(p)'
  BY DEF Waited
<1>1. waitUntil[p] <= Clock(p)
  BY PcMoves DEF Waited, Serving, BeginServing, TickerFires, RetryStart, RenewAnswered,
    RenewFails, StopRenewal
<1>2. waitUntil'[p] = waitUntil[p]
  BY LeaseMoves DEF Serving, RenewAnswered, AcquireCommit, Goto, TypeOK
<1>. QED BY <1>1, <1>2, Numbers DEF Clock

LEMMA ReleaseAloneStep ==
  ASSUME TypeOK, dialect = "sqlite", RowInv, ForceInv, [Next]_vars
  PROVE  ReleaseAlone'
<1>. SUFFICES ASSUME NEW p \in Process, NEW q \in Process, p # q, pc'[p] = "releasing",
                     row'.owner = p, Usable(q)'
              PROVE  FALSE
  BY DEF ReleaseAlone
<1>. late = {}
  BY DEF ForceInv
<1>1. Usable(q)
  BY UsableMoves, GrantOwns
<1>2. pc[p] = "releasing" \/ (pc[p] \in Owning /\ waitUntil[p] <= Clock(p))
  BY PcMoves DEF ForceInv, Waited, Owning, Serving, StartFails, Drained
<1>3. row.owner = p
  <2>1. ASSUME NEW r \in Process, pc[r] = "written", row' = LockValue(r, stamp[r])
        PROVE  FALSE
    BY <1>2, <2>1, LockValueType DEF Owning, Serving, TypeOK
  <2>2. ASSUME NEW r \in Process, Renewable(r, stamp[r]), row' = LockValue(r, stamp[r])
        PROVE  row.owner = p
    BY <2>2, LockValueType DEF Renewable, TypeOK
  <2>. QED BY <2>1, <2>2, SqliteStep, ProcessAssumption DEF NoRow
<1>. QED BY <1>1, <1>2, <1>3, OwnerAlone DEF ForceInv, ReleaseAlone

LEMMA ForceStep ==
  ASSUME TypeInv, RowInv, ForceInv, dialect = "sqlite", [Next]_vars
  PROVE  dialect' = "sqlite" /\ ForceInv'
<1>1. TypeOK /\ TypeOK' /\ late = {}
  BY TypeStep DEF TypeInv, ForceInv
<1>2. dialect' = "sqlite" /\ late' = {} /\ now' \in {now, now + 1}
  BY <1>1, SqliteStep
<1>3. HoldsLock' /\ NewId' /\ LeaseSpan' /\ Waited'
  BY <1>1, <1>2, HoldsLockStep, NewIdStep, LeaseSpanStep, WaitedStep DEF ForceInv, RowInv
<1>4. RowLasts' /\ StampLasts' /\ OwnerWaits' /\ OneOfTwo' /\ ReleaseAlone'
  BY <1>1, RowLastsStep, StampLastsStep, OwnerWaitsStep, OneOfTwoStep, ReleaseAloneStep
<1>. QED BY <1>2, <1>3, <1>4 DEF ForceInv

LEMMA ForceCorrect ==
  Spec => [](TypeInv /\ RowInv /\ (dialect = "sqlite" => ForceInv))
<1>. DEFINE Inv == dialect = "sqlite" => ForceInv
<1>1. Init => Inv
  <2>. SUFFICES ASSUME Init PROVE ForceInv
    OBVIOUS
  <2>1. \A p \in Process : pc[p] = "boot" /\ lease[p] = -1 /\ row.owner # p
    BY ProcessAssumption DEF Init, NoLease, NoRow
  <2>2. \A p \in Process : Clock(p) \in Nat
    BY TypeInit, ClockType DEF TypeInv
  <2>3. LeaseSpan /\ \A p \in Process : ~Usable(p)
    BY <2>1, <2>2, SkewAssumption, DurationAssumption DEF LeaseSpan, Usable
  <2>. QED
    BY <2>1, <2>3 DEF Init, ForceInv, HoldsLock, NewId, RowLasts, StampLasts, OwnerWaits,
      OneOfTwo, Waited, ReleaseAlone, InTransaction, Owning, Serving, NoLease
<1>2. dialect' = dialect \/ ~[Next]_vars
  BY DEF Next, Step, Crash, Cancel, Advance, vars, LateExecutes, LateIsLost, AcquireSelect,
    AcquireStamp, AcquireUpsert, AcquireCommit, AcquireRefused, AcquireFail, BeginServing,
    AbandonWait, StartFails, TickerFires, RenewAnswered, RenewFails, RetryStart,
    StopRenewal, Drained, Release
<1>3. TypeInv /\ RowInv /\ Inv /\ [Next]_vars => Inv'
  BY <1>2, ForceStep
<1>. HIDE DEF Inv
<1>4. Spec => []Inv
  BY <1>1, <1>3, RowCorrect, PTL DEF Spec
<1>. QED BY <1>4, RowCorrect, PTL DEF Inv

\* On SQLite two processes never hold a valid lease at the same time, whoever
\* passes force and whichever answers get lost.
THEOREM ForcedExclusionTheorem == Spec => []ForcedExclusion
<1>1. TypeInv /\ (dialect = "sqlite" => ForceInv) => ForcedExclusion
  <2>. SUFFICES ASSUME TypeOK, ForceInv, NEW p \in Process, NEW q \in Process, p # q,
                       Valid(p), Valid(q)
                PROVE  FALSE
    BY DEF TypeInv, ForcedExclusion, LeaseExclusion
  <2>1. Usable(p) /\ Usable(q)
    BY DEF Valid, Usable
  <2>2. WaitsFor(p, q) \/ WaitsFor(q, p)
    BY <2>1 DEF ForceInv, OneOfTwo
  <2>. QED BY <2>2, Numbers DEF WaitsFor, EndsBy, Valid, Clock
<1>. QED BY <1>1, ForceCorrect, PTL

\* A lease until t, from f on, is granted to p if every other one that can be
\* acted on is waited for.
LEMMA ForcedGrant ==
  ASSUME TypeOK, NEW p \in Process, NEW t \in Nat, NEW f \in Nat, t <= Clock(p) + TTL,
         \A q \in Process \ {p} : Usable(q) => EndsBy(q, p, f + MaxSkew),
         now' = now, lease' = [lease EXCEPT ![p] = t],
         waitUntil' = [waitUntil EXCEPT ![p] = f]
  PROVE  Lease!Grant(p)
<1>1. lease'[p] = t /\ waitUntil'[p] = f
  BY DEF TypeOK
<1>2. lease' = [lease EXCEPT ![p] = lease'[p]] /\ waitUntil' = [waitUntil EXCEPT ![p] = waitUntil'[p]]
  BY <1>1
<1>3. lease'[p] \in 0..(Lease!Clock(p) + TTL) /\ waitUntil'[p] \in Nat
  BY <1>1, ClockType, DurationAssumption DEF Lease!Clock, Clock
<1>4. ASSUME NEW q \in Process \ {p}
      PROVE  Lease!StartOf(p, waitUntil'[p]) + Skew[q] + MaxSkew >= lease[q]
  <2>1. CASE ~Usable(q)
    BY <1>1, <2>1, Numbers DEF Usable, Clock, Lease!StartOf, Lease!Clock
  <2>2. CASE Usable(q)
    BY <1>1, <2>2, Numbers DEF EndsBy, Lease!StartOf, Lease!Clock
  <2>. QED BY <2>1, <2>2
<1>. QED BY <1>2, <1>3, <1>4 DEF Lease!Grant

LEMMA ForcedStepRefines ==
  ASSUME TypeOK, RowInv, ForceInv, dialect = "sqlite", [Next]_vars
  PROVE  [Lease!Next]_(Lease!vars)
<1>. USE DEF Lease!vars
<1>1. CASE Advance
  BY <1>1 DEF Advance, Lease!Next, Lease!Advance, leaseVars
<1>2. ASSUME NEW p \in Process, AcquireCommit(p)
      PROVE  Lease!Grant(p)
  <2>1. WaitFor(p) \in Nat
    BY Numbers DEF WaitFor
  <2>2. stamp[p] + TTL \in Nat /\ stamp[p] + TTL <= Clock(p) + TTL
    BY Numbers, ClockType DEF RowInv, StampPast
  <2>3. \A q \in Process \ {p} : Usable(q) => EndsBy(q, p, WaitFor(p) + MaxSkew)
    BY <1>2, CommitWaits DEF AcquireCommit
  <2>. QED BY <1>2, <2>1, <2>2, <2>3, ForcedGrant DEF AcquireCommit
<1>3. ASSUME NEW p \in Process, RenewAnswered(p), Renewable(p, stamp[p])
      PROVE  Lease!Grant(p)
  <2>1. stamp[p] + TTL \in Nat /\ stamp[p] + TTL <= Clock(p) + TTL
    BY Numbers, ClockType DEF RowInv, StampPast
  <2>2. \A q \in Process \ {p} : ~Usable(q)
    BY <1>3, OwnerAlone DEF RenewAnswered, Renewable, ForceInv, Waited, Owning, Serving
  <2>3. waitUntil' = [waitUntil EXCEPT ![p] = waitUntil[p]] /\ waitUntil[p] \in Nat
    BY <1>3 DEF RenewAnswered, TypeOK
  <2>. QED BY <1>3, <2>1, <2>2, <2>3, ForcedGrant DEF RenewAnswered
<1>4. ASSUME NEW p \in Process, RenewAnswered(p), ~Renewable(p, stamp[p])
      PROVE  UNCHANGED <<now, lease, waitUntil>>
  BY <1>4 DEF RenewAnswered
<1>5. ASSUME NEW p \in Process,
             \/ AcquireRefused(p) \/ AcquireFail(p) \/ AbandonWait(p) \/ StartFails(p)
             \/ Drained(p) \/ Release(p) \/ Crash(p)
      PROVE  Lease!Drop(p)
  BY <1>5, LeaseDropped
<1>6. ASSUME NEW p \in Process,
             \/ AcquireSelect(p) \/ AcquireStamp(p) \/ AcquireUpsert(p) \/ BeginServing(p)
             \/ TickerFires(p) \/ RenewFails(p) \/ RetryStart(p) \/ StopRenewal(p)
             \/ Cancel(p)
      PROVE  UNCHANGED <<now, lease, waitUntil>>
  BY <1>6, LeaseKept
<1>7. CASE UNCHANGED vars \/ \E s \in late : LateExecutes(s) \/ LateIsLost(s)
  BY <1>7 DEF vars, LateExecutes, LateIsLost, leaseVars
<1>. QED
  BY <1>1, <1>2, <1>3, <1>4, <1>5, <1>6, <1>7 DEF Next, Step, Lease!Next

\* On SQLite the lock implements AppLease also if callers pass force, since
\* whoever takes a lease over is told to wait until it has ended.
THEOREM ForcedLeaseTheorem == dialect = "sqlite" /\ Spec => LeaseSpec
<1>1. Init => Lease!Init
  BY DEF Init, Lease!Init, Lease!NoLease, NoLease
<1>2. TypeInv /\ RowInv /\ (dialect = "sqlite" => ForceInv) /\ dialect = "sqlite"
        /\ [Next]_vars => (dialect = "sqlite")'
  BY ForceStep
<1>3. TypeInv /\ RowInv /\ (dialect = "sqlite" => ForceInv) /\ dialect = "sqlite"
        /\ [Next]_vars => [Lease!Next]_(Lease!vars)
  BY ForcedStepRefines DEF TypeInv
<1>. QED
  BY <1>1, <1>2, <1>3, ForceCorrect, PTL DEF Spec, LeaseSpec, Lease!Spec
=============================================================================
