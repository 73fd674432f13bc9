-------------------------- MODULE MigrationProofs --------------------------
(***************************************************************************)
(* Proofs about the migration of the database, for any number of processes *)
(* of any releases, on both databases, with failures and restarts.         *)
(***************************************************************************)
EXTENDS Migration, TLAPS

-----------------------------------------------------------------------------
(* Types, and the direction in which a process migrates.                   *)

Migrating == {"mark", "body", "written"}

\* A migration has somewhere to go, and goes up unless a downgrade is allowed.
Direction ==
  \A p \in Process :
    /\ pc[p] \in Migrating => current[p] # Required[p]
    /\ p \notin allowDowngrade =>
         /\ pc[p] # "force"
         /\ pc[p] \in {"migrate"} \cup Migrating => current[p] <= Required[p]

TypeInv == TypeOK /\ Direction

LEMMA TypeInit == Init => TypeInv
<1> SUFFICES ASSUME Init PROVE TypeInv
  OBVIOUS
<1>1. TypeOK
  <2>1. 0 \in Version
    BY MigrationAssumption DEF Version
  <2> QED
    BY <2>1 DEF Init, TypeOK, State
<1>2. Direction
  BY DEF Init, Direction, Migrating
<1> QED
  BY <1>1, <1>2 DEF TypeInv

\* The version that a migration leads to is one.
LEMMA TargetType ==
  ASSUME TypeInv, NEW p \in Process, pc[p] \in Migrating
  PROVE  /\ Target(p) \in Version
         /\ current[p] < Required[p] => Target(p) = current[p] + 1
         /\ current[p] > Required[p] => Target(p) = current[p] - 1
<1>1. /\ current[p] \in Version /\ Required[p] \in Version
      /\ current[p] # Required[p]
  BY MigrationAssumption DEF TypeInv, TypeOK, Direction
<1> QED
  BY <1>1, MigrationAssumption DEF Target, Version

LEMMA TypeStep == TypeInv /\ [Next]_vars => TypeInv'
<1> SUFFICES ASSUME TypeInv, [Next]_vars
             PROVE  TypeInv'
  OBVIOUS
<1> USE MigrationAssumption DEF TypeInv, settings, database
<1>1. ASSUME NEW p \in Process, ReadVersion(p)
      PROVE  TypeInv'
  <2>1. TypeOK'
    BY <1>1 DEF ReadVersion, Goto, TypeOK, State, Version
  <2>2. Direction'
    BY <1>1 DEF ReadVersion, Goto, TypeOK, Direction, Migrating, Version
  <2> QED
    BY <2>1, <2>2
<1>2. ASSUME NEW p \in Process, ForceVersion(p)
      PROVE  TypeInv'
  <2>1. TypeOK'
    BY <1>2 DEF ForceVersion, Goto, TypeOK, State
  <2>2. Direction'
    BY <1>2 DEF ForceVersion, Goto, TypeOK, Direction, Migrating
  <2> QED
    BY <2>1, <2>2
<1>3. ASSUME NEW p \in Process, Migrate(p)
      PROVE  TypeInv'
  <2>1. TypeOK'
    BY <1>3 DEF Migrate, Goto, TypeOK, State
  <2>2. pc'[p] = "mark" => /\ recorded # Required[p]
                           /\ p \notin allowDowngrade => recorded <= Required[p]
    BY <1>3 DEF Migrate, Goto, TypeOK, Direction, Migrating, InSource, Version
  <2>3. /\ pc'[p] \in {"mark", "ready", "failed"} /\ current'[p] = recorded
        /\ UNCHANGED allowDowngrade
        /\ \A q \in Process : q # p => pc'[q] = pc[q] /\ current'[q] = current[q]
    BY <1>3 DEF Migrate, Goto, TypeOK
  <2>4. Direction'
    BY <2>2, <2>3 DEF Direction, Migrating
  <2> QED
    BY <2>1, <2>4
<1>4. ASSUME NEW p \in Process, Mark(p)
      PROVE  TypeInv'
  <2>1. TypeOK'
    BY <1>4, TargetType DEF Mark, Goto, TypeOK, State, Migrating
  <2>2. Direction'
    BY <1>4 DEF Mark, Goto, TypeOK, Direction, Migrating
  <2> QED
    BY <2>1, <2>2
<1>5. ASSUME NEW p \in Process, Body(p)
      PROVE  TypeInv'
  <2>1. TypeOK'
    BY <1>5, TargetType DEF Body, Unlock, Goto, TypeOK, State, Migrating
  <2>2. Direction'
    BY <1>5 DEF Body, Goto, TypeOK, Direction, Migrating
  <2> QED
    BY <2>1, <2>2
<1>6. ASSUME NEW p \in Process, Clean(p)
      PROVE  TypeInv'
  <2>1. Target(p) \in Version
    BY <1>6, TargetType DEF Clean, Migrating
  <2>2. TypeOK'
    BY <1>6, <2>1 DEF Clean, Unlock, Goto, TypeOK, State
  <2>3. p \notin allowDowngrade => Target(p) <= Required[p]
    BY <1>6, TargetType DEF Clean, TypeOK, Direction, Migrating, Version
  <2>4. /\ pc'[p] \in {"mark", "ready"} /\ current'[p] = Target(p)
        /\ pc'[p] = "mark" => Target(p) # Required[p]
        /\ UNCHANGED allowDowngrade
        /\ \A q \in Process : q # p => pc'[q] = pc[q] /\ current'[q] = current[q]
    BY <1>6 DEF Clean, Goto, TypeOK
  <2>5. Direction'
    BY <2>3, <2>4 DEF Direction, Migrating
  <2> QED
    BY <2>2, <2>5
<1>7. ASSUME NEW p \in Process, Stop(p) \/ Restart(p)
      PROVE  TypeInv'
  <2>1. TypeOK'
    BY <1>7 DEF Stop, Restart, Unlock, Goto, TypeOK, State, Active
  <2>2. Direction'
    BY <1>7 DEF Stop, Restart, Goto, TypeOK, Direction, Migrating
  <2> QED
    BY <2>1, <2>2
<1>8. CASE UNCHANGED vars
  BY <1>8 DEF vars, TypeOK, Direction
<1> QED
  BY <1>1, <1>2, <1>3, <1>4, <1>5, <1>6, <1>7, <1>8 DEF Next, Step

\* Every variable of the migration keeps its type.
THEOREM TypeCorrect == Spec => []TypeOK
<1>1. TypeInv => TypeOK
  BY DEF TypeInv
<1> QED
  BY <1>1, TypeInit, TypeStep, PTL DEF Spec

-----------------------------------------------------------------------------
(* Without a downgrade, on both databases.                                 *)

\* Only the migration that has changed the tables can end cleanly: its rivals
\* started from an older schema, on which theirs was written, and will fail.
Rival(p, q) == p # q => /\ pc[q] # "written"
                        /\ pc[q] \in {"mark", "body"} => current[q] < schema

UpInv ==
  /\ Consistent
  /\ \A p \in Process :
       /\ pc[p] \in {"mark", "body"} => current[p] <= schema
       /\ pc[p] = "body" /\ current[p] = schema => dirty
       /\ pc[p] = "written" => /\ schema = current[p] + 1 /\ dirty
                               /\ \A q \in Process : Rival(p, q)
       /\ pc[p] = "ready" => schema >= Required[p]

Upward == allowDowngrade = {} => UpInv

LEMMA UpInit == Init => Upward
BY DEF Init, Upward, UpInv, Consistent

LEMMA UpStep == TypeInv /\ Upward /\ [Next]_vars => Upward'
<1> SUFFICES ASSUME TypeInv, TypeInv', UpInv, [Next]_vars, allowDowngrade = {},
                    allowDowngrade' = {}
             PROVE  UpInv'
  <2>1. [Next]_vars => allowDowngrade' = allowDowngrade
    BY DEF Next, Step, vars, settings, ReadVersion, ForceVersion, Migrate, Mark, Body, Clean,
      Stop, Restart
  <2> QED
    BY <2>1, TypeStep DEF Upward
<1> USE MigrationAssumption DEF settings, database
<1>t. /\ schema \in Nat /\ recorded \in Nat /\ dirty \in BOOLEAN
      /\ \A p \in Process : current[p] \in Nat /\ Required[p] \in Nat
  BY DEF TypeInv, TypeOK, Version
<1>1. ASSUME NEW p \in Process,
             ReadVersion(p) \/ ForceVersion(p) \/ Stop(p) \/ Restart(p)
      PROVE  UpInv'
  <2>1. ~ForceVersion(p)
    BY DEF ForceVersion, TypeInv, Direction
  <2>2. /\ UNCHANGED <<schema, recorded, dirty>>
        /\ pc'[p] \in {"start", "migrate", "force", "failed"}
        /\ \A q \in Process : q # p => pc'[q] = pc[q] /\ current'[q] = current[q]
    BY <1>1, <2>1 DEF ReadVersion, Stop, Restart, Goto, TypeInv, TypeOK
  <2> QED
    BY <2>2 DEF UpInv, Consistent, Rival
<1>2. ASSUME NEW p \in Process, Migrate(p)
      PROVE  UpInv'
  <2>1. /\ UNCHANGED <<schema, recorded, dirty>>
        /\ pc'[p] \in {"mark", "ready", "failed"} /\ current'[p] = recorded
        /\ pc'[p] \in {"mark", "ready"} => ~dirty
        /\ pc'[p] = "ready" => recorded = Required[p]
        /\ \A q \in Process : q # p => pc'[q] = pc[q] /\ current'[q] = current[q]
    BY <1>2 DEF Migrate, Goto, TypeInv, TypeOK
  <2>2. pc'[p] \in {"mark", "ready"} =>
          recorded = schema /\ \A q \in Process : pc[q] # "written"
    BY <2>1 DEF UpInv, Consistent
  <2> QED
    BY <1>t, <2>1, <2>2 DEF UpInv, Consistent, Rival
<1>3. ASSUME NEW p \in Process, Mark(p)
      PROVE  UpInv'
  <2>1. /\ UNCHANGED <<schema, current>> /\ dirty'
        /\ pc[p] = "mark" /\ pc'[p] = "body"
        /\ \A q \in Process : q # p => pc'[q] = pc[q]
    BY <1>3 DEF Mark, Goto, TypeInv, TypeOK
  <2> QED
    BY <1>t, <2>1 DEF UpInv, Consistent, Rival
<1>4. ASSUME NEW p \in Process, Body(p)
      PROVE  UpInv'
  <2>1. /\ UNCHANGED <<recorded, dirty, current>> /\ pc[p] = "body"
        /\ \A q \in Process : q # p => pc'[q] = pc[q]
    BY <1>4 DEF Body, Goto, TypeInv, TypeOK
  <2>a. current[p] < Required[p] /\ ~Empty(p)
    BY <1>t, <2>1 DEF TypeInv, Direction, Migrating, Empty, Up
  <2>2. CASE ~Executes(p)
    <3>1. pc'[p] = "failed" /\ schema' = schema
      BY <1>4, <2>a, <2>2 DEF Body, Goto, TypeInv, TypeOK
    <3> QED
      BY <2>1, <3>1 DEF UpInv, Consistent, Rival
  <2>3. CASE Executes(p)
    <3>1. schema = current[p]
      BY <2>3 DEF Executes
    <3>2. pc'[p] = "written" /\ schema' = schema + 1
      BY <1>4, <1>t, <2>1, <2>3, <2>a, <3>1 DEF Body, Goto, Target, TypeInv, TypeOK
    <3>3. dirty /\ \A q \in Process : pc[q] # "written"
      BY <1>t, <2>1, <3>1 DEF UpInv, Rival
    <3> QED
      BY <1>t, <2>1, <3>1, <3>2, <3>3 DEF UpInv, Consistent, Rival
  <2> QED
    BY <2>2, <2>3
<1>5. ASSUME NEW p \in Process, Clean(p)
      PROVE  UpInv'
  <2>1. pc[p] = "written" /\ current[p] < Required[p]
    BY <1>5, <1>t DEF Clean, TypeInv, Direction, Migrating
  <2>2. Target(p) = current[p] + 1
    BY <2>1 DEF Target
  <2>3. schema = Target(p) /\ \A q \in Process : Rival(p, q)
    BY <2>1, <2>2 DEF UpInv
  <2>4. /\ UNCHANGED schema /\ recorded' = schema
        /\ pc'[p] \in {"mark", "ready"} /\ current'[p] = schema
        /\ pc'[p] = "ready" => schema = Required[p]
        /\ \A q \in Process : q # p => pc'[q] = pc[q] /\ current'[q] = current[q]
    BY <1>5, <2>3 DEF Clean, Goto, TypeInv, TypeOK
  <2> QED
    BY <1>t, <2>3, <2>4 DEF UpInv, Consistent, Rival
<1>6. CASE UNCHANGED vars
  BY <1>6 DEF vars, UpInv, Consistent, Rival
<1> QED
  BY <1>1, <1>2, <1>3, <1>4, <1>5, <1>6 DEF Next, Step

\* Without a downgrade a clean version is the version of the tables, on SQLite
\* too, for any number of processes that start, stop and restart at any time.
THEOREM RecordedIsSchemaTheorem == Spec => []RecordedIsSchema
<1>1. Upward => RecordedIsSchema
  BY DEF Upward, UpInv, RecordedIsSchema
<1> QED
  BY <1>1, TypeInit, TypeStep, UpInit, UpStep, PTL DEF Spec

\* Without a downgrade no running process loses the tables that it requires.
THEOREM ReadyIsCoveredTheorem == Spec => []ReadyIsCovered
<1>1. Upward => ReadyIsCovered
  BY DEF Upward, UpInv, ReadyIsCovered
<1> QED
  BY <1>1, TypeInit, TypeStep, UpInit, UpStep, PTL DEF Spec

-----------------------------------------------------------------------------
(* Going back by one release, on PostgreSQL.                               *)

\* A file that the database refused has left its version dirty.
Stuck == dirty /\ <<dbProvider, recorded>> \in Refused

\* A process that migrates holds the advisory lock and knows the tables; while
\* none does, the record is true or dirty for ever; and a process that is about to
\* force the newest version will find that no other one can be recorded meanwhile.
LoneInv ==
  /\ \A p \in Process :
       /\ pc[p] \in Migrating => advisoryLock = p
       /\ pc[p] = "mark" => ~dirty /\ recorded = schema /\ current[p] = schema
       /\ pc[p] = "body" => dirty /\ recorded = Target(p) /\ current[p] = schema
       /\ pc[p] = "written" => dirty /\ recorded = Target(p) /\ schema = Target(p)
       /\ pc[p] = "force" => /\ recorded = MaxVersion /\ current[p] = MaxVersion
                             /\ Required[p] < MaxVersion
  /\ (\A p \in Process : pc[p] \notin Migrating) =>
       (~dirty /\ recorded = schema) \/ Stuck

LoneOk == Lone /\ ~disturbed => LoneInv

LEMMA LoneInit == Init => LoneOk
BY DEF Init, LoneOk, LoneInv, Migrating

LEMMA LoneStep == TypeInv /\ LoneOk /\ [Next]_vars => LoneOk'
<1> SUFFICES ASSUME TypeInv, TypeInv', LoneInv, [Next]_vars, Lone, ~disturbed'
             PROVE  LoneInv'
  <2>1. [Next]_vars => /\ UNCHANGED settings
                       /\ disturbed' = disturbed \/ disturbed' = TRUE
    BY DEF Next, Step, vars, ReadVersion, ForceVersion, Migrate, Mark, Body, Clean,
      Stop, Restart
  <2>2. UNCHANGED settings => Lone' = Lone
    BY DEF Lone, settings
  <2>3. TypeInv => disturbed \in BOOLEAN
    BY DEF TypeInv, TypeOK
  <2> QED
    BY <2>1, <2>2, <2>3, TypeStep DEF LoneOk, TypeInv, TypeOK
<1> USE MigrationAssumption DEF settings, database
<1>t. /\ schema \in Nat /\ recorded \in Nat /\ dirty \in BOOLEAN
      /\ \A p \in Process : /\ current[p] \in Nat /\ Required[p] \in Nat
                            /\ Required[p] <= MaxVersion /\ p # NoProcess
      /\ recorded <= MaxVersion /\ MaxVersion \in Nat
  BY DEF TypeInv, TypeOK, Version
<1>1. ASSUME NEW p \in Process, ReadVersion(p)
      PROVE  LoneInv'
  <2>1. /\ UNCHANGED <<schema, recorded, dirty, advisoryLock>>
        /\ pc[p] = "start" /\ pc'[p] \in {"migrate", "force", "failed"}
        /\ pc'[p] = "force" => /\ p \in allowDowngrade /\ recorded > Required[p]
                               /\ current'[p] = recorded
        /\ \A q \in Process : q # p => pc'[q] = pc[q] /\ current'[q] = current[q]
    BY <1>1, <1>t DEF ReadVersion, Goto, TypeInv, TypeOK
  <2>2. pc'[p] = "force" => recorded = MaxVersion /\ Required[p] < MaxVersion
    BY <1>t, <2>1 DEF Lone
  <2>3. Stuck' = Stuck
    BY <1>1, <2>1 DEF Stuck, ReadVersion
  <2> QED
    BY <2>1, <2>2, <2>3 DEF LoneInv, Migrating, Target
<1>2. ASSUME NEW p \in Process, ForceVersion(p)
      PROVE  LoneInv'
  <2>1. /\ advisoryLock = NoProcess /\ recorded' = current[p] /\ ~dirty'
        /\ pc[p] = "force" /\ pc'[p] = "migrate"
        /\ UNCHANGED <<schema, advisoryLock, current>>
        /\ \A q \in Process : q # p => pc'[q] = pc[q]
    BY <1>2 DEF ForceVersion, Lockable, Lone, Goto, TypeInv, TypeOK
  <2>2. \A q \in Process : pc[q] \notin Migrating
    BY <1>t, <2>1 DEF LoneInv
  <2>a. ~Stuck
    <3>1. /\ recorded = MaxVersion /\ Required[p] < MaxVersion /\ MaxVersion \in Version
          /\ p \in allowDowngrade
      BY <1>t, <2>1 DEF LoneInv, TypeInv, Direction, Version
    <3> QED
      BY <3>1 DEF Stuck, Lone
  <2>3. recorded' = recorded /\ ~dirty /\ recorded = schema
    BY <2>1, <2>2, <2>a DEF LoneInv
  <2> QED
    BY <2>1, <2>2, <2>3 DEF LoneInv, Migrating
<1>3. ASSUME NEW p \in Process, Migrate(p)
      PROVE  LoneInv'
  <2>1. /\ advisoryLock = NoProcess /\ pc[p] = "migrate"
        /\ pc'[p] \in {"mark", "ready", "failed"} /\ current'[p] = recorded
        /\ pc'[p] = "mark" => advisoryLock' = p
        /\ UNCHANGED <<schema, recorded, dirty>>
        /\ \A q \in Process : q # p => pc'[q] = pc[q] /\ current'[q] = current[q]
    BY <1>3 DEF Migrate, Lockable, Lone, Goto, TypeInv, TypeOK
  <2>2. \A q \in Process : pc[q] \notin Migrating
    BY <1>t, <2>1 DEF LoneInv
  <2>3. (~dirty /\ recorded = schema) \/ Stuck
    BY <2>2 DEF LoneInv
  <2>4. Stuck' = Stuck /\ (pc'[p] = "mark" => ~dirty)
    BY <1>3, <2>1 DEF Stuck, Migrate, Goto, TypeInv, TypeOK
  <2>5. dirty \/ recorded = schema
    BY <2>3 DEF Stuck
  <2> QED
    BY <2>1, <2>2, <2>3, <2>4, <2>5 DEF LoneInv, Migrating
<1>4. ASSUME NEW p \in Process, Mark(p)
      PROVE  LoneInv'
  <2>1. /\ pc[p] = "mark" /\ pc'[p] = "body" /\ recorded' = Target(p) /\ dirty'
        /\ UNCHANGED <<schema, advisoryLock, current>>
        /\ \A q \in Process : q # p => pc'[q] = pc[q]
    BY <1>4 DEF Mark, Goto, TypeInv, TypeOK
  <2>2. \A q \in Process : q # p => pc[q] \notin Migrating
    BY <2>1 DEF LoneInv, Migrating
  <2>3. \A q \in Process : q # p => pc[q] # "force"
    <3> SUFFICES ASSUME NEW q \in Process, q # p, pc[q] = "force"
                 PROVE  FALSE
      OBVIOUS
    <3>1. q \in allowDowngrade /\ p \notin allowDowngrade
      BY DEF TypeInv, Direction, Lone
    <3>2. current[p] < Required[p]
      BY <1>t, <2>1, <3>1 DEF TypeInv, Direction, Migrating
    <3>3. current[p] = MaxVersion
      BY <2>1 DEF LoneInv
    <3> QED
      BY <1>t, <3>2, <3>3
  <2> QED
    BY <2>1, <2>2, <2>3 DEF LoneInv, Migrating, Target
<1>5. ASSUME NEW p \in Process, Body(p)
      PROVE  LoneInv'
  <2>1. pc[p] = "body" /\ schema = current[p] /\ recorded = Target(p) /\ dirty
    BY <1>5 DEF Body, LoneInv
  <2>2. \A q \in Process : q # p => pc[q] \notin Migrating
    BY <2>1 DEF LoneInv, Migrating
  <2>3. ~Empty(p)
    <3> SUFFICES ASSUME ~Up(p), <<dbProvider, current[p]>> \in NoDown
                 PROVE  FALSE
      BY DEF Empty
    <3>1. current[p] > Required[p] /\ current[p] \in Version
      BY <1>t, <2>1 DEF Up, TypeInv, TypeOK, Direction, Migrating
    <3>2. p \in allowDowngrade
      BY <1>t, <2>1, <3>1 DEF TypeInv, Direction, Migrating
    <3> QED
      BY <3>1, <3>2 DEF Lone
  <2>4. CASE Executes(p)
    <3>1. /\ pc'[p] = "written" /\ schema' = Target(p)
          /\ UNCHANGED <<recorded, dirty, advisoryLock, current>>
          /\ \A q \in Process : q # p => pc'[q] = pc[q]
      BY <1>5, <2>1, <2>3, <2>4 DEF Body, Goto, TypeInv, TypeOK
    <3> QED
      BY <2>1, <2>2, <3>1 DEF LoneInv, Migrating, Target
  <2>5. CASE ~Executes(p)
    <3>1. /\ pc'[p] = "failed"
          /\ UNCHANGED <<schema, recorded, dirty, current, dbProvider>>
          /\ \A q \in Process : q # p => pc'[q] = pc[q]
      BY <1>5, <2>1, <2>3, <2>5 DEF Body, Goto, TypeInv, TypeOK
    <3>2. Stuck'
      BY <2>1, <2>5, <3>1 DEF Stuck, Executes
    <3> QED
      BY <2>1, <2>2, <3>1, <3>2 DEF LoneInv, Migrating, Target
  <2> QED
    BY <2>4, <2>5
<1>6. ASSUME NEW p \in Process, Clean(p)
      PROVE  LoneInv'
  <2>1. /\ pc[p] = "written" /\ recorded = Target(p) /\ schema = Target(p)
        /\ advisoryLock = p
    BY <1>6 DEF Clean, LoneInv, Migrating
  <2>2. /\ pc'[p] \in {"mark", "ready"} /\ current'[p] = schema
        /\ recorded' = recorded /\ ~dirty' /\ UNCHANGED schema
        /\ pc'[p] = "mark" => advisoryLock' = p
        /\ \A q \in Process : q # p => pc'[q] = pc[q] /\ current'[q] = current[q]
    BY <1>6, <2>1 DEF Clean, Goto, TypeInv, TypeOK
  <2>3. \A q \in Process : q # p => pc[q] \notin Migrating
    BY <2>1 DEF LoneInv, Migrating
  <2> QED
    BY <2>1, <2>2, <2>3 DEF LoneInv, Migrating
<1>7. ASSUME NEW p \in Process, Stop(p) \/ Restart(p)
      PROVE  LoneInv'
  <2>1. ~Stop(p)
    BY DEF Stop
  <2>2. /\ UNCHANGED <<schema, recorded, dirty, advisoryLock, current>>
        /\ pc[p] \in {"ready", "failed"} /\ pc'[p] = "start"
        /\ \A q \in Process : q # p => pc'[q] = pc[q]
    BY <1>7, <2>1 DEF Restart, Goto, TypeInv, TypeOK
  <2>3. Stuck' = Stuck
    BY <1>7, <2>1, <2>2 DEF Stuck, Restart
  <2> QED
    BY <2>2, <2>3 DEF LoneInv, Migrating, Target
<1>8. CASE UNCHANGED vars
  BY <1>8 DEF vars, LoneInv, Migrating, Target, Stuck
<1> QED
  BY <1>1, <1>2, <1>3, <1>4, <1>5, <1>6, <1>7, <1>8 DEF Next, Step

\* On PostgreSQL one process that goes back by one release keeps the record of
\* the version true, for any number of processes that migrate up meanwhile, also
\* where a file fails of a version that it does not go back from.
THEOREM LoneDowngradeTheorem == Spec => []LoneDowngrade
<1>1. LoneOk => LoneDowngrade
  <2> SUFFICES ASSUME LoneInv PROVE Consistent
    BY DEF LoneOk, LoneDowngrade
  <2>1. CASE \A p \in Process : pc[p] \notin Migrating
    BY <2>1 DEF LoneInv, Consistent, Stuck
  <2>2. ASSUME NEW p \in Process, pc[p] \in Migrating
        PROVE  Consistent
    BY <2>2 DEF LoneInv, Consistent, Migrating
  <2> QED
    BY <2>1, <2>2
<1> QED
  BY <1>1, TypeInit, TypeStep, LoneInit, LoneStep, PTL DEF Spec
=============================================================================
