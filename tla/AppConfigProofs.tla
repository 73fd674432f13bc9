-------------------------- MODULE AppConfigProofs --------------------------
(***************************************************************************)
(* Proofs about the application configuration, for every set of keys,      *)
(* values, processes and concurrent updates, with the UI configuration     *)
(* disabled in some processes and enabled in others, and although commits  *)
(* may go unanswered.                                                      *)
(***************************************************************************)
EXTENDS AppConfig, TLAPS

-----------------------------------------------------------------------------
(* Lemmas about the operators.                                             *)

\* What is loaded from a table is a configuration.
LEMMA LoadedType ==
  ASSUME NEW p \in Process, NEW t \in Table
  PROVE  Loaded(p, t) \in Config
BY DatumAssumption, KeyAssumption DEF Loaded, Table, Config, Datum, UiKey

\* An update of a configuration is one, and an upsert of a table is one.
LEMMA AppliedType ==
  ASSUME NEW c \in Config, NEW in \in Input
  PROVE  Applied(c, in) \in Config
BY DatumAssumption DEF Applied, Config, Input

LEMMA UpsertedType ==
  ASSUME NEW t \in Table, NEW in \in Input
  PROVE  Upserted(t, in) \in Table
BY DEF Upserted, Table, Input

\* The configuration computed in memory and the rows written to the table
\* agree, if only the instance ID is written where the environment decides.
LEMMA AppliedAgrees ==
  ASSUME NEW p \in Process, NEW t \in Table, NEW in \in Input,
         UiConfigDisabled[p] => DOMAIN in \cap UiKey = {}
  PROVE  Agrees(p, Applied(Loaded(p, t), in), Upserted(t, in))
<1> DEFINE c == Applied(Loaded(p, t), in)
           u == Upserted(t, in)
<1> SUFFICES ASSUME NEW k \in Key
             PROVE  c[k] = Loaded(p, u)[k] \/ (u[k] = Empty /\ c[k] = Default[k])
  BY DEF Agrees
<1>1. CASE k \notin DOMAIN in
  <2>1. c[k] = Loaded(p, t)[k] /\ u[k] = t[k]
    BY <1>1 DEF Applied, Upserted
  <2>2. Loaded(p, u)[k] = Loaded(p, t)[k]
    BY <2>1 DEF Loaded
  <2> QED
    BY <2>1, <2>2
<1>2. CASE k \in DOMAIN in
  <2>1. in[k] # Absent
    BY <1>2, DatumAssumption DEF Input
  <2>2. u[k] = in[k] /\ c[k] = IF in[k] = Empty THEN Default[k] ELSE in[k]
    BY <1>2 DEF Applied, Upserted
  <2>3. ~(UiConfigDisabled[p] /\ k # InstanceId)
    BY <1>2 DEF UiKey
  <2>4. Loaded(p, u)[k] = u[k]
    BY <2>1, <2>2, <2>3 DEF Loaded
  <2> QED
    BY <2>2, <2>4
<1> QED
  BY <1>1, <1>2

\* What was just loaded from a table agrees with it.
LEMMA LoadedAgrees == \A p, t : Agrees(p, Loaded(p, t), t)
BY DEF Agrees

\* A process with the UI configuration disabled uses the values of its
\* environment: it loads them, and an update of the instance ID keeps them.
FromEnv(c) ==
  \A k \in UiKey : c[k] = IF EnvValue[k] = Absent THEN Default[k] ELSE EnvValue[k]

LEMMA LoadedFromEnv ==
  ASSUME NEW p, UiConfigDisabled[p], NEW t
  PROVE  FromEnv(Loaded(p, t))
BY DEF FromEnv, Loaded, UiKey

LEMMA AppliedFromEnv ==
  ASSUME NEW c, FromEnv(c), NEW in, DOMAIN in \cap UiKey = {}
  PROVE  FromEnv(Applied(c, in))
BY DEF FromEnv, Applied, UiKey

LEMMA HomeType == \A a \in Actor : HomeOf(a) \in Process
BY ActorAssumption DEF HomeOf, Actor

LEMMA HomeOfProcess == \A p \in Process : HomeOf(p) = p /\ p \in Actor
BY DEF HomeOf, Actor

-----------------------------------------------------------------------------
(* Types.                                                                  *)

LEMMA NoInputType == NoInput \in Input
<1>1. NoInput \in [{} -> Datum] /\ {} \in SUBSET Key
  BY DEF NoInput
<1> QED
  BY <1>1 DEF Input

LEMMA TypeInit == Init => TypeOK
BY NoInputType, DatumAssumption, KeyAssumption DEF Init, TypeOK, Actor, State

\* The inputs of the three callers are partial functions on the keys.
LEMMA InputType ==
  /\ \A in \in [UiKey -> Value \cup {Empty}] : in \in Input
  /\ \A k \in UiKey, v \in Value \cup {Empty} : [x \in {k} |-> v] \in Input
  /\ \A p \in Process : [k \in {InstanceId} |-> p] \in Input
<1>1. \A K \in SUBSET Key : \A in \in [K -> Datum] : in \in Input
  BY DEF Input
<1>2. ASSUME NEW in \in [UiKey -> Value \cup {Empty}]
      PROVE  in \in Input
  <2>1. in \in [UiKey -> Datum] /\ UiKey \in SUBSET Key
    BY DEF Datum, UiKey
  <2> QED
    BY <1>1, <2>1
<1>3. ASSUME NEW k \in UiKey, NEW v \in Value \cup {Empty}
      PROVE  [x \in {k} |-> v] \in Input
  <2>1. [x \in {k} |-> v] \in [{k} -> Datum] /\ {k} \in SUBSET Key
    BY DEF Datum, UiKey
  <2> QED
    BY <1>1, <2>1
<1>4. ASSUME NEW p \in Process
      PROVE  [k \in {InstanceId} |-> p] \in Input
  <2>1. /\ [k \in {InstanceId} |-> p] \in [{InstanceId} -> Datum]
        /\ {InstanceId} \in SUBSET Key
    BY KeyAssumption DEF Datum
  <2> QED
    BY <1>1, <2>1
<1> QED
  BY <1>2, <1>3, <1>4

\* Actors that forget their local variables have the initial ones again.
LEMMA ForgetType ==
  ASSUME TypeOK, NEW A, Forget(A)
  PROVE  /\ api' \in [Actor -> {"UpdateAppConfig", "UpdateAppConfigValues"}]
         /\ input' \in [Actor -> Input]
         /\ cfg' \in [Actor -> Config]
         /\ \A a \in Actor : a \notin A => /\ api'[a] = api[a]
                                         /\ input'[a] = input[a]
                                         /\ cfg'[a] = cfg[a]
         /\ \A a \in A \cap Actor : input'[a] = NoInput
                                  /\ api'[a] = "UpdateAppConfigValues"
BY NoInputType, DatumAssumption DEF Forget, TypeOK

\* What loading the configuration does: with a configuration that has an ID the
\* process is through, without one it goes on to write an ID of its own.
LEMMA LoadEffects ==
  ASSUME TypeOK, NEW p \in Process, LoadDbConfig(p)
  PROVE  /\ pc[p] = "off" /\ UNCHANGED <<table, writer, owner, history>>
         /\ \A a \in Actor : a # p => /\ api'[a] = api[a] /\ input'[a] = input[a]
                                      /\ cfg'[a] = cfg[a]
         /\ api'[p] = "UpdateAppConfigValues" \/ api'[p] = api[p]
         /\ \E c \in Config :
              /\ dbConfig' = [dbConfig EXCEPT ![p] = c]
              /\ \/ c = Loaded(p, table)
                 \/ /\ ReadErrors /\ UiConfigDisabled[p] /\ c[InstanceId] = Empty
                    /\ \A k \in UiKey : c[k] = Loaded(p, table)[k]
              /\ IF c[InstanceId] # Empty
                   THEN pc' = [pc EXCEPT ![p] = "booted"]
                   ELSE /\ pc' = [pc EXCEPT ![p] = "begin"]
                        /\ input'[p] = [k \in {InstanceId} |-> p]
         /\ api' \in [Actor -> {"UpdateAppConfig", "UpdateAppConfigValues"}]
         /\ input' \in [Actor -> Input] /\ cfg' \in [Actor -> Config]
<1>1. /\ pc[p] = "off" /\ UNCHANGED <<table, writer, owner, history>>
      /\ p \in Actor
  BY DEF LoadDbConfig, Actor
<1>2. PICK c \in {Loaded(p, table)} \cup
                (IF UiConfigDisabled[p] /\ ReadErrors
                   THEN {[Loaded(p, table) EXCEPT ![InstanceId] = Empty]} ELSE {}) :
         /\ dbConfig' = [dbConfig EXCEPT ![p] = c]
         /\ IF c[InstanceId] # Empty
              THEN Return(p)
              ELSE /\ input' = [input EXCEPT ![p] = [k \in {InstanceId} |-> p]]
                   /\ Goto(p, "begin")
                   /\ UNCHANGED <<api, cfg>>
  BY DEF LoadDbConfig
<1>3. Loaded(p, table) \in Config
  BY LoadedType DEF TypeOK
<1>4. /\ c \in Config
      /\ \/ c = Loaded(p, table)
         \/ /\ ReadErrors /\ UiConfigDisabled[p] /\ c[InstanceId] = Empty
            /\ \A k \in UiKey : c[k] = Loaded(p, table)[k]
  BY <1>2, <1>3, KeyAssumption DEF Config, Datum, UiKey
<1>5. CASE c[InstanceId] # Empty
  <2>1. Forget({p}) /\ pc' = [pc EXCEPT ![p] = "booted"]
    BY <1>2, <1>5 DEF Return, Goto
  <2>2. /\ api' \in [Actor -> {"UpdateAppConfig", "UpdateAppConfigValues"}]
        /\ input' \in [Actor -> Input] /\ cfg' \in [Actor -> Config]
        /\ \A a \in Actor : a # p => /\ api'[a] = api[a] /\ input'[a] = input[a]
                                     /\ cfg'[a] = cfg[a]
        /\ api'[p] = "UpdateAppConfigValues"
    BY <1>1, <2>1, ForgetType
  <2> QED
    BY <1>1, <1>2, <1>4, <1>5, <2>1, <2>2
<1>6. CASE c[InstanceId] = Empty
  <2>1. /\ input' = [input EXCEPT ![p] = [k \in {InstanceId} |-> p]]
        /\ pc' = [pc EXCEPT ![p] = "begin"]
        /\ UNCHANGED <<api, cfg>>
    BY <1>2, <1>6 DEF Goto
  <2>2. input' \in [Actor -> Input]
    BY <2>1, InputType DEF TypeOK
  <2> QED
    BY <1>1, <1>2, <1>4, <1>6, <2>1, <2>2 DEF TypeOK
<1> QED
  BY <1>5, <1>6

LEMMA TypeStep == TypeOK /\ [Next]_vars => TypeOK'
<1> SUFFICES ASSUME TypeOK, [Next]_vars
             PROVE  TypeOK'
  OBVIOUS
<1>a. Default \in Config /\ \A p \in Process : p \in Actor
  BY DatumAssumption DEF Actor
<1>1. ASSUME NEW p \in Process, LoadDbConfig(p)
      PROVE  TypeOK'
  <2>1. PICK c \in Config :
          /\ dbConfig' = [dbConfig EXCEPT ![p] = c]
          /\ pc' \in {[pc EXCEPT ![p] = "booted"], [pc EXCEPT ![p] = "begin"]}
    BY <1>1, LoadEffects
  <2>2. /\ UNCHANGED <<table, writer, owner, history>>
        /\ api' \in [Actor -> {"UpdateAppConfig", "UpdateAppConfigValues"}]
        /\ input' \in [Actor -> Input] /\ cfg' \in [Actor -> Config]
    BY <1>1, LoadEffects
  <2> QED
    BY <2>1, <2>2 DEF TypeOK, State
<1>2. ASSUME NEW p \in Process, LoadFails(p)
      PROVE  TypeOK'
  BY <1>2 DEF LoadFails, Goto, callVars, TypeOK, State
<1>3. ASSUME NEW p \in Process, AcquireLock(p)
      PROVE  TypeOK'
  BY <1>3, <1>a DEF AcquireLock, EmptyMemory, Goto, callVars, TypeOK, State
<1>4. ASSUME NEW p \in Process, Stop(p)
      PROVE  TypeOK'
  <2>1. /\ api' \in [Actor -> {"UpdateAppConfig", "UpdateAppConfigValues"}]
        /\ input' \in [Actor -> Input] /\ cfg' \in [Actor -> Config]
    BY <1>4, ForgetType DEF Stop
  <2> QED
    BY <1>4, <1>a, <2>1 DEF Stop, EmptyMemory, TypeOK, State
<1>5. ASSUME NEW r \in Request, CallUpdateAppConfig(r)
      PROVE  TypeOK'
  <2>1. CASE UiConfigDisabled[Home[r]]
    <3>1. Forget({r}) /\ pc' \in [Actor -> State]
      BY <1>5, <2>1 DEF CallUpdateAppConfig, Fail, Goto, TypeOK, State
    <3>2. /\ api' \in [Actor -> {"UpdateAppConfig", "UpdateAppConfigValues"}]
          /\ input' \in [Actor -> Input] /\ cfg' \in [Actor -> Config]
      BY <3>1, ForgetType
    <3> QED
      BY <1>5, <3>1, <3>2 DEF CallUpdateAppConfig, TypeOK
  <2>2. CASE ~UiConfigDisabled[Home[r]]
    <3>1. input' \in [Actor -> Input]
      BY <1>5, <2>2, InputType DEF CallUpdateAppConfig, TypeOK
    <3> QED
      BY <1>5, <2>2, <3>1 DEF CallUpdateAppConfig, Goto, TypeOK, State
  <2> QED
    BY <2>1, <2>2
<1>6. ASSUME NEW r \in Request, CallUpdateAppConfigValues(r)
      PROVE  TypeOK'
  <2>1. PICK k \in UiKey, v \in Value \cup {Empty} :
          input' = [input EXCEPT ![r] = [x \in {k} |-> v]]
    BY <1>6 DEF CallUpdateAppConfigValues
  <2>2. [x \in {k} |-> v] \in Input
    BY InputType
  <2>3. input' \in [Actor -> Input]
    BY <2>1, <2>2 DEF TypeOK
  <2> QED
    BY <1>6, <2>3 DEF CallUpdateAppConfigValues, Goto, TypeOK, State
<1>7. ASSUME NEW a \in Actor, StartTransaction(a)
      PROVE  TypeOK'
  BY <1>7 DEF StartTransaction, Goto, callVars, TypeOK, State
<1>8. ASSUME NEW a \in Actor, UpdateDatabase(a)
      PROVE  TypeOK'
  <2>1. Applied(Loaded(HomeOf(a), table), input[a]) \in Config
    BY LoadedType, AppliedType, HomeType DEF TypeOK
  <2> QED
    BY <1>8, <2>1 DEF UpdateDatabase, Goto, TypeOK, State
<1>9. ASSUME NEW a \in Actor, Commit(a)
      PROVE  TypeOK'
  <2>1. Upserted(table, input[a]) \in Table
    BY UpsertedType DEF TypeOK
  <2> QED
    BY <1>9, <2>1 DEF Commit, Goto, callVars, TypeOK, State
<1>10. ASSUME NEW a \in Actor, CommitUnanswered(a)
       PROVE  TypeOK'
  <2>1. Upserted(table, input[a]) \in Table
    BY UpsertedType DEF TypeOK
  <2>2. Forget({a}) /\ pc' \in [Actor -> State]
    BY <1>10 DEF CommitUnanswered, Fail, Goto, TypeOK, State
  <2>3. /\ api' \in [Actor -> {"UpdateAppConfig", "UpdateAppConfigValues"}]
        /\ input' \in [Actor -> Input] /\ cfg' \in [Actor -> Config]
    BY <2>2, ForgetType
  <2> QED
    BY <1>10, <2>1, <2>2, <2>3 DEF CommitUnanswered, TypeOK
<1>11. ASSUME NEW a \in Actor, Store(a)
       PROVE  TypeOK'
  <2>1. Forget({a}) /\ pc' \in [Actor -> State]
    BY <1>11 DEF Store, Return, Goto, TypeOK, State
  <2>2. /\ api' \in [Actor -> {"UpdateAppConfig", "UpdateAppConfigValues"}]
        /\ input' \in [Actor -> Input] /\ cfg' \in [Actor -> Config]
    BY <2>1, ForgetType
  <2> QED
    BY <1>11, <2>1, <2>2, HomeType DEF Store, TypeOK
<1>12. ASSUME NEW a \in Actor, UpdateFails(a)
       PROVE  TypeOK'
  <2>1. Forget({a}) /\ pc' \in [Actor -> State]
    BY <1>12 DEF UpdateFails, Fail, Goto, TypeOK, State
  <2>2. /\ api' \in [Actor -> {"UpdateAppConfig", "UpdateAppConfigValues"}]
        /\ input' \in [Actor -> Input] /\ cfg' \in [Actor -> Config]
    BY <2>1, ForgetType
  <2> QED
    BY <1>12, <2>1, <2>2 DEF UpdateFails, TypeOK
<1>13. CASE UNCHANGED vars
  BY <1>13 DEF vars, callVars, TypeOK
<1> QED
  BY <1>1, <1>2, <1>3, <1>4, <1>5, <1>6, <1>7, <1>8, <1>9, <1>10, <1>11, <1>12,
    <1>13 DEF Next, Progress

\* Every variable of the configuration service keeps its type.
THEOREM TypeCorrect == Spec => []TypeOK
BY TypeInit, TypeStep, PTL DEF Spec

-----------------------------------------------------------------------------
(* The invariant.                                                          *)

\* Only the actor that holds the write lock is inside a transaction.
WriterAlone == \A a \in Actor : pc[a] \in InTransaction => writer = a

\* Where the environment decides, only the instance ID is ever written.
OnlyIdWritten ==
  \A a \in Actor : UiConfigDisabled[HomeOf(a)] =>
    /\ pc[a] \in {"off", "begin", "open", "updated"} => api[a] = "UpdateAppConfigValues"
    /\ pc[a] = "updated" => DOMAIN input[a] \cap UiKey = {}

\* What an update will store is what its commit makes of the table, since
\* nobody else can commit meanwhile; and what it committed when it stores it.
UpdatedAgrees ==
  \A a \in Actor :
    /\ pc[a] = "updated" => Agrees(HomeOf(a), cfg[a], Upserted(table, input[a]))
    /\ pc[a] = "committed" => \E t \in history : Agrees(HomeOf(a), cfg[a], t)

\* What an update will store keeps to the environment, where that decides.
EnvKept ==
  \A a \in Actor :
    UiConfigDisabled[HomeOf(a)] /\ pc[a] \in {"updated", "committed"} => FromEnv(cfg[a])

InUseFromEnv ==
  \A p \in Process :
    UiConfigDisabled[p] /\ pc[p] \in {"booted", "serving"} => FromEnv(dbConfig[p])

\* Requests are served by a process that is past its own update.
RequestsServed ==
  \A r \in Request : pc[r] \in Updating => pc[Home[r]] = "serving"

\* Why an actor is about to write an ID, once there is one: its process could
\* not read the ID and does not load its configuration from the table.
Renewing(a) == pc[a] \in {"begin", "open", "updated"} /\ InstanceId \in DOMAIN input[a]
RenewedBlindly ==
  Installed => \A a \in Actor : Renewing(a) =>
    /\ a \in Process /\ ReadErrors /\ UiConfigDisabled[a]
    /\ dbConfig[a][InstanceId] = Empty
    /\ input[a] = [k \in {InstanceId} |-> a]

ConfigInv ==
  /\ WriterAlone
  /\ OnlyIdWritten
  /\ UpdatedAgrees
  /\ EnvKept
  /\ InUseFromEnv
  /\ RequestsServed
  /\ RenewedBlindly
  /\ NoTornConfig
  /\ table \in history

LEMMA ConfigInit == Init => ConfigInv
<1> SUFFICES ASSUME Init PROVE ConfigInv
  OBVIOUS
<1>1. \A a \in Actor : pc[a] \in {"off", "idle"} /\ api[a] = "UpdateAppConfigValues"
  BY DEF Init
<1>2. \A p \in Process : p \in Actor
  BY DEF Actor
<1>3. \A r \in Request : r \in Actor
  BY DEF Actor
<1>4. WriterAlone /\ OnlyIdWritten /\ UpdatedAgrees /\ EnvKept
  BY <1>1 DEF WriterAlone, OnlyIdWritten, UpdatedAgrees, EnvKept, InTransaction
<1>5. InUseFromEnv /\ NoTornConfig
  BY <1>1, <1>2 DEF InUseFromEnv, NoTornConfig
<1>6. RequestsServed /\ RenewedBlindly
  BY <1>1, <1>3 DEF RequestsServed, RenewedBlindly, Renewing, Updating, InTransaction
<1>7. table \in history
  BY DEF Init
<1> QED
  BY <1>4, <1>5, <1>6, <1>7 DEF ConfigInv

\* A step that neither commits nor stores keeps the invariant, if no actor
\* comes closer to the end of a transaction and no process starts to serve.
LEMMA QuietStep ==
  ASSUME TypeOK, ConfigInv, UNCHANGED <<table, history>>,
         WriterAlone', OnlyIdWritten', RequestsServed',
         \A a \in Actor : pc'[a] \in {"updated", "committed"} =>
           pc'[a] = pc[a] /\ input'[a] = input[a] /\ cfg'[a] = cfg[a],
         \A p \in Process : pc'[p] \in {"booted", "serving"} =>
           pc[p] \in {"booted", "serving"} /\ dbConfig'[p] = dbConfig[p],
         \A a \in Actor : Renewing(a)' =>
           /\ Renewing(a) /\ input'[a] = input[a]
           /\ a \in Process => dbConfig'[a] = dbConfig[a]
  PROVE  ConfigInv'
<1>1. UpdatedAgrees'
  <2> SUFFICES ASSUME NEW a \in Actor
               PROVE  /\ pc'[a] = "updated" =>
                           Agrees(HomeOf(a), cfg'[a], Upserted(table', input'[a]))
                      /\ pc'[a] = "committed" =>
                           \E t \in history' : Agrees(HomeOf(a), cfg'[a], t)
    BY DEF UpdatedAgrees, Agrees, HomeOf
  <2> QED
    BY DEF ConfigInv, UpdatedAgrees
<1>2. EnvKept'
  <2> SUFFICES ASSUME NEW a \in Actor, UiConfigDisabled[HomeOf(a)],
                      pc'[a] \in {"updated", "committed"}
               PROVE  FromEnv(cfg'[a])
    BY DEF EnvKept, FromEnv, HomeOf
  <2> QED
    BY DEF ConfigInv, EnvKept
<1>3. InUseFromEnv'
  <2> SUFFICES ASSUME NEW p \in Process, UiConfigDisabled[p],
                      pc'[p] \in {"booted", "serving"}
               PROVE  FromEnv(dbConfig'[p])
    BY DEF InUseFromEnv, FromEnv
  <2> QED
    BY DEF ConfigInv, InUseFromEnv
<1>4. NoTornConfig'
  <2> SUFFICES ASSUME NEW p \in Process, pc'[p] \in {"booted", "serving"}
               PROVE  \E t \in history' : Agrees(p, dbConfig'[p], t)
    BY DEF NoTornConfig, Agrees
  <2> QED
    BY DEF ConfigInv, NoTornConfig
<1>5. RenewedBlindly'
  <2> SUFFICES ASSUME Installed', NEW a \in Actor, Renewing(a)'
               PROVE  /\ a \in Process /\ ReadErrors /\ UiConfigDisabled[a]
                      /\ dbConfig'[a][InstanceId] = Empty
                      /\ input'[a] = [k \in {InstanceId} |-> a]
    BY DEF RenewedBlindly
  <2>1. Installed
    BY DEF Installed
  <2> QED
    BY <2>1 DEF ConfigInv, RenewedBlindly
<1> QED
  BY <1>1, <1>2, <1>3, <1>4, <1>5 DEF ConfigInv

-----------------------------------------------------------------------------
(* Every step keeps the invariant.                                         *)

LEMMA LoadStep ==
  ASSUME TypeOK, ConfigInv, NEW p \in Process, LoadDbConfig(p)
  PROVE  ConfigInv'
<1>1. /\ pc[p] = "off" /\ UNCHANGED <<table, writer, history>>
      /\ \A a \in Actor : a # p => /\ api'[a] = api[a] /\ input'[a] = input[a]
                                   /\ cfg'[a] = cfg[a]
      /\ api'[p] = "UpdateAppConfigValues" \/ api'[p] = api[p]
  BY LoadEffects
<1>2. PICK c \in Config :
        /\ dbConfig' = [dbConfig EXCEPT ![p] = c]
        /\ \/ c = Loaded(p, table)
           \/ /\ ReadErrors /\ UiConfigDisabled[p] /\ c[InstanceId] = Empty
              /\ \A k \in UiKey : c[k] = Loaded(p, table)[k]
        /\ IF c[InstanceId] # Empty
             THEN pc' = [pc EXCEPT ![p] = "booted"]
             ELSE /\ pc' = [pc EXCEPT ![p] = "begin"]
                  /\ input'[p] = [k \in {InstanceId} |-> p]
  BY LoadEffects
<1>3. /\ p \in Actor /\ HomeOf(p) = p
      /\ pc'[p] \in {"booted", "begin"}
      /\ \A a \in Actor : a # p => pc'[a] = pc[a]
      /\ dbConfig'[p] = c
      /\ \A q \in Process : q # p => dbConfig'[q] = dbConfig[q]
  BY <1>2, HomeOfProcess DEF TypeOK
<1>4. WriterAlone'
  BY <1>1, <1>3 DEF ConfigInv, WriterAlone, InTransaction
<1>5. OnlyIdWritten'
  <2>1. UiConfigDisabled[p] => api[p] = "UpdateAppConfigValues"
    BY <1>1, <1>3 DEF ConfigInv, OnlyIdWritten
  <2> SUFFICES ASSUME NEW a \in Actor, UiConfigDisabled[HomeOf(a)]
               PROVE  /\ pc'[a] \in {"off", "begin", "open", "updated"} =>
                           api'[a] = "UpdateAppConfigValues"
                      /\ pc'[a] = "updated" => DOMAIN input'[a] \cap UiKey = {}
    BY DEF OnlyIdWritten, HomeOf
  <2> QED
    BY <1>1, <1>3, <2>1 DEF ConfigInv, OnlyIdWritten
<1>6. UpdatedAgrees'
  <2> SUFFICES ASSUME NEW a \in Actor, pc'[a] \in {"updated", "committed"}
               PROVE  /\ pc'[a] = "updated" =>
                           Agrees(HomeOf(a), cfg'[a], Upserted(table, input'[a]))
                      /\ pc'[a] = "committed" =>
                           \E t \in history : Agrees(HomeOf(a), cfg'[a], t)
    BY <1>1 DEF UpdatedAgrees, Agrees, HomeOf
  <2>1. a # p
    BY <1>3
  <2> QED
    BY <1>1, <1>3, <2>1 DEF ConfigInv, UpdatedAgrees
<1>7. EnvKept'
  <2> SUFFICES ASSUME NEW a \in Actor, UiConfigDisabled[HomeOf(a)],
                      pc'[a] \in {"updated", "committed"}
               PROVE  FromEnv(cfg'[a])
    BY DEF EnvKept, FromEnv, HomeOf
  <2>1. a # p
    BY <1>3
  <2> QED
    BY <1>1, <1>3, <2>1 DEF ConfigInv, EnvKept
<1>8. InUseFromEnv'
  <2> SUFFICES ASSUME NEW q \in Process, UiConfigDisabled[q],
                      pc'[q] \in {"booted", "serving"}
               PROVE  FromEnv(dbConfig'[q])
    BY DEF InUseFromEnv, FromEnv
  <2>1. CASE q = p
    <3>1. \A k \in UiKey : c[k] = Loaded(p, table)[k]
      BY <1>2
    <3>2. FromEnv(Loaded(p, table))
      BY <2>1, LoadedFromEnv
    <3> QED
      BY <1>3, <2>1, <3>1, <3>2 DEF FromEnv
  <2>2. CASE q # p
    BY <1>3, <2>2, HomeOfProcess DEF ConfigInv, InUseFromEnv
  <2> QED
    BY <2>1, <2>2
<1>9. RequestsServed'
  <2> SUFFICES ASSUME NEW r \in Request, pc'[r] \in Updating
               PROVE  pc'[Home[r]] = "serving"
    BY DEF RequestsServed, Updating, InTransaction
  <2>1. r \in Actor /\ r # p /\ Home[r] \in Actor
    BY ActorAssumption DEF Actor
  <2>2. pc[Home[r]] = "serving"
    BY <1>3, <2>1 DEF ConfigInv, RequestsServed
  <2> QED
    BY <1>1, <1>3, <2>1, <2>2
<1>10. RenewedBlindly'
  <2> SUFFICES ASSUME Installed', NEW a \in Actor, Renewing(a)'
               PROVE  /\ a \in Process /\ ReadErrors /\ UiConfigDisabled[a]
                      /\ dbConfig'[a][InstanceId] = Empty
                      /\ input'[a] = [k \in {InstanceId} |-> a]
    BY DEF RenewedBlindly
  <2>1. Installed
    BY <1>1 DEF Installed
  <2>2. CASE a = p
    <3>1. table[InstanceId] \notin {Absent, Empty}
      BY <2>1 DEF Installed, ConfigInv
    <3>2. Loaded(p, table)[InstanceId] # Empty
      BY <3>1, KeyAssumption DEF Loaded
    <3>3. pc'[p] # "booted"
      BY <2>2 DEF Renewing
    <3> QED
      BY <1>2, <1>3, <2>2, <3>2, <3>3 DEF TypeOK
  <2>3. CASE a # p
    <3>1. Renewing(a)
      BY <1>1, <1>3, <2>3 DEF Renewing
    <3> QED
      BY <1>1, <1>3, <2>1, <2>3, <3>1 DEF ConfigInv, RenewedBlindly
  <2> QED
    BY <2>2, <2>3
<1>11. NoTornConfig'
  <2> SUFFICES ASSUME NEW q \in Process, pc'[q] \in {"booted", "serving"}
               PROVE  \E t \in history : Agrees(q, dbConfig'[q], t)
    BY <1>1 DEF NoTornConfig, Agrees
  <2>1. CASE q = p
    <3>1. c[InstanceId] # Empty
      BY <1>2, <1>3, <2>1 DEF TypeOK
    <3> QED
      BY <1>2, <1>3, <2>1, <3>1, LoadedAgrees DEF ConfigInv
  <2>2. CASE q # p
    BY <1>3, <2>2, HomeOfProcess DEF ConfigInv, NoTornConfig
  <2> QED
    BY <2>1, <2>2
<1> QED
  BY <1>1, <1>4, <1>5, <1>6, <1>7, <1>8, <1>9, <1>10, <1>11 DEF ConfigInv

LEMMA BootStep ==
  ASSUME TypeOK, ConfigInv, NEW p \in Process, LoadFails(p) \/ AcquireLock(p)
  PROVE  ConfigInv'
<1>1. /\ UNCHANGED <<table, writer, api, input, cfg, history>>
      /\ pc[p] \in {"off", "booted"}
      /\ pc'[p] \in {"dead", "serving"} /\ p \in Actor
      /\ pc[p] = "off" => pc'[p] = "dead"
      /\ pc'[p] = "serving" => dbConfig' = dbConfig
      /\ \A a \in Actor : a # p => pc'[a] = pc[a]
      /\ \A q \in Process : q # p => dbConfig'[q] = dbConfig[q]
  BY DEF LoadFails, AcquireLock, EmptyMemory, Goto, callVars, TypeOK, Actor
<1>2. WriterAlone' /\ OnlyIdWritten'
  BY <1>1 DEF ConfigInv, WriterAlone, OnlyIdWritten, InTransaction, HomeOf
<1>3. RequestsServed'
  <2> SUFFICES ASSUME NEW r \in Request, pc'[r] \in Updating
               PROVE  pc'[Home[r]] = "serving"
    BY DEF RequestsServed, Updating, InTransaction
  <2>1. r \in Actor /\ r # p /\ Home[r] \in Actor
    BY ActorAssumption DEF Actor
  <2>2. pc[Home[r]] = "serving"
    BY <1>1, <2>1 DEF ConfigInv, RequestsServed
  <2> QED
    BY <1>1, <2>1, <2>2
<1>4. /\ \A a \in Actor : pc'[a] \in {"updated", "committed"} =>
           pc'[a] = pc[a] /\ input'[a] = input[a] /\ cfg'[a] = cfg[a]
      /\ \A q \in Process : pc'[q] \in {"booted", "serving"} =>
           pc[q] \in {"booted", "serving"} /\ dbConfig'[q] = dbConfig[q]
      /\ \A a \in Actor : Renewing(a)' =>
           /\ Renewing(a) /\ input'[a] = input[a]
           /\ a \in Process => dbConfig'[a] = dbConfig[a]
  BY <1>1, HomeOfProcess DEF Renewing
<1> QED
  BY <1>1, <1>2, <1>3, <1>4, QuietStep

LEMMA StopStep ==
  ASSUME TypeOK, ConfigInv, NEW p \in Process, Stop(p)
  PROVE  ConfigInv'
<1>1. /\ UNCHANGED <<table, history>>
      /\ \A a \in Actor : HomeOf(a) = p => pc'[a] = "dead"
      /\ \A a \in Actor : HomeOf(a) # p =>
           /\ pc'[a] = pc[a] /\ (writer = a => writer' = a)
           /\ api'[a] = api[a] /\ input'[a] = input[a] /\ cfg'[a] = cfg[a]
      /\ \A q \in Process : q # p => dbConfig'[q] = dbConfig[q]
  <2>1. Forget({a \in Actor : HomeOf(a) = p})
    BY DEF Stop
  <2>2. \A a \in Actor : HomeOf(a) # p =>
          api'[a] = api[a] /\ input'[a] = input[a] /\ cfg'[a] = cfg[a]
    BY <2>1, ForgetType
  <2> QED
    BY <2>2 DEF Stop, EmptyMemory, TypeOK
<1>2. WriterAlone'
  BY <1>1 DEF ConfigInv, WriterAlone, InTransaction
<1>3. OnlyIdWritten'
  <2> SUFFICES ASSUME NEW a \in Actor, UiConfigDisabled[HomeOf(a)]
               PROVE  /\ pc'[a] \in {"off", "begin", "open", "updated"} =>
                           api'[a] = "UpdateAppConfigValues"
                      /\ pc'[a] = "updated" => DOMAIN input'[a] \cap UiKey = {}
    BY DEF OnlyIdWritten, HomeOf
  <2> QED
    BY <1>1 DEF ConfigInv, OnlyIdWritten
<1>4. RequestsServed'
  <2> SUFFICES ASSUME NEW r \in Request, pc'[r] \in Updating
               PROVE  pc'[Home[r]] = "serving"
    BY DEF RequestsServed, Updating, InTransaction
  <2>1. r \in Actor /\ HomeOf(r) = Home[r] /\ Home[r] \in Process
    BY ActorAssumption DEF Actor, HomeOf
  <2>2. Home[r] # p
    BY <1>1, <2>1 DEF Updating, InTransaction
  <2>3. pc[Home[r]] = "serving"
    BY <1>1, <2>1, <2>2 DEF ConfigInv, RequestsServed
  <2> QED
    BY <1>1, <2>1, <2>2, <2>3, HomeOfProcess
<1>5. /\ \A a \in Actor : pc'[a] \in {"updated", "committed"} =>
           pc'[a] = pc[a] /\ input'[a] = input[a] /\ cfg'[a] = cfg[a]
      /\ \A q \in Process : pc'[q] \in {"booted", "serving"} =>
           pc[q] \in {"booted", "serving"} /\ dbConfig'[q] = dbConfig[q]
      /\ \A a \in Actor : Renewing(a)' =>
           /\ Renewing(a) /\ input'[a] = input[a]
           /\ a \in Process => dbConfig'[a] = dbConfig[a]
  BY <1>1, HomeOfProcess DEF Renewing
<1> QED
  BY <1>1, <1>2, <1>3, <1>4, <1>5, QuietStep

LEMMA CallStep ==
  ASSUME TypeOK, ConfigInv, NEW r \in Request,
         CallUpdateAppConfig(r) \/ CallUpdateAppConfigValues(r)
  PROVE  ConfigInv'
<1>1. /\ UNCHANGED <<table, writer, dbConfig, history>>
      /\ pc[r] = "idle" /\ pc[Home[r]] = "serving"
      /\ r \in Actor /\ r \notin Process /\ HomeOf(r) = Home[r]
      /\ pc'[r] \in {"begin", "done"}
      /\ \A a \in Actor : a # r => pc'[a] = pc[a]
  BY ActorAssumption
  DEF CallUpdateAppConfig, CallUpdateAppConfigValues, Fail, Goto, TypeOK, Actor, HomeOf
<1>2. \A a \in Actor : a # r =>
        api'[a] = api[a] /\ input'[a] = input[a] /\ cfg'[a] = cfg[a]
  <2>1. CASE Forget({r})
    BY <2>1, ForgetType
  <2>2. CASE UNCHANGED cfg /\ \E in : input' = [input EXCEPT ![r] = in]
                             /\ \E x : api' = [api EXCEPT ![r] = x]
    BY <2>2 DEF TypeOK
  <2>3. \/ Forget({r})
        \/ UNCHANGED cfg /\ \E in : input' = [input EXCEPT ![r] = in]
                             /\ \E x : api' = [api EXCEPT ![r] = x]
    BY DEF CallUpdateAppConfig, CallUpdateAppConfigValues, Fail
  <2> QED
    BY <2>1, <2>2, <2>3
<1>3. pc'[r] = "begin" =>
        /\ UiConfigDisabled[HomeOf(r)] => api'[r] = "UpdateAppConfigValues"
        /\ InstanceId \notin DOMAIN input'[r]
  <2>1. ASSUME CallUpdateAppConfig(r), pc'[r] = "begin"
        PROVE  ~UiConfigDisabled[HomeOf(r)] /\ InstanceId \notin DOMAIN input'[r]
    BY <1>1, <2>1 DEF CallUpdateAppConfig, Fail, Goto, TypeOK, UiKey
  <2>2. ASSUME CallUpdateAppConfigValues(r)
        PROVE  /\ api'[r] = "UpdateAppConfigValues"
               /\ InstanceId \notin DOMAIN input'[r]
    <3>1. PICK k \in UiKey, v \in Value \cup {Empty} :
            input' = [input EXCEPT ![r] = [x \in {k} |-> v]]
      BY <2>2 DEF CallUpdateAppConfigValues
    <3> QED
      BY <1>1, <2>2, <3>1 DEF CallUpdateAppConfigValues, TypeOK, UiKey
  <2> QED
    BY <2>1, <2>2
<1>4. WriterAlone'
  BY <1>1 DEF ConfigInv, WriterAlone, InTransaction
<1>5. OnlyIdWritten'
  <2> SUFFICES ASSUME NEW a \in Actor, UiConfigDisabled[HomeOf(a)]
               PROVE  /\ pc'[a] \in {"off", "begin", "open", "updated"} =>
                           api'[a] = "UpdateAppConfigValues"
                      /\ pc'[a] = "updated" => DOMAIN input'[a] \cap UiKey = {}
    BY DEF OnlyIdWritten, HomeOf
  <2> QED
    BY <1>1, <1>2, <1>3 DEF ConfigInv, OnlyIdWritten
<1>6. RequestsServed'
  <2> SUFFICES ASSUME NEW s \in Request, pc'[s] \in Updating
               PROVE  pc'[Home[s]] = "serving"
    BY DEF RequestsServed, Updating, InTransaction
  <2>1. s \in Actor /\ Home[s] \in Actor /\ Home[s] # r
    BY <1>1, ActorAssumption DEF Actor
  <2> QED
    BY <1>1, <2>1 DEF ConfigInv, RequestsServed
<1>7. /\ \A a \in Actor : pc'[a] \in {"updated", "committed"} =>
           pc'[a] = pc[a] /\ input'[a] = input[a] /\ cfg'[a] = cfg[a]
      /\ \A q \in Process : pc'[q] \in {"booted", "serving"} =>
           pc[q] \in {"booted", "serving"} /\ dbConfig'[q] = dbConfig[q]
      /\ \A a \in Actor : Renewing(a)' =>
           /\ Renewing(a) /\ input'[a] = input[a]
           /\ a \in Process => dbConfig'[a] = dbConfig[a]
  BY <1>1, <1>2, <1>3, HomeOfProcess DEF Renewing
<1> QED
  BY <1>1, <1>4, <1>5, <1>6, <1>7, QuietStep

LEMMA BeginStep ==
  ASSUME TypeOK, ConfigInv, NEW a \in Actor, StartTransaction(a)
  PROVE  ConfigInv'
<1>1. /\ UNCHANGED <<table, callVars, dbConfig, history>>
      /\ writer = NoActor /\ writer' = a
      /\ pc[a] = "begin" /\ pc'[a] = "open"
      /\ \A b \in Actor : b # a => pc'[b] = pc[b]
  BY DEF StartTransaction, Goto, TypeOK
<1>2. \A b \in Actor : pc[b] \notin {"open", "updated"}
  BY <1>1, ActorAssumption DEF ConfigInv, WriterAlone, InTransaction
<1>3. WriterAlone' /\ OnlyIdWritten'
  BY <1>1, <1>2 DEF callVars, ConfigInv, WriterAlone, OnlyIdWritten, InTransaction, HomeOf
<1>4. RequestsServed'
  <2> SUFFICES ASSUME NEW r \in Request, pc'[r] \in Updating
               PROVE  pc'[Home[r]] = "serving"
    BY DEF RequestsServed, Updating, InTransaction
  <2>1. r \in Actor /\ Home[r] \in Actor /\ pc[r] \in Updating
    BY <1>1, ActorAssumption DEF Actor, Updating
  <2> QED
    BY <1>1, <2>1 DEF ConfigInv, RequestsServed
<1>5. /\ \A b \in Actor : pc'[b] \in {"updated", "committed"} =>
           pc'[b] = pc[b] /\ input'[b] = input[b] /\ cfg'[b] = cfg[b]
      /\ \A q \in Process : pc'[q] \in {"booted", "serving"} =>
           pc[q] \in {"booted", "serving"} /\ dbConfig'[q] = dbConfig[q]
      /\ \A b \in Actor : Renewing(b)' =>
           /\ Renewing(b) /\ input'[b] = input[b]
           /\ b \in Process => dbConfig'[b] = dbConfig[b]
  BY <1>1, HomeOfProcess DEF Renewing, callVars
<1> QED
  BY <1>1, <1>3, <1>4, <1>5, QuietStep DEF callVars

LEMMA UpdateStep ==
  ASSUME TypeOK, ConfigInv, NEW a \in Actor, UpdateDatabase(a)
  PROVE  ConfigInv'
<1> DEFINE p == HomeOf(a)
           c == Applied(Loaded(p, table), input[a])
<1>1. /\ UNCHANGED <<table, writer, api, input, dbConfig, history>>
      /\ pc[a] = "open" /\ pc'[a] = "updated" /\ ~Refused(a)
      /\ cfg'[a] = c
      /\ \A b \in Actor : b # a => pc'[b] = pc[b] /\ cfg'[b] = cfg[b]
      /\ p \in Process
  BY HomeType DEF UpdateDatabase, Goto, TypeOK
<1>2. UiConfigDisabled[p] => DOMAIN input[a] \cap UiKey = {}
  BY <1>1 DEF Refused, ConfigInv, OnlyIdWritten
<1>3. WriterAlone' /\ OnlyIdWritten'
  BY <1>1, <1>2 DEF ConfigInv, WriterAlone, OnlyIdWritten, InTransaction, HomeOf
<1>4. UpdatedAgrees'
  <2> SUFFICES ASSUME NEW b \in Actor
               PROVE  /\ pc'[b] = "updated" =>
                           Agrees(HomeOf(b), cfg'[b], Upserted(table, input[b]))
                      /\ pc'[b] = "committed" =>
                           \E t \in history : Agrees(HomeOf(b), cfg'[b], t)
    BY <1>1 DEF UpdatedAgrees, Agrees, HomeOf
  <2>1. Agrees(p, c, Upserted(table, input[a]))
    BY <1>1, <1>2, AppliedAgrees DEF TypeOK
  <2>2. CASE b = a
    BY <1>1, <2>1, <2>2
  <2>3. CASE b # a
    BY <1>1, <2>3 DEF ConfigInv, UpdatedAgrees
  <2> QED
    BY <2>2, <2>3
<1>5. EnvKept'
  <2> SUFFICES ASSUME NEW b \in Actor, UiConfigDisabled[HomeOf(b)],
                      pc'[b] \in {"updated", "committed"}
               PROVE  FromEnv(cfg'[b])
    BY DEF EnvKept, FromEnv, HomeOf
  <2>1. CASE b = a
    <3>1. FromEnv(Loaded(p, table))
      BY <2>1, LoadedFromEnv
    <3>2. FromEnv(c)
      BY <1>2, <2>1, <3>1, AppliedFromEnv
    <3> QED
      BY <1>1, <2>1, <3>2
  <2>2. CASE b # a
    BY <1>1, <2>2 DEF ConfigInv, EnvKept
  <2> QED
    BY <2>1, <2>2
<1>6. \A q \in Process : pc'[q] \in {"booted", "serving"} => pc[q] = pc'[q]
  BY <1>1, HomeOfProcess
<1>7. InUseFromEnv' /\ NoTornConfig'
  BY <1>1, <1>6 DEF ConfigInv, InUseFromEnv, NoTornConfig, Agrees, FromEnv
<1>8. RequestsServed'
  <2> SUFFICES ASSUME NEW r \in Request, pc'[r] \in Updating
               PROVE  pc'[Home[r]] = "serving"
    BY DEF RequestsServed, Updating, InTransaction
  <2>1. r \in Actor /\ Home[r] \in Actor /\ pc[r] \in Updating
    BY <1>1, ActorAssumption DEF Actor, Updating, InTransaction
  <2> QED
    BY <1>1, <2>1 DEF ConfigInv, RequestsServed
<1>9. RenewedBlindly'
  <2>1. Installed' => Installed
    BY <1>1 DEF Installed
  <2>2. \A b \in Actor : Renewing(b)' => Renewing(b)
    BY <1>1 DEF Renewing
  <2> QED
    BY <1>1, <2>1, <2>2 DEF ConfigInv, RenewedBlindly
<1> QED
  BY <1>1, <1>3, <1>4, <1>5, <1>7, <1>8, <1>9 DEF ConfigInv

LEMMA CommitStep ==
  ASSUME TypeOK, ConfigInv, NEW a \in Actor, Commit(a) \/ CommitUnanswered(a)
  PROVE  ConfigInv'
<1>1. /\ table' = Upserted(table, input[a]) /\ history' = history \cup {table'}
      /\ UNCHANGED dbConfig
      /\ pc[a] = "updated" /\ pc'[a] \in {"committed", "done", "dead"}
      /\ \A b \in Actor : b # a => pc'[b] = pc[b]
  BY DEF Commit, CommitUnanswered, Fail, Goto, callVars, TypeOK
<1>2. /\ \A b \in Actor : b # a => api'[b] = api[b] /\ input'[b] = input[b]
                                  /\ cfg'[b] = cfg[b]
      /\ pc'[a] = "committed" => cfg'[a] = cfg[a]
  <2>1. CASE Commit(a)
    BY <2>1 DEF Commit, callVars
  <2>2. CASE CommitUnanswered(a)
    BY <2>2, ForgetType DEF CommitUnanswered, Fail, Goto, TypeOK
  <2> QED
    BY <2>1, <2>2
<1>3. \A b \in Actor : b # a => pc[b] \notin {"open", "updated"}
  BY <1>1 DEF ConfigInv, WriterAlone, InTransaction
<1>4. WriterAlone'
  BY <1>1, <1>3 DEF ConfigInv, WriterAlone, InTransaction
<1>5. OnlyIdWritten'
  <2> SUFFICES ASSUME NEW b \in Actor, UiConfigDisabled[HomeOf(b)]
               PROVE  /\ pc'[b] \in {"off", "begin", "open", "updated"} =>
                           api'[b] = "UpdateAppConfigValues"
                      /\ pc'[b] = "updated" => DOMAIN input'[b] \cap UiKey = {}
    BY DEF OnlyIdWritten, HomeOf
  <2> QED
    BY <1>1, <1>2 DEF ConfigInv, OnlyIdWritten
<1>6. UpdatedAgrees'
  <2> SUFFICES ASSUME NEW b \in Actor
               PROVE  /\ pc'[b] # "updated"
                      /\ pc'[b] = "committed" =>
                           \E t \in history' : Agrees(HomeOf(b), cfg'[b], t)
    BY DEF UpdatedAgrees, Agrees, HomeOf
  <2>1. CASE b = a
    <3>1. Agrees(HomeOf(a), cfg[a], table')
      BY <1>1 DEF ConfigInv, UpdatedAgrees
    <3> QED
      BY <1>1, <1>2, <2>1, <3>1
  <2>2. CASE b # a
    BY <1>1, <1>2, <1>3, <2>2 DEF ConfigInv, UpdatedAgrees
  <2> QED
    BY <2>1, <2>2
<1>7. EnvKept'
  <2> SUFFICES ASSUME NEW b \in Actor, UiConfigDisabled[HomeOf(b)],
                      pc'[b] \in {"updated", "committed"}
               PROVE  FromEnv(cfg'[b])
    BY DEF EnvKept, FromEnv, HomeOf
  <2> QED
    BY <1>1, <1>2 DEF ConfigInv, EnvKept
<1>8. \A q \in Process : pc'[q] \in {"booted", "serving"} => pc[q] = pc'[q]
  BY <1>1, HomeOfProcess
<1>9. InUseFromEnv' /\ NoTornConfig'
  BY <1>1, <1>8 DEF ConfigInv, InUseFromEnv, NoTornConfig, Agrees, FromEnv
<1>10. RequestsServed'
  <2> SUFFICES ASSUME NEW r \in Request, pc'[r] \in Updating
               PROVE  pc'[Home[r]] = "serving"
    BY DEF RequestsServed, Updating, InTransaction
  <2>1. r \in Actor /\ Home[r] \in Actor /\ pc[r] \in Updating
    BY <1>1, ActorAssumption DEF Actor, Updating, InTransaction
  <2>2. pc[Home[r]] = "serving"
    BY <2>1 DEF ConfigInv, RequestsServed
  <2> QED
    BY <1>1, <2>1, <2>2
<1>11. RenewedBlindly'
  <2> SUFFICES ASSUME Installed', NEW b \in Actor, Renewing(b)'
               PROVE  /\ b \in Process /\ ReadErrors /\ UiConfigDisabled[b]
                      /\ dbConfig'[b][InstanceId] = Empty
                      /\ input'[b] = [k \in {InstanceId} |-> b]
    BY DEF RenewedBlindly
  <2>1. Installed
    BY <1>1 DEF Installed
  <2>2. b # a
    BY <1>1 DEF Renewing
  <2>3. Renewing(b)
    BY <1>1, <1>2, <2>2 DEF Renewing
  <2> QED
    BY <1>1, <1>2, <2>1, <2>2, <2>3 DEF ConfigInv, RenewedBlindly
<1>12. table' \in history'
  BY <1>1
<1> QED
  BY <1>4, <1>5, <1>6, <1>7, <1>9, <1>10, <1>11, <1>12 DEF ConfigInv

LEMMA StoreStep ==
  ASSUME TypeOK, ConfigInv, NEW a \in Actor, Store(a)
  PROVE  ConfigInv'
<1>1. /\ UNCHANGED <<table, writer, history>>
      /\ dbConfig' = [dbConfig EXCEPT ![HomeOf(a)] = cfg[a]]
      /\ pc[a] = "committed" /\ pc'[a] \in {"booted", "done"}
      /\ a \notin Process => pc'[a] = "done"
      /\ \A b \in Actor : b # a => pc'[b] = pc[b]
      /\ HomeOf(a) \in Process /\ (a \in Process => HomeOf(a) = a)
  BY HomeType, HomeOfProcess DEF Store, Return, Goto, TypeOK
<1>2. \A b \in Actor : b # a => api'[b] = api[b] /\ input'[b] = input[b]
                               /\ cfg'[b] = cfg[b]
  BY ForgetType DEF Store, Return
<1>3. WriterAlone'
  BY <1>1 DEF ConfigInv, WriterAlone, InTransaction
<1>4. OnlyIdWritten'
  <2> SUFFICES ASSUME NEW b \in Actor, UiConfigDisabled[HomeOf(b)]
               PROVE  /\ pc'[b] \in {"off", "begin", "open", "updated"} =>
                           api'[b] = "UpdateAppConfigValues"
                      /\ pc'[b] = "updated" => DOMAIN input'[b] \cap UiKey = {}
    BY DEF OnlyIdWritten, HomeOf
  <2> QED
    BY <1>1, <1>2 DEF ConfigInv, OnlyIdWritten
<1>5. UpdatedAgrees'
  <2> SUFFICES ASSUME NEW b \in Actor, pc'[b] \in {"updated", "committed"}
               PROVE  /\ pc'[b] = "updated" =>
                           Agrees(HomeOf(b), cfg'[b], Upserted(table, input'[b]))
                      /\ pc'[b] = "committed" =>
                           \E t \in history : Agrees(HomeOf(b), cfg'[b], t)
    BY <1>1 DEF UpdatedAgrees, Agrees, HomeOf
  <2>1. b # a
    BY <1>1
  <2> QED
    BY <1>1, <1>2, <2>1 DEF ConfigInv, UpdatedAgrees
<1>6. EnvKept'
  <2> SUFFICES ASSUME NEW b \in Actor, UiConfigDisabled[HomeOf(b)],
                      pc'[b] \in {"updated", "committed"}
               PROVE  FromEnv(cfg'[b])
    BY DEF EnvKept, FromEnv, HomeOf
  <2> QED
    BY <1>1, <1>2 DEF ConfigInv, EnvKept
<1>7. InUseFromEnv'
  <2> SUFFICES ASSUME NEW q \in Process, UiConfigDisabled[q],
                      pc'[q] \in {"booted", "serving"}
               PROVE  FromEnv(dbConfig'[q])
    BY DEF InUseFromEnv, FromEnv
  <2>1. CASE q = HomeOf(a)
    BY <1>1, <2>1 DEF ConfigInv, EnvKept, TypeOK
  <2>2. CASE q # HomeOf(a)
    BY <1>1, <2>2, HomeOfProcess DEF ConfigInv, InUseFromEnv, TypeOK
  <2> QED
    BY <2>1, <2>2
<1>8. NoTornConfig'
  <2> SUFFICES ASSUME NEW q \in Process, pc'[q] \in {"booted", "serving"}
               PROVE  \E t \in history : Agrees(q, dbConfig'[q], t)
    BY <1>1 DEF NoTornConfig, Agrees
  <2>1. CASE q = HomeOf(a)
    BY <1>1, <2>1 DEF ConfigInv, UpdatedAgrees, TypeOK
  <2>2. CASE q # HomeOf(a)
    BY <1>1, <2>2, HomeOfProcess DEF ConfigInv, NoTornConfig, TypeOK
  <2> QED
    BY <2>1, <2>2
<1>9. RequestsServed'
  <2> SUFFICES ASSUME NEW r \in Request, pc'[r] \in Updating
               PROVE  pc'[Home[r]] = "serving"
    BY DEF RequestsServed, Updating, InTransaction
  <2>1. r \in Actor /\ Home[r] \in Actor /\ r # a
    BY <1>1, ActorAssumption DEF Actor, Updating, InTransaction
  <2>2. pc[Home[r]] = "serving"
    BY <1>1, <2>1 DEF ConfigInv, RequestsServed
  <2> QED
    BY <1>1, <2>1, <2>2
<1>10. RenewedBlindly'
  <2> SUFFICES ASSUME Installed', NEW b \in Actor, Renewing(b)'
               PROVE  /\ b \in Process /\ ReadErrors /\ UiConfigDisabled[b]
                      /\ dbConfig'[b][InstanceId] = Empty
                      /\ input'[b] = [k \in {InstanceId} |-> b]
    BY DEF RenewedBlindly
  <2>1. Installed
    BY <1>1 DEF Installed
  <2>2. b # a /\ Renewing(b)
    BY <1>1, <1>2 DEF Renewing
  <2>3. /\ b \in Process /\ ReadErrors /\ UiConfigDisabled[b]
        /\ dbConfig[b][InstanceId] = Empty
        /\ input[b] = [k \in {InstanceId} |-> b]
    BY <2>1, <2>2 DEF ConfigInv, RenewedBlindly
  <2>4. HomeOf(a) # b
    <3>1. CASE a \in Process
      BY <1>1, <2>2, <3>1
    <3>2. CASE a \notin Process
      <4>1. a \in Request /\ HomeOf(a) = Home[a]
        BY <3>2 DEF Actor, HomeOf
      <4>2. pc[Home[a]] = "serving"
        BY <1>1, <4>1 DEF ConfigInv, RequestsServed, Updating
      <4> QED
        BY <2>2, <4>1, <4>2 DEF Renewing
    <3> QED
      BY <3>1, <3>2
  <2> QED
    BY <1>1, <1>2, <2>2, <2>3, <2>4 DEF TypeOK
<1> QED
  BY <1>1, <1>3, <1>4, <1>5, <1>6, <1>7, <1>8, <1>9, <1>10 DEF ConfigInv

LEMMA FailStep ==
  ASSUME TypeOK, ConfigInv, NEW a \in Actor, UpdateFails(a)
  PROVE  ConfigInv'
<1>1. /\ UNCHANGED <<table, dbConfig, history>>
      /\ pc[a] \in {"begin", "open", "updated"} /\ pc'[a] \in {"done", "dead"}
      /\ \A b \in Actor : b # a => pc'[b] = pc[b] /\ (writer = b => writer' = b)
  BY DEF UpdateFails, Fail, Goto, TypeOK, InTransaction
<1>2. \A b \in Actor : b # a => api'[b] = api[b] /\ input'[b] = input[b]
                               /\ cfg'[b] = cfg[b]
  BY ForgetType DEF UpdateFails, Fail
<1>3. WriterAlone'
  BY <1>1 DEF ConfigInv, WriterAlone, InTransaction
<1>4. OnlyIdWritten'
  <2> SUFFICES ASSUME NEW b \in Actor, UiConfigDisabled[HomeOf(b)]
               PROVE  /\ pc'[b] \in {"off", "begin", "open", "updated"} =>
                           api'[b] = "UpdateAppConfigValues"
                      /\ pc'[b] = "updated" => DOMAIN input'[b] \cap UiKey = {}
    BY DEF OnlyIdWritten, HomeOf
  <2> QED
    BY <1>1, <1>2 DEF ConfigInv, OnlyIdWritten
<1>5. RequestsServed'
  <2> SUFFICES ASSUME NEW r \in Request, pc'[r] \in Updating
               PROVE  pc'[Home[r]] = "serving"
    BY DEF RequestsServed, Updating, InTransaction
  <2>1. r \in Actor /\ Home[r] \in Actor /\ r # a
    BY <1>1, ActorAssumption DEF Actor, Updating, InTransaction
  <2>2. pc[Home[r]] = "serving"
    BY <1>1, <2>1 DEF ConfigInv, RequestsServed
  <2> QED
    BY <1>1, <2>1, <2>2
<1>6. /\ \A b \in Actor : pc'[b] \in {"updated", "committed"} =>
           pc'[b] = pc[b] /\ input'[b] = input[b] /\ cfg'[b] = cfg[b]
      /\ \A q \in Process : pc'[q] \in {"booted", "serving"} =>
           pc[q] \in {"booted", "serving"} /\ dbConfig'[q] = dbConfig[q]
      /\ \A b \in Actor : Renewing(b)' =>
           /\ Renewing(b) /\ input'[b] = input[b]
           /\ b \in Process => dbConfig'[b] = dbConfig[b]
  BY <1>1, <1>2, HomeOfProcess DEF Renewing
<1> QED
  BY <1>1, <1>3, <1>4, <1>5, <1>6, QuietStep

LEMMA StutterStep ==
  ASSUME TypeOK, ConfigInv, UNCHANGED vars
  PROVE  ConfigInv'
<1>1. WriterAlone' /\ OnlyIdWritten' /\ RequestsServed'
  BY DEF vars, callVars, ConfigInv, WriterAlone, OnlyIdWritten, RequestsServed,
    InTransaction, Updating, HomeOf
<1> QED
  BY <1>1, QuietStep, HomeOfProcess DEF vars, callVars, Renewing

LEMMA ConfigStep == TypeOK /\ ConfigInv /\ [Next]_vars => ConfigInv'
<1> HIDE DEF ConfigInv, TypeOK
<1> QED
  BY LoadStep, BootStep, StopStep, CallStep, BeginStep, UpdateStep, CommitStep,
    StoreStep, FailStep, StutterStep DEF Next, Progress

LEMMA ConfigCorrect == Spec => [](TypeOK /\ ConfigInv)
BY TypeInit, TypeStep, ConfigInit, ConfigStep, PTL DEF Spec

-----------------------------------------------------------------------------
(* The properties.                                                         *)

\* However many updates run at once, in however many processes, a process uses
\* a configuration that was committed as a whole.
THEOREM NoTornConfigTheorem == Spec => []NoTornConfig
<1>1. ConfigInv => NoTornConfig
  BY DEF ConfigInv
<1> QED
  BY <1>1, ConfigCorrect, PTL

\* A process with the UI configuration disabled uses its environment and the
\* defaults, whatever processes with the UI configuration enabled write.
THEOREM EnvDecidesTheorem == Spec => []EnvDecides
<1>1. ConfigInv => EnvDecides
  BY DEF ConfigInv, InUseFromEnv, FromEnv, EnvDecides
<1> QED
  BY <1>1, ConfigCorrect, PTL

\* The configuration that an update will store is the one its commit writes.
THEOREM CommitTheorem == Spec => CommitsWhatItStores
<1>1. ConfigInv /\ [Next]_vars =>
        [\A a \in Actor : Commit(a) => Agrees(HomeOf(a), cfg[a], table')]_vars
  BY DEF ConfigInv, UpdatedAgrees, Commit
<1> QED
  BY <1>1, ConfigCorrect, PTL DEF Spec, CommitsWhatItStores

\* Once every table there was has an instance ID, only a commit can replace it,
\* of a process that missed it because of an error that it did not notice.
LEMMA OnlyCommitsWrite ==
  ASSUME [Next]_vars, table' # table
  PROVE  \E a \in Actor : pc[a] = "updated" /\ table' = Upserted(table, input[a])
BY DEF Next, Progress, vars, LoadDbConfig, LoadFails, AcquireLock, Stop,
  CallUpdateAppConfig, CallUpdateAppConfigValues, StartTransaction, UpdateDatabase,
  Commit, CommitUnanswered, Store, UpdateFails

THEOREM InstanceIdTheorem == Spec => InstanceIdStable
<1> DEFINE Blindly ==
      /\ ReadErrors
      /\ \E p \in Process : /\ UiConfigDisabled[p] /\ dbConfig[p][InstanceId] = Empty
                            /\ table'[InstanceId] = p
<1>1. ConfigInv /\ [Next]_vars =>
        [Installed /\ table'[InstanceId] # table[InstanceId] => Blindly]_vars
  <2> SUFFICES ASSUME ConfigInv, [Next]_vars, Installed,
                      table'[InstanceId] # table[InstanceId]
               PROVE  Blindly
    OBVIOUS
  <2>1. PICK a \in Actor : pc[a] = "updated" /\ table' = Upserted(table, input[a])
    BY OnlyCommitsWrite
  <2>2. InstanceId \in DOMAIN input[a] /\ table'[InstanceId] = input[a][InstanceId]
    BY <2>1, KeyAssumption DEF Upserted
  <2>3. Renewing(a)
    BY <2>1, <2>2 DEF Renewing
  <2>4. /\ a \in Process /\ ReadErrors /\ UiConfigDisabled[a]
        /\ dbConfig[a][InstanceId] = Empty
        /\ input[a] = [k \in {InstanceId} |-> a]
    BY <2>3 DEF ConfigInv, RenewedBlindly
  <2> QED
    BY <2>2, <2>4
<1> QED
  BY <1>1, ConfigCorrect, PTL DEF Spec, InstanceIdStable
=============================================================================
