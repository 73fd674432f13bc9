--------------------------- MODULE StartupProofs ---------------------------
(***************************************************************************)
(* ForeignKeysEnforced and OptionsInEffect, for every environment: any     *)
(* options, spelled in any way and visited in any order, and any number of *)
(* attempts to connect.                                                    *)
(***************************************************************************)
EXTENDS Startup, FiniteSetTheorems, WellFoundedInduction, TLAPS

-----------------------------------------------------------------------------
(* Lists of pragmas.                                                       *)

\* No pragma of the list is about foreign keys.
NoKeys(s) == \A i \in 1..Len(s) : Lower[s[i].name] # "foreign_keys"

\* A list that ends with foreign_keys(1), which nothing before it mentions.
EndsWithKeys(s) ==
  /\ Len(s) \in Nat \ {0}
  /\ Lower[s[Len(s)].name] = "foreign_keys" /\ s[Len(s)].value = "1"
  /\ \A i \in 1..(Len(s) - 1) : Lower[s[i].name] # "foreign_keys"

\* Two lists without foreign keys, one after the other.
LEMMA ConcatNoKeys ==
  ASSUME NEW s \in Seq(Pragmas), NEW t \in Seq(Pragmas), NoKeys(s), NoKeys(t)
  PROVE  s \o t \in Seq(Pragmas) /\ NoKeys(s \o t)
<1>1. s \o t \in Seq(Pragmas)
  OBVIOUS
<1>2. ASSUME NEW i \in 1..Len(s \o t)
      PROVE  Lower[(s \o t)[i].name] # "foreign_keys"
  <2>1. CASE i <= Len(s)
    <3>1. i \in 1..Len(s) /\ (s \o t)[i] = s[i]
      BY <2>1
    <3>. QED BY <3>1 DEF NoKeys
  <2>2. CASE i > Len(s)
    <3>1. i - Len(s) \in 1..Len(t) /\ (s \o t)[i] = t[i - Len(s)]
      BY <2>2
    <3>. QED BY <3>1 DEF NoKeys
  <2>. QED BY <2>1, <2>2
<1>. QED BY <1>1, <1>2 DEF NoKeys

\* A default that is added, or not, is a list without foreign keys.
LEMMA DefaultNoKeys ==
  ASSUME NEW name \in {"busy_timeout", "journal_mode"}, NEW value \in Values, NEW B \in BOOLEAN
  PROVE  LET d == IF B THEN <<>> ELSE <<Pragma(name, value)>> IN d \in Seq(Pragmas) /\ NoKeys(d)
<1>1. name \in DOMAIN Lower /\ Lower[name] # "foreign_keys"
  BY StartupAssumption
<1>2. Pragma(name, value) \in Pragmas /\ Pragma(name, value).name = name
  BY <1>1 DEF Pragma, Pragmas
<1>3. <<Pragma(name, value)>> \in Seq(Pragmas) /\ NoKeys(<<Pragma(name, value)>>)
  BY <1>1, <1>2 DEF NoKeys
<1>4. <<>> \in Seq(Pragmas) /\ NoKeys(<<>>)
  BY DEF NoKeys
<1>. QED BY <1>3, <1>4

\* foreign_keys(1) after a list without foreign keys.
LEMMA AppendKeys ==
  ASSUME NEW s \in Seq(Pragmas), NoKeys(s)
  PROVE  LET t == s \o <<Pragma("foreign_keys", "1")>> IN t \in Seq(Pragmas) /\ EndsWithKeys(t)
<1>. DEFINE k == Pragma("foreign_keys", "1")
            t == s \o <<k>>
<1>1. k \in Pragmas /\ Lower[k.name] = "foreign_keys" /\ k.value = "1"
  <2>1. "foreign_keys" \in DOMAIN Lower /\ Lower["foreign_keys"] = "foreign_keys"
    BY StartupAssumption
  <2>2. [name |-> "foreign_keys", value |-> "1"] \in Pragmas
    BY <2>1, StartupAssumption DEF Pragmas
  <2>. QED BY <2>1, <2>2 DEF Pragma
<1>. HIDE DEF k
<1>2. t \in Seq(Pragmas) /\ Len(t) = Len(s) + 1 /\ t[Len(t)] = k
  BY <1>1
<1>3. \A i \in 1..(Len(t) - 1) : i \in 1..Len(s) /\ t[i] = s[i]
  BY <1>1, <1>2
<1>4. Len(s) \in Nat
  OBVIOUS
<1>. QED BY <1>1, <1>2, <1>3, <1>4 DEF EndsWithKeys, NoKeys, k

-----------------------------------------------------------------------------
(* The invariant.                                                          *)

\* What the steps before PrepareDirs establish and the later ones keep.
PragmasInv ==
  /\ env \in Environments
  /\ pragmas \in Seq(Pragmas)
  /\ Prepared => EndsWithKeys(pragmas)

LEMMA InitPragmasInv == Init => PragmasInv
<1>. SUFFICES ASSUME Init PROVE PragmasInv
  OBVIOUS
<1>1. env \in Environments /\ pragmas = <<>> /\ pc = "parse"
  BY DEF Init
<1>2. pragmas \in Seq(Pragmas)
  BY <1>1
<1>3. ~Prepared
  BY <1>1 DEF Prepared
<1>. QED BY <1>1, <1>2, <1>3 DEF PragmasInv

\* The steps before the defaults do not end with options that are final.
LEMMA EarlySteps ==
  ASSUME PragmasInv,
         ParseEnv \/ ParseFails \/ Validate \/ ValidateFails \/ Execute
           \/ SelectDatabase \/ ConnStringRefused \/ ForbiddenOption
  PROVE  PragmasInv'
<1>1. UNCHANGED <<env, pragmas>>
  BY DEF ParseEnv, ParseFails, Validate, ValidateFails, Execute, SelectDatabase,
         ConnStringRefused, ForbiddenOption, Fail
<1>2. ~Prepared'
  BY DEF Prepared, ParseEnv, ParseFails, Validate, ValidateFails, Execute, SelectDatabase,
         ConnStringRefused, ForbiddenOption, Fail, Goto
<1>. QED BY <1>1, <1>2 DEF PragmasInv

LEMMA ConvertStep ==
  ASSUME PragmasInv, NEW k \in Alias \cup {"_pragma"}, Convert(k), todo \subseteq Given
  PROVE  PragmasInv'
<1>1. ~Prepared' /\ env' = env
  BY DEF Convert, Prepared
<1>2. pragmas' \in Seq(Pragmas)
  <2>1. CASE k = "_pragma"
    BY <2>1, StartupAssumption DEF Convert, PragmasInv
  <2>2. CASE k # "_pragma"
    <3>1. k \in DOMAIN env.aliases
      BY <2>2 DEF Convert, Given
    <3>2. Pragma(PragmaOf[k], env.aliases[k]) \in Pragmas
      BY <3>1, StartupAssumption DEF PragmasInv, Pragma, Pragmas
    <3>. QED BY <2>2, <3>2 DEF Convert, PragmasInv
  <2>. QED BY <2>1, <2>2
<1>. QED BY <1>1, <1>2 DEF PragmasInv

\* The options are final: the forbidden one is not among those that were given,
\* the defaults are about other pragmas, and foreign_keys(1) is the last.
LEMMA DefaultsStep ==
  ASSUME PragmasInv, AddDefaultParameters
  PROVE  PragmasInv'
<1>. DEFINE busy == IF Has("busy_timeout") THEN <<>> ELSE <<Pragma("busy_timeout", "2500")>>
            journal == IF Has("journal_mode") THEN <<>> ELSE <<Pragma("journal_mode", Journal)>>
<1>1. pragmas \in Seq(Pragmas) /\ NoKeys(pragmas)
  BY DEF PragmasInv, AddDefaultParameters, Has, NoKeys
<1>2. busy \in Seq(Pragmas) /\ NoKeys(busy)
  <2>1. "2500" \in Values
    BY StartupAssumption
  <2>2. Has("busy_timeout") \in BOOLEAN
    BY DEF Has
  <2>. QED BY <2>1, <2>2, DefaultNoKeys
<1>3. journal \in Seq(Pragmas) /\ NoKeys(journal)
  <2>1. Journal \in {"MEMORY", "DELETE", "WAL"}
    BY DEF Journal
  <2>2. Journal \in Values
    BY <2>1, StartupAssumption
  <2>3. Has("journal_mode") \in BOOLEAN
    BY DEF Has
  <2>. QED BY <2>2, <2>3, DefaultNoKeys
<1>4. pragmas' = ((pragmas \o busy) \o journal) \o <<Pragma("foreign_keys", "1")>>
  BY DEF AddDefaultParameters
<1>. HIDE DEF busy, journal
<1>5. pragmas \o busy \in Seq(Pragmas) /\ NoKeys(pragmas \o busy)
  BY <1>1, <1>2, ConcatNoKeys
<1>6. (pragmas \o busy) \o journal \in Seq(Pragmas) /\ NoKeys((pragmas \o busy) \o journal)
  BY <1>3, <1>5, ConcatNoKeys
<1>7. pragmas' \in Seq(Pragmas) /\ EndsWithKeys(pragmas')
  BY <1>4, <1>6, AppendKeys
<1>8. env' = env
  BY DEF AddDefaultParameters
<1>. QED BY <1>7, <1>8 DEF PragmasInv, EndsWithKeys

\* The later steps leave the options as they are, and come after Prepared.
LEMMA LateSteps ==
  ASSUME PragmasInv,
         PrepareDirs \/ Open \/ OpenFails \/ MigrateDatabase \/ InitStorage
           \/ InitStorageFails \/ InitServices \/ Listen \/ ListenFails \/ UNCHANGED vars
  PROVE  PragmasInv'
<1>1. UNCHANGED <<env, config, pragmas>>
  BY DEF PrepareDirs, Open, OpenFails, MigrateDatabase, InitStorage, InitStorageFails,
         InitServices, Listen, ListenFails, Fail, vars
<1>2. Prepared' => Prepared
  BY DEF Prepared, PrepareDirs, Open, OpenFails, MigrateDatabase, InitStorage,
         InitStorageFails, InitServices, Listen, ListenFails, Fail, MayFail, Goto, vars
<1>. QED BY <1>1, <1>2 DEF PragmasInv, EndsWithKeys

\* Only options that were given are visited.
GivenInv == todo \subseteq Given

LEMMA GivenStep == GivenInv /\ [Next]_vars => GivenInv'
BY DEF GivenInv, Given, Explicit, Next, vars, ParseEnv, ParseFails, Validate, ValidateFails,
       Execute, SelectDatabase, ConnStringRefused, Convert, AddDefaultParameters,
       ForbiddenOption, PrepareDirs, Open, OpenFails, MigrateDatabase, InitStorage,
       InitStorageFails, InitServices, Listen, ListenFails, Fail

LEMMA PragmasStep == PragmasInv /\ GivenInv /\ [Next]_vars => PragmasInv'
<1>. SUFFICES ASSUME PragmasInv, GivenInv, [Next]_vars PROVE PragmasInv'
  OBVIOUS
<1>1. ASSUME NEW k \in Alias \cup {"_pragma"}, Convert(k) PROVE PragmasInv'
  BY <1>1, ConvertStep DEF GivenInv
<1>. QED BY <1>1, EarlySteps, DefaultsStep, LateSteps DEF Next

\* What the invariant says of the pragma in effect.
LEMMA KeysInEffect == PragmasInv => ForeignKeysEnforced
<1>. SUFFICES ASSUME PragmasInv, Prepared
              PROVE  Listed("foreign_keys") = {Len(pragmas)} /\ InEffect("foreign_keys") = "1"
  BY DEF ForeignKeysEnforced
<1>1. EndsWithKeys(pragmas) /\ DOMAIN pragmas = 1..Len(pragmas)
  BY DEF PragmasInv
<1>2. Listed("foreign_keys") = {Len(pragmas)}
  BY <1>1 DEF EndsWithKeys, Listed
<1>3. InEffect("foreign_keys") = pragmas[Len(pragmas)].value
  BY <1>1, <1>2 DEF InEffect, EndsWithKeys
<1>. QED BY <1>1, <1>2, <1>3 DEF EndsWithKeys

-----------------------------------------------------------------------------
(* The theorem.                                                            *)

\* Every connection to SQLite has foreign keys on (addSqliteDefaultParameters),
\* whatever the connection string says and however Go orders its options.
THEOREM ForeignKeysTheorem == Spec => []ForeignKeysEnforced
<1>1. Init => PragmasInv /\ GivenInv
  BY InitPragmasInv DEF Init, GivenInv
<1>2. PragmasInv /\ GivenInv /\ [Next]_vars => PragmasInv' /\ GivenInv'
  BY PragmasStep, GivenStep
<1>. QED BY <1>1, <1>2, KeysInEffect, PTL DEF Spec

-----------------------------------------------------------------------------
(* The pragma in effect.                                                   *)

\* A set of positions has a last one: those beyond a position are fewer than
\* those beyond an earlier one, and there are finitely many of them.
LEMMA LastPosition ==
  ASSUME NEW n \in Nat, NEW S, S \subseteq 1..n, S # {}
  PROVE  \E i \in S : \A j \in S : j <= i
<1>. DEFINE Beyond(i) == {j \in S : j > i}
            T == {Beyond(i) : i \in S}
<1>1. IsFiniteSet(1..n)
  BY FS_Interval
<1>2. T \subseteq FiniteSubsetsOf(1..n)
  <2>1. FiniteSubsetsOf(1..n) = SUBSET (1..n)
    BY <1>1, FS_FiniteSubsetsOfFinite
  <2>. QED BY <2>1
<1>3. T # {}
  OBVIOUS
<1>4. IsWellFoundedOn(StrictSubsetOrdering(1..n), FiniteSubsetsOf(1..n))
  BY FS_StrictSubsetOrderingWellFounded
<1>. HIDE DEF T
<1>5. PICK x \in T : \A y \in T : ~(<<y, x>> \in StrictSubsetOrdering(1..n))
  BY <1>2, <1>3, <1>4, WFMin
<1>. USE DEF T
<1>6. PICK i \in S : x = Beyond(i)
  BY <1>5
<1>7. ASSUME NEW j \in S, j > i
      PROVE  FALSE
  <2>1. Beyond(j) \in T /\ Beyond(j) \subseteq Beyond(i)
    <3>1. \A k \in S : k > j => k > i
      BY <1>7
    <3>. QED BY <3>1
  <2>2. j \in Beyond(i) /\ j \notin Beyond(j)
    BY <1>7
  <2>3. Beyond(j) \subseteq 1..n /\ Beyond(i) \subseteq 1..n
    OBVIOUS
  <2>4. <<Beyond(j), Beyond(i)>> \in StrictSubsetOrdering(1..n)
    BY <2>1, <2>2, <2>3 DEF StrictSubsetOrdering
  <2>. QED BY <1>5, <1>6, <2>1, <2>4
<1>. QED BY <1>7

\* The positions of a list that are about a pragma, and the last value there.
At(s, name) == {i \in 1..Len(s) : Lower[s[i].name] = name}
LastValue(s, name) == s[CHOOSE i \in At(s, name) : \A j \in At(s, name) : j <= i].value

LEMMA LastIsThere ==
  ASSUME NEW s \in Seq(Pragmas), NEW name, At(s, name) # {}
  PROVE  \E i \in At(s, name) : LastValue(s, name) = s[i].value
<1>1. \E i \in At(s, name) : \A j \in At(s, name) : j <= i
  <2>1. At(s, name) \subseteq 1..Len(s) /\ Len(s) \in Nat
    BY DEF At
  <2>. QED BY <2>1, LastPosition
<1>. DEFINE i == CHOOSE i \in At(s, name) : \A j \in At(s, name) : j <= i
<1>2. i \in At(s, name)
  BY <1>1
<1>. QED BY <1>2 DEF LastValue

\* What is added about other pragmas changes nothing for this one.
LEMMA ConcatAt ==
  ASSUME NEW s \in Seq(Pragmas), NEW t \in Seq(Pragmas), NEW name, At(t, name) = {}
  PROVE  /\ s \o t \in Seq(Pragmas)
         /\ At(s \o t, name) = At(s, name)
         /\ \A i \in At(s, name) : (s \o t)[i] = s[i]
<1>1. s \o t \in Seq(Pragmas) /\ Len(s \o t) = Len(s) + Len(t) /\ Len(s) \in Nat /\ Len(t) \in Nat
  OBVIOUS
<1>2. ASSUME NEW i \in 1..Len(s)
      PROVE  (s \o t)[i] = s[i] /\ i \in 1..Len(s \o t)
  BY <1>1
<1>3. ASSUME NEW i \in 1..Len(s \o t), Lower[(s \o t)[i].name] = name
      PROVE  i \in 1..Len(s)
  <2>. SUFFICES ASSUME i > Len(s) PROVE FALSE
    BY <1>1
  <2>1. i - Len(s) \in 1..Len(t) /\ (s \o t)[i] = t[i - Len(s)]
    BY <1>1
  <2>. QED BY <1>3, <2>1 DEF At
<1>. QED BY <1>1, <1>2, <1>3 DEF At

-----------------------------------------------------------------------------
(* The options in effect.  While they are collected, every pragma has a    *)
(* value that the connection string gives for it, and every option that    *)
(* was visited is there, unless the listed pragmas took its place.         *)

Sources(name) == ByPragma(name) \cup ByAlias(name)
Early == {"parse", "validate", "execute", "connect", "convert"}

FromString == \A i \in 1..Len(pragmas) : pragmas[i].value \in Sources(Lower[pragmas[i].name])

Collected ==
  /\ Explicit /\ "_pragma" \notin todo =>
       \A j \in DOMAIN env.pragmas :
         \E i \in 1..Len(pragmas) : pragmas[i].name = env.pragmas[j].name
  /\ \A k \in (DOMAIN env.aliases \ replaced) \ todo :
       \E i \in 1..Len(pragmas) : pragmas[i].name = PragmaOf[k]

\* The listed pragmas take the place of others if there are any.
ReplacedInv == replaced # {} => Explicit

\* What the properties say of a list of pragmas that is final.
Kept(name) == {k \in DOMAIN env.aliases \ replaced : PragmaOf[k] = name}
Asked(name) == ByPragma(name) # {} \/ Kept(name) # {}
Satisfied(s) ==
  /\ \A name \in {Lower[n] : n \in DOMAIN Lower} :
       Asked(name) => At(s, name) # {} /\ LastValue(s, name) \in Sources(name)
  /\ At(s, "journal_mode") # {}
  /\ LastValue(s, "journal_mode") = "WAL" /\ (InMemory \/ ReadOnly) =>
       "WAL" \in ByPragma("journal_mode")

OptionsInv ==
  /\ ReplacedInv
  /\ pc \in Early => FromString
  /\ pc = "convert" => Collected
  /\ Prepared => Satisfied(pragmas)

LEMMA InitOptions == Init => OptionsInv
<1>. SUFFICES ASSUME Init PROVE OptionsInv
  OBVIOUS
<1>1. pragmas = <<>> /\ pc = "parse" /\ replaced = {}
  BY DEF Init
<1>. QED BY <1>1 DEF OptionsInv, FromString, Prepared, ReplacedInv

LEMMA EarlyOptions ==
  ASSUME PragmasInv, OptionsInv,
         ParseEnv \/ ParseFails \/ Validate \/ ValidateFails \/ Execute
           \/ SelectDatabase \/ ConnStringRefused \/ ForbiddenOption
  PROVE  OptionsInv'
<1>1. UNCHANGED <<env, pragmas, replaced>>
  BY DEF ParseEnv, ParseFails, Validate, ValidateFails, Execute, SelectDatabase,
         ConnStringRefused, ForbiddenOption, Fail
<1>2. ~Prepared'
  BY DEF Prepared, ParseEnv, ParseFails, Validate, ValidateFails, Execute, SelectDatabase,
         ConnStringRefused, ForbiddenOption, Fail, Goto
<1>3. pc \in Early /\ (pc' = "convert" => todo' = Given)
  BY DEF Early, ParseEnv, ParseFails, Validate, ValidateFails, Execute, SelectDatabase,
         ConnStringRefused, ForbiddenOption, Fail, Goto
<1>4. FromString'
  BY <1>1, <1>3 DEF OptionsInv, FromString, Sources, ByPragma, ByAlias
<1>5. pc' = "convert" => Collected'
  BY <1>1, <1>3 DEF Collected, Given, Explicit
<1>6. ReplacedInv'
  BY <1>1 DEF OptionsInv, ReplacedInv, Explicit
<1>. QED BY <1>2, <1>4, <1>5, <1>6 DEF OptionsInv

\* The values that the connection string lists are sources of their pragmas.
LEMMA ListedSources ==
  ASSUME PragmasInv, NEW j \in 1..Len(env.pragmas)
  PROVE  env.pragmas[j].value \in Sources(Lower[env.pragmas[j].name])
<1>1. env.pragmas \in Seq(Pragmas)
  BY StartupAssumption DEF PragmasInv
<1>2. j \in DOMAIN env.pragmas
  BY <1>1
<1>. QED BY <1>2 DEF Sources, ByPragma

LEMMA AliasSource ==
  ASSUME PragmasInv, NEW k \in DOMAIN env.aliases
  PROVE  /\ Pragma(PragmaOf[k], env.aliases[k]) \in Pragmas
         /\ env.aliases[k] \in Sources(Lower[PragmaOf[k]])
<1>1. env.aliases[k] \in Values /\ k \in Alias /\ Lower[PragmaOf[k]] = PragmaOf[k]
  BY StartupAssumption DEF PragmasInv
<1>2. Pragma(PragmaOf[k], env.aliases[k]) \in Pragmas
  BY <1>1, StartupAssumption DEF Pragma, Pragmas
<1>. QED BY <1>1, <1>2 DEF Sources, ByAlias

LEMMA ConvertOptions ==
  ASSUME PragmasInv, OptionsInv, NEW k \in Alias \cup {"_pragma"}, Convert(k), todo \subseteq Given
  PROVE  OptionsInv'
<1>1. /\ pc = "convert" /\ pc' = "convert" /\ env' = env /\ k \in todo
      /\ todo' = todo \ {k} /\ FromString /\ Collected /\ ReplacedInv
  BY DEF Convert, OptionsInv, Early
<1>2. ~Prepared'
  BY <1>1 DEF Prepared
<1>3. env.pragmas \in Seq(Pragmas) /\ pragmas \in Seq(Pragmas)
  BY StartupAssumption DEF PragmasInv
<1>4. CASE k = "_pragma"
  <2>1. "_pragma" \notin DOMAIN env.aliases
    BY StartupAssumption DEF PragmasInv
  <2>2. pragmas' = env.pragmas /\ replaced' = DOMAIN env.aliases \ todo /\ Explicit
    BY <1>4, <2>1 DEF Convert, Given
  <2>3. FromString'
    BY <1>1, <2>2, ListedSources DEF FromString, Sources, ByPragma, ByAlias
  <2>4. Collected'
    BY <1>1, <1>3, <1>4, <2>1, <2>2 DEF Collected, Explicit
  <2>. QED BY <1>1, <1>2, <2>2, <2>3, <2>4 DEF OptionsInv, ReplacedInv, Explicit
<1>5. CASE k # "_pragma"
  <2>. DEFINE e == Pragma(PragmaOf[k], env.aliases[k])
  <2>1. k \in DOMAIN env.aliases /\ pragmas' = Append(pragmas, e) /\ replaced' = replaced
    BY <1>1, <1>5 DEF Convert, Given
  <2>2. e \in Pragmas /\ e.name = PragmaOf[k] /\ e.value = env.aliases[k]
    BY <2>1, AliasSource DEF Pragma
  <2>. HIDE DEF e
  <2>3. /\ Len(pragmas') = Len(pragmas) + 1 /\ Len(pragmas) \in Nat
        /\ \A i \in 1..Len(pragmas) : pragmas'[i] = pragmas[i]
        /\ pragmas'[Len(pragmas) + 1] = e
    BY <1>3, <2>1, <2>2
  <2>4. FromString'
    <3>1. \A i \in 1..Len(pragmas) : pragmas'[i].value \in Sources(Lower[pragmas'[i].name])
      BY <1>1, <2>3 DEF FromString
    <3>2. e.value \in Sources(Lower[e.name])
      BY <2>1, <2>2, AliasSource
    <3>3. \A i \in 1..(Len(pragmas) + 1) : i \in 1..Len(pragmas) \/ i = Len(pragmas) + 1
      BY <2>3
    <3>. QED
      BY <1>1, <2>3, <3>1, <3>2, <3>3 DEF FromString, Sources, ByPragma, ByAlias
  <2>5. Collected'
    <3>1. \A i \in 1..Len(pragmas) : i \in 1..Len(pragmas') /\ pragmas'[i] = pragmas[i]
      BY <2>3
    <3>2. Len(pragmas) + 1 \in 1..Len(pragmas') /\ pragmas'[Len(pragmas) + 1].name = PragmaOf[k]
      BY <2>2, <2>3
    <3>. QED BY <1>1, <1>5, <2>1, <3>1, <3>2 DEF Collected, Explicit
  <2>. QED BY <1>1, <1>2, <2>1, <2>4, <2>5 DEF OptionsInv, ReplacedInv, Explicit
<1>. QED BY <1>4, <1>5

LEMMA SingleAt ==
  ASSUME NEW p \in Pragmas, NEW name
  PROVE  /\ <<p>> \in Seq(Pragmas)
         /\ Lower[p.name] # name => At(<<p>>, name) = {}
         /\ At(<<>>, name) = {}
BY DEF At

\* A default about the pragma n, added where no pragma is about n, is the only
\* one about n, and none about another pragma.
LEMMA DefaultAt ==
  ASSUME NEW s \in Seq(Pragmas), NEW n \in DOMAIN Lower, Lower[n] = n, NEW v \in Values
  PROVE  LET d == IF At(s, n) # {} THEN <<>> ELSE <<Pragma(n, v)>>
         IN  /\ d \in Seq(Pragmas)
             /\ \A name : At(s, name) # {} \/ name # n => At(d, name) = {}
             /\ At(s, n) = {} => /\ At(s \o d, n) # {}
                                 /\ \A i \in At(s \o d, n) : (s \o d)[i].value = v
<1>. DEFINE p == Pragma(n, v)
            d == IF At(s, n) # {} THEN <<>> ELSE <<p>>
<1>1. p \in Pragmas /\ p.name = n /\ p.value = v
  BY DEF Pragma, Pragmas
<1>. HIDE DEF p
<1>2. d \in Seq(Pragmas) /\ \A name : At(s, name) # {} \/ name # n => At(d, name) = {}
  BY <1>1, SingleAt
<1>3. ASSUME At(s, n) = {}
      PROVE  /\ At(s \o <<p>>, n) # {}
             /\ \A i \in At(s \o <<p>>, n) : (s \o <<p>>)[i].value = v
  <2>1. /\ Len(s \o <<p>>) = Len(s) + 1 /\ Len(s) \in Nat
        /\ (s \o <<p>>)[Len(s) + 1] = p
        /\ \A i \in 1..Len(s) : (s \o <<p>>)[i] = s[i]
    BY <1>1
  <2>2. Len(s) + 1 \in At(s \o <<p>>, n)
    BY <1>1, <2>1 DEF At
  <2>3. \A i \in At(s \o <<p>>, n) : i = Len(s) + 1
    <3>. SUFFICES ASSUME NEW i \in At(s \o <<p>>, n), i # Len(s) + 1 PROVE FALSE
      OBVIOUS
    <3>1. i \in 1..Len(s) /\ Lower[s[i].name] = n
      BY <2>1 DEF At
    <3>. QED BY <1>3, <3>1 DEF At
  <2>. QED BY <1>1, <2>1, <2>2, <2>3
<1>. QED BY <1>2, <1>3 DEF p

\* When the loop is over, what the connection string asks for is there.
LEMMA AskedIsThere ==
  ASSUME PragmasInv, Collected, todo = {}, NEW name \in {Lower[n] : n \in DOMAIN Lower},
         Asked(name)
  PROVE  At(pragmas, name) # {}
<1>1. CASE ByPragma(name) # {}
  <2>1. PICK j \in DOMAIN env.pragmas : Lower[env.pragmas[j].name] = name
    BY <1>1 DEF ByPragma
  <2>2. Explicit
    BY <2>1 DEF Explicit
  <2>3. PICK i \in 1..Len(pragmas) : pragmas[i].name = env.pragmas[j].name
    BY <2>1, <2>2 DEF Collected
  <2>. QED BY <2>1, <2>3 DEF At
<1>2. CASE Kept(name) # {}
  <2>1. PICK k \in DOMAIN env.aliases \ replaced : PragmaOf[k] = name
    BY <1>2 DEF Kept
  <2>2. PICK i \in 1..Len(pragmas) : pragmas[i].name = PragmaOf[k]
    BY <2>1 DEF Collected
  <2>3. Lower[PragmaOf[k]] = PragmaOf[k]
    BY StartupAssumption DEF PragmasInv
  <2>. QED BY <2>1, <2>2, <2>3 DEF At
<1>. QED BY <1>1, <1>2 DEF Asked

\* The environment does not change: what it asks for now it asks for later.
LEMMA SatisfiedLater ==
  ASSUME env' = env, replaced' = replaced, Satisfied(pragmas')
  PROVE  Satisfied(pragmas)'
<1>1. \A name : /\ ByPragma(name)' = ByPragma(name) /\ ByAlias(name)' = ByAlias(name)
                /\ Kept(name)' = Kept(name) /\ Asked(name)' = Asked(name)
                /\ Sources(name)' = Sources(name)
  BY DEF ByPragma, ByAlias, Kept, Asked, Sources
<1>2. InMemory' = InMemory /\ ReadOnly' = ReadOnly
  BY DEF InMemory, ReadOnly
<1>. QED BY <1>1, <1>2 DEF Satisfied

LEMMA DefaultOptions ==
  ASSUME PragmasInv, OptionsInv, AddDefaultParameters
  PROVE  OptionsInv'
<1>. DEFINE busy == IF At(pragmas, "busy_timeout") # {} THEN <<>>
                    ELSE <<Pragma("busy_timeout", "2500")>>
            s == pragmas \o busy
            journal == IF At(s, "journal_mode") # {} THEN <<>>
                       ELSE <<Pragma("journal_mode", Journal)>>
            t == s \o journal
            keys == <<Pragma("foreign_keys", "1")>>
<1>1. /\ env' = env /\ replaced' = replaced /\ pc' = "prepare" /\ todo = {} /\ pragmas \in Seq(Pragmas)
      /\ FromString /\ Collected /\ ReplacedInv /\ At(pragmas, "foreign_keys") = {}
  BY DEF AddDefaultParameters, Goto, PragmasInv, OptionsInv, Early, Has, At
<1>2. /\ "busy_timeout" \in DOMAIN Lower /\ Lower["busy_timeout"] = "busy_timeout"
      /\ "journal_mode" \in DOMAIN Lower /\ Lower["journal_mode"] = "journal_mode"
      /\ "foreign_keys" \in DOMAIN Lower /\ Lower["foreign_keys"] = "foreign_keys"
      /\ "1" \in Values /\ "2500" \in Values /\ Journal \in Values
  BY StartupAssumption DEF Journal
<1>3. /\ busy \in Seq(Pragmas)
      /\ \A name : At(pragmas, name) # {} \/ name # "busy_timeout" => At(busy, name) = {}
  BY <1>1, <1>2, DefaultAt
<1>. HIDE DEF busy
<1>4. /\ s \in Seq(Pragmas)
      /\ \A name : At(pragmas, name) # {} \/ name # "busy_timeout" =>
           At(s, name) = At(pragmas, name) /\ \A i \in At(s, name) : s[i] = pragmas[i]
  <2>1. s \in Seq(Pragmas)
    BY <1>1, <1>3
  <2>2. ASSUME NEW name, At(busy, name) = {}
        PROVE  At(s, name) = At(pragmas, name) /\ \A i \in At(pragmas, name) : s[i] = pragmas[i]
    BY <1>1, <1>3, <2>2, ConcatAt
  <2>. QED BY <1>3, <2>1, <2>2
<1>. HIDE DEF s
<1>5. /\ journal \in Seq(Pragmas)
      /\ \A name : At(s, name) # {} \/ name # "journal_mode" => At(journal, name) = {}
      /\ At(s, "journal_mode") = {} =>
           /\ At(t, "journal_mode") # {}
           /\ \A i \in At(t, "journal_mode") : t[i].value = Journal
  BY <1>2, <1>4, DefaultAt
<1>. HIDE DEF journal
<1>6. /\ t \in Seq(Pragmas)
      /\ \A name : At(s, name) # {} =>
           At(t, name) = At(s, name) /\ \A i \in At(t, name) : t[i] = s[i]
  <2>1. t \in Seq(Pragmas)
    BY <1>4, <1>5
  <2>2. ASSUME NEW name, At(journal, name) = {}
        PROVE  At(t, name) = At(s, name) /\ \A i \in At(s, name) : t[i] = s[i]
    <3>1. s \in Seq(Pragmas) /\ journal \in Seq(Pragmas)
      BY <1>4, <1>5
    <3>. QED BY <2>2, <3>1, ConcatAt
  <2>. QED BY <1>5, <2>1, <2>2
<1>. HIDE DEF t
<1>7. keys \in Seq(Pragmas) /\ \A name : name # "foreign_keys" => At(keys, name) = {}
  <2>1. Pragma("foreign_keys", "1") \in Pragmas /\ Pragma("foreign_keys", "1").name = "foreign_keys"
    BY <1>2 DEF Pragma, Pragmas
  <2>. QED BY <1>2, <2>1, SingleAt
<1>. HIDE DEF keys
<1>8. pragmas' = t \o keys
  <2>1. \A name : Has(name) <=> At(pragmas, name) # {}
    BY <1>1 DEF Has, At
  <2>2. At(s, "journal_mode") = At(pragmas, "journal_mode")
    BY <1>4
  <2>. QED BY <2>1, <2>2 DEF AddDefaultParameters, busy, s, journal, t, keys
<1>9. /\ t \o keys \in Seq(Pragmas)
      /\ \A name : name # "foreign_keys" =>
           At(t \o keys, name) = At(t, name) /\ \A i \in At(t, name) : (t \o keys)[i] = t[i]
  <2>1. t \o keys \in Seq(Pragmas)
    BY <1>6, <1>7
  <2>2. ASSUME NEW name, name # "foreign_keys"
        PROVE  /\ At(t \o keys, name) = At(t, name)
               /\ \A i \in At(t, name) : (t \o keys)[i] = t[i]
    BY <1>6, <1>7, <2>2, ConcatAt
  <2>. QED BY <2>1, <2>2
<1>10. ASSUME NEW name, At(pragmas, name) # {}
       PROVE  At(pragmas', name) # {} /\ LastValue(pragmas', name) \in Sources(name)
  <2>1. name # "foreign_keys"
    BY <1>1, <1>10
  <2>2. At(s, name) = At(pragmas, name) /\ \A i \in At(pragmas, name) : s[i] = pragmas[i]
    BY <1>4, <1>10
  <2>3. At(t, name) = At(pragmas, name) /\ \A i \in At(pragmas, name) : t[i] = pragmas[i]
    BY <1>6, <1>10, <2>2
  <2>4. /\ At(pragmas', name) = At(pragmas, name)
        /\ \A i \in At(pragmas, name) : pragmas'[i] = pragmas[i]
    BY <1>8, <1>9, <2>1, <2>3
  <2>5. PICK i \in At(pragmas', name) : LastValue(pragmas', name) = pragmas'[i].value
    BY <1>8, <1>9, <1>10, <2>4, LastIsThere
  <2>6. pragmas[i].value \in Sources(name)
    BY <1>1, <2>4, <2>5 DEF FromString, At
  <2>. QED BY <1>10, <2>4, <2>5, <2>6
<1>11. /\ At(pragmas', "journal_mode") # {}
       /\ LastValue(pragmas', "journal_mode") = "WAL" /\ (InMemory \/ ReadOnly) =>
            "WAL" \in ByPragma("journal_mode")
  <2>1. CASE At(pragmas, "journal_mode") # {}
    <3>1. ByAlias("journal_mode") = {}
      BY StartupAssumption DEF PragmasInv, ByAlias
    <3>. QED BY <1>10, <2>1, <3>1 DEF Sources
  <2>2. CASE At(pragmas, "journal_mode") = {}
    <3>1. At(t, "journal_mode") # {} /\ \A i \in At(t, "journal_mode") : t[i].value = Journal
      BY <1>4, <1>5, <2>2
    <3>2. /\ At(pragmas', "journal_mode") = At(t, "journal_mode")
          /\ \A i \in At(pragmas', "journal_mode") : pragmas'[i].value = Journal
      BY <1>8, <1>9, <3>1
    <3>3. LastValue(pragmas', "journal_mode") = Journal
      BY <1>8, <1>9, <3>1, <3>2, LastIsThere
    <3>. QED BY <3>1, <3>2, <3>3 DEF Journal
  <2>. QED BY <2>1, <2>2
<1>12. Satisfied(pragmas')
  BY <1>1, <1>10, <1>11, AskedIsThere DEF Satisfied
<1>13. Satisfied(pragmas)'
  BY <1>1, <1>12, SatisfiedLater
<1>. QED BY <1>1, <1>13 DEF OptionsInv, Early, ReplacedInv, Explicit

\* Nothing changes the options after that.
LEMMA LateOptions ==
  ASSUME OptionsInv,
         PrepareDirs \/ Open \/ OpenFails \/ MigrateDatabase \/ InitStorage
           \/ InitStorageFails \/ InitServices \/ Listen \/ ListenFails
  PROVE  OptionsInv'
<1>1. UNCHANGED <<env, config, pragmas, replaced>>
  BY DEF PrepareDirs, Open, OpenFails, MigrateDatabase, InitStorage, InitStorageFails,
         InitServices, Listen, ListenFails, Fail
<1>2. /\ Prepared' => Prepared
      /\ pc' \notin Early
  BY DEF Prepared, Early, PrepareDirs, Open, OpenFails, MigrateDatabase, InitStorage,
         InitStorageFails, InitServices, Listen, ListenFails, Fail, MayFail, Goto
<1>3. Satisfied(pragmas) => Satisfied(pragmas)'
  BY <1>1, SatisfiedLater
<1>. QED BY <1>1, <1>2, <1>3 DEF OptionsInv, Early, ReplacedInv, Explicit

LEMMA OptionsStep == PragmasInv /\ GivenInv /\ OptionsInv /\ [Next]_vars => OptionsInv'
<1>. SUFFICES ASSUME PragmasInv, GivenInv, OptionsInv, [Next]_vars PROVE OptionsInv'
  OBVIOUS
<1>1. ASSUME NEW k \in Alias \cup {"_pragma"}, Convert(k) PROVE OptionsInv'
  BY <1>1, ConvertOptions DEF GivenInv
<1>2. CASE UNCHANGED vars
  <2>1. UNCHANGED <<env, config, pc, todo, pragmas, replaced>>
    BY <1>2 DEF vars
  <2>2. Satisfied(pragmas) => Satisfied(pragmas)'
    BY <2>1, SatisfiedLater
  <2>3. FromString => FromString'
    BY <2>1 DEF FromString, Sources, ByPragma, ByAlias
  <2>4. Collected => Collected'
    BY <2>1 DEF Collected, Explicit
  <2>. QED BY <2>1, <2>2, <2>3, <2>4 DEF OptionsInv, Prepared, ReplacedInv, Explicit
<1>. QED BY <1>1, <1>2, EarlyOptions, DefaultOptions, LateOptions DEF Next

\* Whatever the order in which Go visits the options: the pragmas that the
\* connection string lists are in effect, each with a value that was given for
\* it, and so are the options by another name that were visited after them, or
\* if none is listed; those that were visited before the listed ones are all
\* that is lost.  A default stands for nothing else that was asked for
\* (convertSqlitePragmaArgs and addSqliteDefaultParameters).
THEOREM OptionsTheorem == Spec => []OptionsInEffect
<1>1. Init => PragmasInv /\ GivenInv /\ OptionsInv
  BY InitPragmasInv, InitOptions DEF Init, GivenInv
<1>2. PragmasInv /\ GivenInv /\ OptionsInv /\ [Next]_vars
        => PragmasInv' /\ GivenInv' /\ OptionsInv'
  BY PragmasStep, GivenStep, OptionsStep
<1>3. PragmasInv /\ OptionsInv => OptionsInEffect
  <2>. SUFFICES ASSUME PragmasInv, Prepared, Satisfied(pragmas), ReplacedInv
                PROVE  OptionsInEffect
    BY DEF OptionsInv, OptionsInEffect
  <2>1. DOMAIN pragmas = 1..Len(pragmas)
    BY DEF PragmasInv
  <2>2. \A name : Listed(name) = At(pragmas, name) /\ InEffect(name) = LastValue(pragmas, name)
    BY <2>1 DEF Listed, At, InEffect, LastValue
  <2>3. Has("journal_mode") <=> At(pragmas, "journal_mode") # {}
    BY <2>1 DEF Has, At
  <2>4. ASSUME NEW name \in {Lower[n] : n \in DOMAIN Lower}, Asked(name)
        PROVE  AsGiven(name)
    BY <2>2, <2>4 DEF AsGiven, Satisfied, Sources
  <2>5. ASSUME NEW k \in DOMAIN env.aliases \ replaced
        PROVE  AsGiven(PragmaOf[k])
    <3>1. Lower[PragmaOf[k]] = PragmaOf[k] /\ PragmaOf[k] \in DOMAIN Lower
      BY StartupAssumption DEF PragmasInv
    <3>2. Asked(PragmaOf[k])
      BY DEF Asked, Kept
    <3>. QED BY <2>4, <3>1, <3>2
  <2>6. /\ Has("journal_mode")
        /\ InEffect("journal_mode") = "WAL" /\ (InMemory \/ ReadOnly) =>
             "WAL" \in ByPragma("journal_mode")
    BY <2>2, <2>3 DEF Satisfied
  <2>. QED BY <2>4, <2>5, <2>6 DEF OptionsInEffect, Asked, ReplacedInv
<1>. QED BY <1>1, <1>2, <1>3, PTL DEF Spec

-----------------------------------------------------------------------------
(* What was accepted.                                                      *)

\* What was checked and accepted, with a port and a backend that exist and a
\* sound connection string, is not refused later on: a program that fails has met
\* something that is not in its environment.
Accepted == env.filesReadable /\ ~SkipValidation /\ Valid /\ Startable
NotRefusedLater == pc = "failed" /\ Accepted => faulted

Unparsed == pc \in {"parse", "failed"}
Unchecked == pc \in {"parse", "validate", "failed"}

ConfigShape == DOMAIN config = {"dbProvider", "connString", "uploadPath", "port"}

AcceptedInv ==
  /\ ConfigShape
  /\ ~Unparsed /\ env.port = "8080" => config.port = "8080"
  /\ ~Unchecked /\ ~SkipValidation =>
       /\ config.connString # ""
       /\ env.fileBackend = "filesystem" => config.uploadPath # ""
  /\ NotRefusedLater

\* Every option is from the connection string, so none is about foreign keys if
\* the connection string has none that is.
LEMMA NoForeignKeys ==
  ASSUME PragmasInv, OptionsInv, ForbiddenOption
  PROVE  ByAlias("foreign_keys") \cup ByPragma("foreign_keys") # {}
<1>1. PICK i \in DOMAIN pragmas : Lower[pragmas[i].name] = "foreign_keys"
  BY DEF ForbiddenOption, Has
<1>2. i \in 1..Len(pragmas) /\ FromString
  BY DEF PragmasInv, OptionsInv, Early, ForbiddenOption
<1>. QED BY <1>1, <1>2 DEF FromString, Sources

LEMMA AcceptedStep ==
  ASSUME PragmasInv, OptionsInv, AcceptedInv, config.dbProvider = "sqlite" \/ pc # "convert",
         [Next]_vars
  PROVE  AcceptedInv'
<1>. USE DEF ConfigShape, Unparsed, Unchecked
<1>1. CASE ParseEnv
  BY <1>1 DEF ParseEnv, AcceptedInv, NotRefusedLater, Goto
<1>2. CASE Validate
  BY <1>2 DEF Validate, AcceptedInv, NotRefusedLater, Goto, SkipValidation, WithDefault
<1>3. CASE ParseFails \/ ValidateFails
  BY <1>3 DEF ParseFails, ValidateFails, Fail, Goto, AcceptedInv, NotRefusedLater,
    Accepted, Valid, SkipValidation
<1>4. CASE ConnStringRefused \/ InitStorageFails \/ ListenFails
  BY <1>4 DEF ConnStringRefused, InitStorageFails, ListenFails, Fail, Goto, AcceptedInv,
    NotRefusedLater, Accepted, SkipValidation, Startable
<1>5. CASE ForbiddenOption
  <2>1. UNCHANGED <<env, config>> /\ pc' = "failed" /\ config.dbProvider = "sqlite"
    BY <1>5 DEF ForbiddenOption, Fail, Goto
  <2>2. ~Startable
    BY <1>5, <2>1, NoForeignKeys DEF Startable
  <2>3. ~Startable'
    BY <2>1, <2>2 DEF Startable, ByAlias, ByPragma
  <2>. QED BY <2>1, <2>3 DEF AcceptedInv, NotRefusedLater, Accepted
<1>6. CASE \/ Execute \/ SelectDatabase \/ AddDefaultParameters \/ Open
           \/ \E k \in Alias \cup {"_pragma"} : Convert(k)
  BY <1>6 DEF Execute, SelectDatabase, AddDefaultParameters, Open, Convert, Goto,
    AcceptedInv, NotRefusedLater, SkipValidation
<1>7. CASE PrepareDirs \/ OpenFails \/ MigrateDatabase \/ InitStorage \/ InitServices \/ Listen
  BY <1>7 DEF PrepareDirs, OpenFails, MigrateDatabase, InitStorage, InitServices, Listen,
    MayFail, Goto, AcceptedInv, NotRefusedLater, SkipValidation
<1>8. CASE UNCHANGED vars
  <2>1. env' = env /\ config' = config /\ pc' = pc /\ faulted' = faulted
    BY <1>8 DEF vars
  <2>2. ByAlias("foreign_keys")' = ByAlias("foreign_keys")
        /\ ByPragma("foreign_keys")' = ByPragma("foreign_keys")
    BY <2>1 DEF ByAlias, ByPragma
  <2>3. Accepted' => Accepted
    BY <2>1, <2>2 DEF Accepted, Valid, SkipValidation, Startable
  <2>. QED BY <2>1, <2>3 DEF AcceptedInv, NotRefusedLater, SkipValidation
<1>. QED BY <1>1, <1>2, <1>3, <1>4, <1>5, <1>6, <1>7, <1>8 DEF Next

LEMMA ConvertsSqlite ==
  ASSUME config.dbProvider = "sqlite" \/ pc # "convert", [Next]_vars
  PROVE  (config.dbProvider = "sqlite" \/ pc # "convert")'
BY DEF Next, vars, ParseEnv, ParseFails, Validate, ValidateFails, Execute, SelectDatabase,
  ConnStringRefused, Convert, AddDefaultParameters, ForbiddenOption, PrepareDirs, Open,
  OpenFails, MigrateDatabase, InitStorage, InitStorageFails, InitServices, Listen,
  ListenFails, Fail, MayFail, Goto

\* What ValidateEnvConfig accepted, and is sound in what it does not look at, no
\* later step refuses, whatever options it has and in whatever order.
THEOREM NotRefusedTheorem == Spec => []NotRefusedLater
<1>. DEFINE Converts == config.dbProvider = "sqlite" \/ pc # "convert"
<1>1. Init => PragmasInv /\ GivenInv /\ OptionsInv /\ AcceptedInv /\ Converts
  BY InitPragmasInv, InitOptions
  DEF Init, GivenInv, AcceptedInv, ConfigShape, Unparsed, Unchecked, NotRefusedLater
<1>2. PragmasInv /\ GivenInv /\ OptionsInv /\ AcceptedInv /\ Converts /\ [Next]_vars
        => PragmasInv' /\ GivenInv' /\ OptionsInv' /\ AcceptedInv' /\ Converts'
  BY PragmasStep, GivenStep, OptionsStep, AcceptedStep, ConvertsSqlite
<1>3. AcceptedInv => NotRefusedLater
  BY DEF AcceptedInv
<1>. QED BY <1>1, <1>2, <1>3, PTL DEF Spec
=============================================================================
