-------------------------- MODULE RateLimitProofs --------------------------
(***************************************************************************)
(* Proofs about the rate limiter, for any number of clients, handlers and  *)
(* limiters and any burst and rate that satisfy IdleAssumption: an idle    *)
(* limiter is full again before its entry may be removed.                  *)
(***************************************************************************)
EXTENDS RateLimit, TLAPS

-----------------------------------------------------------------------------
(* Types.                                                                  *)

Handling ==
  \A h \in Handler :
    pc[h] = "limited" => who[h] \in Client \ Exempt /\ held[h] \in Limiter

TypeInv == TypeOK /\ Handling

\* The tokens of a limiter are between none and all, and no less than what it
\* held when it was last asked.
LEMMA LevelType ==
  ASSUME TypeOK, NEW l \in Limiter, NEW t \in Nat, bucket[l].last <= t
  PROVE  /\ Level(l, t) \in 0..Capacity
         /\ Level(l, t) >= bucket[l].tokens
BY DurationAssumption DEF Level, TypeOK

LEMMA FullType == \A t \in Nat : Full(t) \in [tokens : 0..Capacity, last : Nat]
BY DurationAssumption DEF Full

\* No limiter was asked in the future.
LastPast == \A l \in Limiter : bucket[l].last <= now

LEMMA TypeInit == Init => TypeInv /\ LastPast
BY DurationAssumption DEF Init, TypeInv, TypeOK, State, Handling, LastPast, NoEntry,
  Entry, Full

LEMMA TypeStep ==
  TypeInv /\ LastPast /\ [Next]_vars => TypeInv' /\ LastPast'
<1> SUFFICES ASSUME TypeInv, LastPast, [Next]_vars
             PROVE  TypeInv' /\ LastPast'
  OBVIOUS
<1> USE DEF TypeInv
<1>1. CASE Advance
  BY <1>1 DEF Advance, TypeOK, State, Handling, LastPast, handlerVars
<1>2. CASE CleanupClients
  <2>1. clients' \in [Client -> Entry]
    BY <1>2 DEF CleanupClients, TypeOK, NoEntry, Entry
  <2>2. bucket' \in [Limiter -> [tokens : 0..Capacity, last : Nat]]
    BY <1>2, FullType DEF CleanupClients, TypeOK
  <2>3. LastPast'
    BY <1>2 DEF CleanupClients, LastPast, Full, TypeOK
  <2> QED
    BY <1>2, <2>1, <2>2, <2>3, DurationAssumption
    DEF CleanupClients, TypeOK, State, Handling, handlerVars
<1>3. ASSUME NEW h \in Handler, Pass(h)
      PROVE  TypeInv' /\ LastPast'
  <2>1. held[h] \in Limiter /\ who[h] \in Client
    BY <1>3 DEF Pass, Handling
  <2>2. Level(held[h], now) - Cost \in 0..Capacity
    BY <1>3, <2>1, LevelType, DurationAssumption DEF Pass, TypeOK, LastPast
  <2>3. bucket' \in [Limiter -> [tokens : 0..Capacity, last : Nat]]
    BY <1>3, <2>1, <2>2 DEF Pass, TypeOK
  <2>4. spent' \in [Client -> Nat]
    <3>1. spent[who[h]] + Cost \in Nat
      BY <2>1, DurationAssumption DEF TypeOK
    <3> QED
      BY <1>3, <2>1, <3>1 DEF Pass, TypeOK
  <2>5. LastPast'
    BY <1>3 DEF Pass, LastPast, TypeOK
  <2> QED
    BY <1>3, <2>3, <2>4, <2>5 DEF Pass, Answered, TypeOK, State, Handling
<1>4. ASSUME NEW h \in Handler, Refuse(h)
      PROVE  TypeInv' /\ LastPast'
  BY <1>4 DEF Refuse, Answered, TypeOK, State, Handling, LastPast
<1>5. ASSUME NEW h \in Handler, Respond(h)
      PROVE  TypeInv' /\ LastPast'
  BY <1>5 DEF Respond, TypeOK, State, Handling, LastPast
<1>6. ASSUME NEW h \in Handler, NEW c \in Client, Skip(h, c)
      PROVE  TypeInv' /\ LastPast'
  BY <1>6 DEF Skip, TypeOK, State, Handling, LastPast
<1>7. ASSUME NEW h \in Handler, NEW c \in Client, GetLimiter(h, c)
      PROVE  TypeInv' /\ LastPast'
  <2>1. clients[c].limiter \in Limiter
    BY <1>7 DEF GetLimiter, Known, TypeOK, Entry
  <2>2. clients' \in [Client -> Entry]
    BY <1>7 DEF GetLimiter, TypeOK, Entry
  <2> QED
    BY <1>7, <2>1, <2>2 DEF GetLimiter, Take, TypeOK, State, Handling, LastPast
<1>8. ASSUME NEW h \in Handler, NEW c \in Client, NewLimiter(h, c)
      PROVE  TypeInv' /\ LastPast'
  <2>1. PICK l \in Unused :
          /\ clients' = [clients EXCEPT ![c] = [limiter |-> l, lastSeen |-> now]]
          /\ bucket' = [bucket EXCEPT ![l] = Full(now)]
          /\ Take(h, c, l)
    BY <1>8 DEF NewLimiter
  <2>2. l \in Limiter /\ c \in Client \ Exempt
    BY <1>8 DEF Unused, NewLimiter
  <2>3. clients' \in [Client -> Entry]
    BY <2>1, <2>2 DEF TypeOK, Entry
  <2>4. bucket' \in [Limiter -> [tokens : 0..Capacity, last : Nat]]
    BY <2>1, FullType DEF TypeOK
  <2>5. LastPast'
    BY <2>1 DEF Take, LastPast, Full, TypeOK
  <2> QED
    BY <2>1, <2>2, <2>3, <2>4, <2>5 DEF Take, TypeOK, State, Handling
<1>9. CASE UNCHANGED vars
  BY <1>9 DEF vars, handlerVars, TypeOK, State, Handling, LastPast
<1> QED
  BY <1>1, <1>2, <1>3, <1>4, <1>5, <1>6, <1>7, <1>8, <1>9 DEF Next

\* Every variable keeps its type.
THEOREM TypeCorrect == Spec => []TypeOK
<1>1. TypeInv => TypeOK
  BY DEF TypeInv
<1> QED
  BY <1>1, TypeInit, TypeStep, PTL DEF Spec

-----------------------------------------------------------------------------
(* The inductive invariant.  A limiter is asked at most MaxHold after its  *)
(* client was last seen, so it is full when the entry is stale, and a      *)
(* handler that may still ask it keeps its client's entry from being so.   *)

\* Two clients do not share a limiter.
OwnLimiter ==
  \A c, d \in Client :
    Known(c) /\ clients[c].limiter = clients[d].limiter => c = d

\* The limiter of an entry was asked no later than MaxHold after lastSeen.
AskedInTime ==
  \A c \in Client :
    Known(c) =>
      /\ clients[c].lastSeen <= now
      /\ bucket[clients[c].limiter].last <= clients[c].lastSeen + MaxHold

\* A handler between getLimiter and Allow got there at most MaxHold ago, when
\* its client was seen.
HeldInTime ==
  \A h \in Handler :
    pc[h] = "limited" =>
      /\ now <= since[h] + MaxHold
      /\ since[h] <= clients[who[h]].lastSeen

\* At the last cleanup no entry was stale.
CleanedInTime ==
  /\ now <= nextClean /\ nextClean <= now + CleanupPeriod
  /\ \A c \in Client :
       Known(c) => nextClean <= clients[c].lastSeen + IdleLimit + CleanupPeriod

RateInv == OwnLimiter /\ AskedInTime /\ HeldInTime /\ CleanedInTime /\ HeldIsCurrent
             /\ AdmissionBound

Inv == TypeInv /\ LastPast /\ RateInv

LEMMA RateInit == Init => RateInv
BY DurationAssumption DEF Init, RateInv, OwnLimiter, AskedInTime, HeldInTime,
  CleanedInTime, HeldIsCurrent, AdmissionBound, Credit, Known, NoEntry

\* The credit of a client is a number of tokens.
LEMMA CreditType ==
  ASSUME Inv, NEW c \in Client
  PROVE  Credit(c) \in 0..Capacity /\ (~Known(c) => Credit(c) = Capacity)
<1>1. Known(c) => clients[c].limiter \in Limiter
  BY DEF Known, Inv, TypeInv, TypeOK, Entry
<1> QED
  BY <1>1, LevelType, DurationAssumption
  DEF Credit, Inv, TypeInv, TypeOK, LastPast

\* The limiter of a stale entry is full.
LEMMA StaleIsFull ==
  ASSUME Inv, NEW c \in Client, Known(c), Stale(c)
  PROVE  Credit(c) = Capacity
<1> DEFINE l == clients[c].limiter
<1>1. l \in Limiter
  BY DEF Known, Inv, TypeInv, TypeOK, Entry
<1>2. bucket[l].last + Capacity <= now
  BY <1>1, IdleAssumption, DurationAssumption
  DEF Stale, Inv, RateInv, AskedInTime, TypeInv, TypeOK, Entry
<1>3. bucket[l].tokens \in Nat /\ bucket[l].last \in Nat /\ now \in Nat
  BY <1>1 DEF Inv, TypeInv, TypeOK
<1>4. Level(l, now) = Capacity
  BY <1>2, <1>3, DurationAssumption DEF Level
<1> QED
  BY <1>4 DEF Credit

\* A handler that may still ask its limiter keeps the entry from being stale.
LEMMA HeldIsNotStale ==
  ASSUME Inv, NEW h \in Handler, pc[h] = "limited"
  PROVE  Known(who[h]) /\ ~Stale(who[h])
<1>1. who[h] \in Client /\ held[h] \in Limiter
  BY DEF Inv, TypeInv, Handling
<1>2. Known(who[h])
  BY <1>1, SetAssumption DEF Known, Inv, RateInv, HeldIsCurrent
<1>3. now <= clients[who[h]].lastSeen + MaxHold
  BY <1>1, DurationAssumption
  DEF Inv, RateInv, HeldInTime, TypeInv, TypeOK, Entry
<1> QED
  BY <1>1, <1>2, <1>3, IdleAssumption, DurationAssumption
  DEF Stale, Inv, TypeInv, TypeOK, Entry

-----------------------------------------------------------------------------
(* One lemma for each action that changes an entry, a limiter or the time. *)

LEMMA AdvanceStep ==
  ASSUME Inv, Advance
  PROVE  /\ RateInv'
         /\ \A c \in Client :
              Credit(c)' = IF Credit(c) < Capacity THEN Credit(c) + 1 ELSE Capacity
<1> USE DEF Inv, RateInv, Advance, handlerVars
<1>1. OwnLimiter' /\ HeldIsCurrent'
  BY DEF OwnLimiter, HeldIsCurrent, Known
<1>2. AskedInTime'
  BY DEF AskedInTime, Known, TypeInv, TypeOK, Entry
<1>3. HeldInTime'
  BY DurationAssumption DEF HeldInTime, TypeInv, TypeOK
<1>4. CleanedInTime'
  BY DurationAssumption DEF CleanedInTime, Known, TypeInv, TypeOK
<1>5. \A c \in Client :
        Credit(c)' = IF Credit(c) < Capacity THEN Credit(c) + 1 ELSE Capacity
  <2> SUFFICES ASSUME NEW c \in Client
               PROVE  Credit(c)' = IF Credit(c) < Capacity THEN Credit(c) + 1
                                                           ELSE Capacity
    OBVIOUS
  <2>1. Known(c)' = Known(c)
    BY DEF Known
  <2>2. Known(c) => clients[c].limiter \in Limiter
    BY DEF Known, TypeInv, TypeOK, Entry
  <2> QED
    BY <2>1, <2>2, DurationAssumption
    DEF Credit, Level, TypeInv, TypeOK, LastPast
<1>6. AdmissionBound'
  <2> SUFFICES ASSUME NEW c \in Client
               PROVE  spent[c] + Credit(c)' <= Capacity + now'
    BY DEF AdmissionBound
  <2>1. spent[c] + Credit(c) <= Capacity + now
    BY DEF AdmissionBound
  <2>2. spent[c] \in Nat /\ Credit(c) \in 0..Capacity
    BY CreditType DEF TypeInv, TypeOK
  <2> QED
    BY <1>5, <2>1, <2>2, DurationAssumption DEF TypeInv, TypeOK
<1> QED
  BY <1>1, <1>2, <1>3, <1>4, <1>5, <1>6

LEMMA CleanupStep ==
  ASSUME Inv, CleanupClients
  PROVE  RateInv' /\ \A c \in Client : Credit(c)' = Credit(c)
<1> USE DEF Inv, RateInv
<1>0. /\ now' = now /\ spent' = spent
      /\ pc' = pc /\ who' = who /\ held' = held /\ since' = since
  BY DEF CleanupClients, handlerVars
<1>1. \A c \in Client : clients'[c] = IF Stale(c) THEN NoEntry ELSE clients[c]
  BY DEF CleanupClients
<1>2. \A c \in Client : Known(c)' => ~Stale(c) /\ Known(c) /\ clients'[c] = clients[c]
  BY <1>1 DEF Known, NoEntry
<1>3. \A c \in Client :
        Known(c)' => /\ clients[c].limiter \in Limiter
                     /\ bucket'[clients[c].limiter] = bucket[clients[c].limiter]
  <2> SUFFICES ASSUME NEW c \in Client, Known(c)'
               PROVE  /\ clients[c].limiter \in Limiter
                      /\ bucket'[clients[c].limiter] = bucket[clients[c].limiter]
    OBVIOUS
  <2>1. clients[c].limiter \in Limiter
    BY <1>2 DEF Known, TypeInv, TypeOK, Entry
  <2>2. clients[c].limiter \notin Unused'
    BY <1>2 DEF Unused
  <2> QED
    BY <2>1, <2>2 DEF CleanupClients
<1>4. OwnLimiter'
  <2> SUFFICES ASSUME NEW c \in Client, NEW d \in Client, Known(c)',
                      clients'[c].limiter = clients'[d].limiter
               PROVE  c = d
    BY DEF OwnLimiter
  <2>1. Known(d)'
    BY DEF Known
  <2> QED
    BY <1>2, <2>1 DEF OwnLimiter
<1>5. AskedInTime'
  BY <1>0, <1>2, <1>3 DEF AskedInTime
<1>6. \A h \in Handler : pc[h] = "limited" => clients'[who[h]] = clients[who[h]]
  BY <1>1, HeldIsNotStale DEF TypeInv, Handling
<1>7. HeldInTime' /\ HeldIsCurrent'
  BY <1>0, <1>6 DEF HeldInTime, HeldIsCurrent
<1>8. CleanedInTime'
  BY <1>0, <1>2, DurationAssumption
  DEF CleanupClients, CleanedInTime, Stale, TypeInv, TypeOK, Entry
<1>9. \A c \in Client : Credit(c)' = Credit(c)
  <2> SUFFICES ASSUME NEW c \in Client
               PROVE  Credit(c)' = Credit(c)
    OBVIOUS
  <2>1. CASE Known(c)'
    BY <1>0, <1>2, <1>3, <2>1 DEF Credit, Level
  <2>2. CASE ~Known(c)'
    <3>1. ~Known(c) \/ Stale(c)
      BY <1>1, <2>2 DEF Known
    <3>2. Credit(c) = Capacity
      BY <3>1, CreditType, StaleIsFull
    <3> QED
      BY <2>2, <3>2 DEF Credit
  <2> QED
    BY <2>1, <2>2
<1>10. AdmissionBound'
  BY <1>0, <1>9 DEF AdmissionBound
<1> QED
  BY <1>4, <1>5, <1>7, <1>8, <1>9, <1>10

LEMMA PassStep ==
  ASSUME NEW h \in Handler, Inv, Pass(h), NEW l, l = held[h], NEW d, d = who[h]
  PROVE  /\ RateInv'
         /\ Credit(d) >= Cost /\ Credit(d)' = Credit(d) - Cost
         /\ \A c \in Client \ {d} : Credit(c)' = Credit(c)
<1> USE DEF Inv, RateInv
<1>1. /\ l \in Limiter /\ d \in Client /\ clients[d].limiter = l /\ Known(d)
      /\ now <= clients[d].lastSeen + MaxHold
  <2>1. l \in Limiter /\ d \in Client /\ clients[d].limiter = l
    BY DEF Pass, TypeInv, Handling, HeldIsCurrent
  <2>2. Known(d)
    BY <2>1, SetAssumption DEF Known
  <2>3. now <= clients[d].lastSeen + MaxHold
    BY <2>1, DurationAssumption DEF Pass, HeldInTime, TypeInv, TypeOK, Entry
  <2> QED
    BY <2>1, <2>2, <2>3
<1>2. /\ clients' = clients /\ now' = now /\ nextClean' = nextClean
      /\ \A c \in Client : Known(c)' = Known(c)
  BY DEF Pass, Known
<1>3. bucket' = [bucket EXCEPT ![l] = [tokens |-> Level(l, now) - Cost, last |-> now]]
  BY DEF Pass
<1>4. \A c \in Client :
        Known(c) /\ c # d => clients[c].limiter \in Limiter \ {l}
  BY <1>1 DEF OwnLimiter, Known, TypeInv, TypeOK, Entry
<1>5. OwnLimiter' /\ CleanedInTime'
  BY <1>2 DEF OwnLimiter, CleanedInTime
<1>6. AskedInTime'
  BY <1>1, <1>2, <1>3, <1>4 DEF AskedInTime, TypeInv, TypeOK, Entry
<1>7. HeldInTime' /\ HeldIsCurrent'
  BY <1>2 DEF Pass, Answered, HeldInTime, HeldIsCurrent, TypeInv, TypeOK
<1>8. Credit(d) >= Cost /\ Credit(d)' = Credit(d) - Cost
  <2>1. Level(l, now) \in 0..Capacity /\ Level(l, now) - Cost \in 0..Capacity
    BY <1>1, LevelType, DurationAssumption DEF Pass, LastPast, TypeInv, TypeOK
  <2>2. bucket'[l] = [tokens |-> Level(l, now) - Cost, last |-> now]
    BY <1>1, <1>3 DEF TypeInv, TypeOK
  <2>3. Level(l, now)' = Level(l, now) - Cost
    BY <1>2, <2>1, <2>2, DurationAssumption DEF Level, TypeInv, TypeOK
  <2>4. Credit(d) = Level(l, now) /\ Credit(d)' = Level(l, now) - Cost
    BY <1>1, <1>2, <2>3 DEF Credit
  <2> QED
    BY <2>4 DEF Pass
<1>9. \A c \in Client \ {d} : Credit(c)' = Credit(c)
  BY <1>2, <1>3, <1>4 DEF Credit, Level, TypeInv, TypeOK
<1>10. AdmissionBound'
  <2> SUFFICES ASSUME NEW c \in Client
               PROVE  spent'[c] + Credit(c)' <= Capacity + now'
    BY DEF AdmissionBound
  <2>1. /\ spent[c] + Credit(c) <= Capacity + now
        /\ spent[c] \in Nat /\ Credit(c) \in 0..Capacity
    BY CreditType DEF AdmissionBound, TypeInv, TypeOK
  <2>2. CASE c = d
    <3>1. spent'[c] = spent[c] + Cost
      BY <1>1, <2>2 DEF Pass, TypeInv, TypeOK
    <3> QED
      BY <1>2, <1>8, <2>1, <2>2, <3>1, DurationAssumption DEF TypeInv, TypeOK
  <2>3. CASE c # d
    <3>1. spent'[c] = spent[c]
      BY <1>1, <2>3 DEF Pass, TypeInv, TypeOK
    <3> QED
      BY <1>2, <1>9, <2>1, <2>3, <3>1
  <2> QED
    BY <2>2, <2>3
<1> QED
  BY <1>5, <1>6, <1>7, <1>8, <1>9, <1>10

LEMMA GetLimiterStep ==
  ASSUME NEW h \in Handler, NEW c \in Client, Inv, GetLimiter(h, c)
  PROVE  RateInv' /\ \A d \in Client : Credit(d)' = Credit(d)
<1> USE DEF Inv, RateInv
<1>1. /\ now' = now /\ nextClean' = nextClean /\ bucket' = bucket /\ spent' = spent
      /\ pc' = [pc EXCEPT ![h] = "limited"]
      /\ who' = [who EXCEPT ![h] = c]
      /\ held' = [held EXCEPT ![h] = clients[c].limiter]
      /\ since' = [since EXCEPT ![h] = now]
  BY DEF GetLimiter, Take
<1>2. \A d \in Client :
        /\ clients'[d].limiter = clients[d].limiter
        /\ clients'[d].lastSeen = IF d = c THEN now ELSE clients[d].lastSeen
  BY DEF GetLimiter, TypeInv, TypeOK, Entry
<1>3. \A d \in Client : /\ Known(d)' = Known(d)
                        /\ clients[d].lastSeen \in Nat
                        /\ Known(d) => clients[d].limiter \in Limiter
  BY <1>2 DEF Known, TypeInv, TypeOK, Entry
<1>4. OwnLimiter'
  BY <1>2, <1>3 DEF OwnLimiter
<1>5. AskedInTime'
  BY <1>1, <1>2, <1>3, DurationAssumption DEF AskedInTime, LastPast, TypeInv, TypeOK
<1>6. HeldInTime'
  <2> SUFFICES ASSUME NEW g \in Handler, pc'[g] = "limited"
               PROVE  /\ now <= since'[g] + MaxHold
                      /\ since'[g] <= clients'[who'[g]].lastSeen
    BY <1>1 DEF HeldInTime
  <2>1. CASE g = h
    BY <1>1, <1>2, <2>1, DurationAssumption DEF TypeInv, TypeOK
  <2>2. CASE g # h
    <3>1. pc[g] = "limited" /\ since'[g] = since[g] /\ who'[g] = who[g]
      BY <1>1, <2>2 DEF TypeInv, TypeOK
    <3>2. who[g] \in Client /\ since[g] \in Nat
      BY <3>1 DEF TypeInv, TypeOK, State, Handling
    <3>3. now <= since[g] + MaxHold /\ since[g] <= clients[who[g]].lastSeen
      BY <3>1 DEF HeldInTime
    <3>4. Known(who[g])
      BY <3>1, HeldIsNotStale
    <3>5. clients[who[g]].lastSeen <= now
      BY <3>2, <3>4 DEF AskedInTime
    <3> QED
      BY <1>2, <1>3, <3>1, <3>2, <3>3, <3>5 DEF TypeInv, TypeOK
  <2> QED
    BY <2>1, <2>2
<1>7. HeldIsCurrent'
  BY <1>1, <1>2 DEF HeldIsCurrent, TypeInv, TypeOK, State, Handling
<1>8. CleanedInTime'
  BY <1>1, <1>2, <1>3, DurationAssumption
  DEF CleanedInTime, AskedInTime, TypeInv, TypeOK
<1>9. \A d \in Client : Credit(d)' = Credit(d)
  BY <1>1, <1>2, <1>3 DEF Credit, Level
<1>10. AdmissionBound'
  BY <1>1, <1>9 DEF AdmissionBound
<1> QED
  BY <1>4, <1>5, <1>6, <1>7, <1>8, <1>9, <1>10

LEMMA NewLimiterStep ==
  ASSUME NEW h \in Handler, NEW c \in Client, Inv, NewLimiter(h, c)
  PROVE  RateInv' /\ \A d \in Client : Credit(d)' = Credit(d)
<1> USE DEF Inv, RateInv
<1>1. PICK l \in Unused :
        /\ clients' = [clients EXCEPT ![c] = [limiter |-> l, lastSeen |-> now]]
        /\ bucket' = [bucket EXCEPT ![l] = Full(now)]
        /\ Take(h, c, l)
  BY DEF NewLimiter
<1>2. /\ now' = now /\ nextClean' = nextClean /\ spent' = spent
      /\ pc' = [pc EXCEPT ![h] = "limited"]
      /\ who' = [who EXCEPT ![h] = c]
      /\ held' = [held EXCEPT ![h] = l]
      /\ since' = [since EXCEPT ![h] = now]
  BY <1>1 DEF Take
<1>3. l \in Limiter /\ l # NoLimiter /\ ~Known(c)
  BY SetAssumption DEF Unused, NewLimiter
<1>4. /\ clients'[c] = [limiter |-> l, lastSeen |-> now]
      /\ \A d \in Client \ {c} : clients'[d] = clients[d] /\ clients[d].limiter # l
      /\ bucket'[l] = Full(now)
      /\ \A m \in Limiter \ {l} : bucket'[m] = bucket[m]
  BY <1>1, <1>3 DEF Unused, TypeInv, TypeOK
<1>5. /\ Known(c)'
      /\ \A d \in Client \ {c} :
           /\ Known(d)' = Known(d)
           /\ Known(d) => clients[d].limiter \in Limiter \ {l}
  BY <1>3, <1>4 DEF Known, TypeInv, TypeOK, Entry
<1>6. \A g \in Handler :
        g # h /\ pc[g] = "limited" => who[g] \in Client \ {c}
  BY <1>3, HeldIsNotStale DEF TypeInv, Handling
<1>7. OwnLimiter'
  BY <1>4, <1>5 DEF OwnLimiter, Known
<1>8. AskedInTime'
  BY <1>2, <1>4, <1>5, DurationAssumption DEF AskedInTime, Full, TypeInv, TypeOK
<1>9. HeldInTime'
  BY <1>2, <1>4, <1>6, DurationAssumption DEF HeldInTime, TypeInv, TypeOK
<1>10. HeldIsCurrent'
  BY <1>2, <1>4, <1>6 DEF HeldIsCurrent, TypeInv, TypeOK
<1>11. CleanedInTime'
  <2>1. nextClean <= now + IdleLimit + CleanupPeriod
    BY DurationAssumption DEF TypeInv, TypeOK, CleanedInTime
  <2> QED
    BY <1>2, <1>4, <1>5, <2>1 DEF CleanedInTime, Known
<1>12. \A d \in Client : Credit(d)' = Credit(d)
  <2>1. Credit(c)' = Capacity
    BY <1>2, <1>4, <1>5, DurationAssumption DEF Credit, Level, Full, TypeInv, TypeOK
  <2>2. Credit(c) = Capacity
    BY <1>3 DEF Credit
  <2>3. \A d \in Client \ {c} : Credit(d)' = Credit(d)
    BY <1>2, <1>4, <1>5 DEF Credit, Level
  <2> QED
    BY <2>1, <2>2, <2>3
<1>13. AdmissionBound'
  BY <1>2, <1>12 DEF AdmissionBound
<1> QED
  BY <1>7, <1>8, <1>9, <1>10, <1>11, <1>12, <1>13
-----------------------------------------------------------------------------
LEMMA RateStep == Inv /\ [Next]_vars => RateInv'
<1> SUFFICES ASSUME Inv, [Next]_vars
             PROVE  RateInv'
  OBVIOUS
<1>1. ASSUME NEW h \in Handler, Refuse(h) \/ Respond(h)
      PROVE  RateInv'
  BY <1>1 DEF Refuse, Respond, Answered, Inv, RateInv, OwnLimiter, AskedInTime,
    HeldInTime, CleanedInTime, HeldIsCurrent, AdmissionBound, Credit, Level, Known,
    TypeInv, TypeOK
<1>2. ASSUME NEW h \in Handler, NEW c \in Client, Skip(h, c)
      PROVE  RateInv'
  BY <1>2 DEF Skip, Inv, RateInv, OwnLimiter, AskedInTime, HeldInTime,
    CleanedInTime, HeldIsCurrent, AdmissionBound, Credit, Level, Known, TypeInv, TypeOK
<1>3. CASE UNCHANGED vars
  BY <1>3 DEF vars, handlerVars, Inv, RateInv, OwnLimiter, AskedInTime, HeldInTime,
    CleanedInTime, HeldIsCurrent, AdmissionBound, Credit, Level, Known
<1>4. ASSUME NEW h \in Handler, Pass(h)
      PROVE  RateInv'
  BY <1>4, PassStep
<1> QED
  BY <1>1, <1>2, <1>3, <1>4, AdvanceStep, CleanupStep, GetLimiterStep, NewLimiterStep
  DEF Next

LEMMA RateCorrect == Spec => []Inv
<1>1. Init => Inv
  BY TypeInit, RateInit DEF Inv
<1>2. Inv /\ [Next]_vars => Inv'
  BY TypeStep, RateStep DEF Inv
<1> QED
  BY <1>1, <1>2, PTL DEF Spec

\* No client gets more through than its burst and what it regained since,
\* although its limiter is removed and made again.
THEOREM AdmissionTheorem == Spec => []AdmissionBound
<1>1. Inv => AdmissionBound
  BY DEF Inv, RateInv
<1> QED
  BY <1>1, RateCorrect, PTL

\* No handler asks a limiter that is no longer the client's.
THEOREM HeldTheorem == Spec => []HeldIsCurrent
<1>1. Inv => HeldIsCurrent
  BY DEF Inv, RateInv
<1> QED
  BY <1>1, RateCorrect, PTL

\* The map keeps no entry for longer than a period after it became stale.
THEOREM ForgottenTheorem == Spec => []ForgottenInTime
<1>1. Inv => ForgottenInTime
  BY DurationAssumption
  DEF Inv, RateInv, CleanedInTime, ForgottenInTime, TypeInv, TypeOK, Entry
<1> QED
  BY <1>1, RateCorrect, PTL
-----------------------------------------------------------------------------
(* The refinement of TokenBucket.  A step that leaves every credit and     *)
(* every answer alone is a stutter.                                        *)

Verdict(h) == IF pc[h] \in {"passed", "aborted"} THEN pc[h] ELSE "none"
SameCredit == \A c \in Client : Credit(c)' = Credit(c)

LEMMA BucketInit == Init => Bucket!Init
BY DEF Init, Bucket!Init, Credit, Known, NoEntry

\* The abstract bucket changes its answers as the handlers change theirs.
LEMMA VerdictStep ==
  ASSUME NEW h \in Handler, NEW v, pc \in [Handler -> State],
         pc' = [pc EXCEPT ![h] = v]
  PROVE  [g \in Handler |-> Verdict(g)]' =
           [[g \in Handler |-> Verdict(g)] EXCEPT
              ![h] = IF v \in {"passed", "aborted"} THEN v ELSE "none"]
BY DEF Verdict

LEMMA BucketStep == Inv /\ [Next]_vars => [Bucket!Next]_Bucket!vars
<1> SUFFICES ASSUME Inv, [Next]_vars
             PROVE  [Bucket!Next]_Bucket!vars
  OBVIOUS
<1>0. pc \in [Handler -> State]
  BY DEF Inv, TypeInv, TypeOK
<1>1. CASE Advance
  <2>1. \A c \in Client :
          Credit(c)' = IF Credit(c) < Capacity THEN Credit(c) + 1 ELSE Capacity
    BY <1>1, AdvanceStep
  <2>2. pc' = pc
    BY <1>1 DEF Advance, handlerVars
  <2>3. Bucket!Tick
    BY <2>1, <2>2 DEF Bucket!Tick
  <2> QED
    BY <2>3 DEF Bucket!Next
<1>2. ASSUME SameCredit, pc' = pc
      PROVE  UNCHANGED Bucket!vars
  BY <1>2 DEF Bucket!vars, SameCredit
<1>3. CASE CleanupClients
  BY <1>2, <1>3, CleanupStep DEF CleanupClients, handlerVars, SameCredit
<1>4. ASSUME NEW h \in Handler, NEW c \in Client, GetLimiter(h, c) \/ NewLimiter(h, c)
      PROVE  UNCHANGED Bucket!vars
  <2>1. SameCredit
    BY <1>4, GetLimiterStep, NewLimiterStep DEF SameCredit
  <2>2. pc[h] = "idle" /\ pc' = [pc EXCEPT ![h] = "limited"]
    BY <1>4 DEF GetLimiter, NewLimiter, Take
  <2>3. \A g \in Handler : Verdict(g)' = Verdict(g)
    BY <1>0, <2>2 DEF Verdict
  <2> QED
    BY <2>1, <2>3 DEF Bucket!vars, SameCredit, Verdict
<1>5. ASSUME NEW h \in Handler, Pass(h)
      PROVE  Bucket!Next
  <2> DEFINE d == who[h]
  <2>1. d \in Client \ Exempt
    BY <1>5 DEF Pass, Inv, TypeInv, Handling
  <2>2. pc[h] = "limited" /\ pc' = [pc EXCEPT ![h] = "passed"]
    BY <1>5 DEF Pass, Answered
  <2>3. \A c \in Client :
          Credit(c)' = IF c = who[h] THEN Credit(c) - Cost ELSE Credit(c)
    BY <1>5, <2>1, PassStep
  <2>4. Credit(who[h]) >= Cost
    BY <1>5, PassStep
  <2>5. Bucket!Answer(h, "passed")
    BY <1>0, <2>2, VerdictStep DEF Bucket!Answer, Verdict
  <2>6. Bucket!Pass(h, who[h])
    BY <2>1, <2>3, <2>4, <2>5 DEF Bucket!Pass
  <2> QED
    BY <2>1, <2>6 DEF Bucket!Next
<1>6. ASSUME NEW h \in Handler, Refuse(h) \/ Respond(h)
      PROVE  SameCredit
  BY <1>6 DEF Refuse, Respond, Answered, SameCredit, Credit, Level, Known
<1>7. ASSUME NEW h \in Handler, Refuse(h)
      PROVE  Bucket!Next
  <2>1. /\ who[h] \in Client \ Exempt
        /\ held[h] = clients[who[h]].limiter /\ held[h] \in Limiter
    BY <1>7 DEF Refuse, Inv, TypeInv, RateInv, Handling, HeldIsCurrent
  <2>2. Credit(who[h]) < Cost
    BY <1>7, <2>1, SetAssumption DEF Refuse, Credit, Known
  <2>3. pc[h] = "limited" /\ pc' = [pc EXCEPT ![h] = "aborted"]
    BY <1>7 DEF Refuse, Answered
  <2>4. Bucket!Answer(h, "aborted")
    BY <1>0, <2>3, VerdictStep DEF Bucket!Answer, Verdict
  <2>5. Bucket!Refuse(h, who[h])
    BY <1>6, <1>7, <2>1, <2>2, <2>4 DEF Bucket!Refuse, SameCredit
  <2> QED
    BY <2>1, <2>5 DEF Bucket!Next
<1>8. ASSUME NEW h \in Handler, Respond(h)
      PROVE  Bucket!Next
  <2>1. pc' = [pc EXCEPT ![h] = "idle"]
    BY <1>8 DEF Respond
  <2>2. Bucket!Respond(h)
    BY <1>0, <1>6, <1>8, <2>1, VerdictStep DEF Bucket!Respond, SameCredit, Verdict
  <2> QED
    BY <2>2 DEF Bucket!Next
<1>9. ASSUME NEW h \in Handler, NEW c \in Client, Skip(h, c)
      PROVE  Bucket!Next
  <2>1. pc[h] = "idle" /\ pc' = [pc EXCEPT ![h] = "passed"] /\ SameCredit
    BY <1>9 DEF Skip, SameCredit, Credit, Level, Known
  <2>2. Bucket!Answer(h, "passed")
    BY <1>0, <2>1, VerdictStep DEF Bucket!Answer, Verdict
  <2>3. Bucket!PassExempt(h)
    BY <1>9, <2>1, <2>2 DEF Bucket!PassExempt, SameCredit, Skip
  <2> QED
    BY <2>3 DEF Bucket!Next
<1>10. CASE UNCHANGED vars
  BY <1>2, <1>10 DEF vars, handlerVars, SameCredit, Credit, Level, Known
<1> QED
  BY <1>1, <1>3, <1>4, <1>5, <1>7, <1>8, <1>9, <1>10 DEF Next

\* The map of limiters, the handlers and the cleanup implement one bucket for
\* each client: that entries are removed cannot be observed.
THEOREM BucketTheorem == Spec => BucketSpec
<1> QED
  BY BucketInit, BucketStep, RateCorrect, PTL DEF Spec, BucketSpec, Bucket!Spec
=============================================================================
