----------------------------- MODULE RateLimit -----------------------------
(***************************************************************************)
(* The rate limiter of backend/internal/middleware/rate_limit.go, for one  *)
(* call of Add: a map from client addresses to limiters, shared by the     *)
(* handlers of all requests and a goroutine that removes idle entries.     *)
(*                                                                         *)
(* A handler looks its limiter up under the mutex and asks it afterwards,  *)
(* without the mutex.  Tokens are measured in the time that it takes to    *)
(* regain them: a request costs 1/limit, and a full limiter of burst       *)
(* tokens holds burst/limit.                                               *)
(***************************************************************************)
EXTENDS Naturals

CONSTANTS
  Client,        \* client addresses
  Exempt,        \* those that are not limited: the local ones, or all
  NoClient,      \* no address
  Handler,       \* goroutines that handle requests
  Limiter,       \* the rate.Limiter objects in memory
  NoLimiter,     \* nil
  Cost,          \* 1/limit
  Capacity,      \* burst/limit
  IdleLimit,     \* an entry unseen for longer is removed (3 minutes)
  CleanupPeriod, \* the sleep of cleanupClients (1 minute)
  MaxHold,       \* bound on the time from getLimiter to Allow
  MaxNow         \* bound: the model's clock stops here

ASSUME SetAssumption ==
  /\ Exempt \subseteq Client
  /\ NoClient \notin Client
  /\ NoLimiter \notin Limiter

ASSUME DurationAssumption ==
  /\ {Cost, Capacity, IdleLimit, CleanupPeriod, MaxHold, MaxNow} \subseteq Nat

\* 100 s (API) and 30 s (frontend) against 3 minutes: an idle limiter is full
\* again before its entry may be removed.
ASSUME IdleAssumption == Capacity + MaxHold <= IdleLimit

VARIABLES
  now,       \* the clock
  clients,   \* clients: the limiter and the lastSeen of each entry
  bucket,    \* the limiters: tokens, as of the time last
  pc,        \* where each handler is
  who,       \* the client whose request it handles
  held,      \* its local variable limiter
  since,     \* when getLimiter returned it
  nextClean, \* when cleanupClients wakes up
  spent      \* history: the cost of all requests of a client that passed

handlerVars == <<pc, who, held, since>>
vars == <<now, clients, bucket, handlerVars, nextClean, spent>>

NoEntry == [limiter |-> NoLimiter, lastSeen |-> 0]
Entry == [limiter : Limiter \cup {NoLimiter}, lastSeen : Nat]
State == {"idle", "limited", "passed", "aborted"}
Full(t) == [tokens |-> Capacity, last |-> t]

TypeOK ==
  /\ now \in Nat /\ nextClean \in Nat
  /\ clients \in [Client -> Entry]
  /\ bucket \in [Limiter -> [tokens : 0..Capacity, last : Nat]]
  /\ pc \in [Handler -> State]
  /\ who \in [Handler -> Client \cup {NoClient}]
  /\ held \in [Handler -> Limiter \cup {NoLimiter}]
  /\ since \in [Handler -> Nat]
  /\ spent \in [Client -> Nat]

Init ==
  /\ now = 0 /\ nextClean = CleanupPeriod
  /\ clients = [c \in Client |-> NoEntry]
  /\ bucket = [l \in Limiter |-> Full(0)]
  /\ pc = [h \in Handler |-> "idle"]
  /\ who = [h \in Handler |-> NoClient]
  /\ held = [h \in Handler |-> NoLimiter]
  /\ since = [h \in Handler |-> 0]
  /\ spent = [c \in Client |-> 0]

Known(c) == clients[c].limiter # NoLimiter

\* A new limiter is an object that nothing refers to any more.
Unused ==
  Limiter \ ({clients[c].limiter : c \in Client} \cup {held[h] : h \in Handler})

\* Mutant: a limiter gains more than its burst while nobody asks it.
LevelUncapped(l, t) == bucket[l].tokens + (t - bucket[l].last)

\* The tokens of a limiter at time t.
Level(l, t) ==
  LET grown == bucket[l].tokens + (t - bucket[l].last)
  IN  IF grown > Capacity THEN Capacity ELSE grown

-----------------------------------------------------------------------------
(* The handler.                                                            *)

\* A local address, the test environment, or rate limiting disabled.
Skip(h, c) ==
  /\ pc[h] = "idle" /\ c \in Exempt
  /\ pc' = [pc EXCEPT ![h] = "passed"]
  /\ UNCHANGED <<now, clients, bucket, who, held, since, nextClean, spent>>

Take(h, c, l) ==
  /\ pc' = [pc EXCEPT ![h] = "limited"]
  /\ who' = [who EXCEPT ![h] = c]
  /\ held' = [held EXCEPT ![h] = l]
  /\ since' = [since EXCEPT ![h] = now]
  /\ UNCHANGED <<now, nextClean, spent>>

\* Mutant: lastSeen is only set when the entry is created.
GetLimiterUnseen(h, c) ==
  /\ pc[h] = "idle" /\ c \notin Exempt /\ Known(c)
  /\ Take(h, c, clients[c].limiter)
  /\ UNCHANGED <<clients, bucket>>

\* getLimiter, for a client that has an entry.
GetLimiter(h, c) ==
  /\ pc[h] = "idle" /\ c \notin Exempt /\ Known(c)
  /\ clients' = [clients EXCEPT ![c].lastSeen = now]
  /\ Take(h, c, clients[c].limiter)
  /\ UNCHANGED bucket

\* Mutant: the entries of all clients share one limiter.
NewSharedLimiter(h, c) ==
  /\ pc[h] = "idle" /\ c \notin Exempt /\ ~Known(c)
  /\ \E l \in IF \E d \in Client : Known(d)
                THEN {clients[d].limiter : d \in {e \in Client : Known(e)}}
                ELSE Unused :
       /\ clients' = [clients EXCEPT ![c] = [limiter |-> l, lastSeen |-> now]]
       /\ Take(h, c, l)
  /\ UNCHANGED bucket

\* getLimiter, for a client that has none.
NewLimiter(h, c) ==
  /\ pc[h] = "idle" /\ c \notin Exempt /\ ~Known(c)
  /\ \E l \in Unused :
       /\ clients' = [clients EXCEPT ![c] = [limiter |-> l, lastSeen |-> now]]
       /\ bucket' = [bucket EXCEPT ![l] = Full(now)]
       /\ Take(h, c, l)

\* After Allow the handler uses neither the limiter nor the address.
Answered(h, verdict) ==
  /\ pc' = [pc EXCEPT ![h] = verdict]
  /\ who' = [who EXCEPT ![h] = NoClient]
  /\ held' = [held EXCEPT ![h] = NoLimiter]
  /\ since' = [since EXCEPT ![h] = 0]

\* limiter.Allow() takes a token.
Pass(h) ==
  LET l == held[h] IN
  /\ pc[h] = "limited" /\ Level(l, now) >= Cost
  /\ bucket' = [bucket EXCEPT ![l] =
                  [tokens |-> Level(l, now) - Cost, last |-> now]]
  /\ spent' = [spent EXCEPT ![who[h]] = @ + Cost]
  /\ Answered(h, "passed")
  /\ UNCHANGED <<now, clients, nextClean>>

\* limiter.Allow() has none: TooManyRequestsError, and Abort.
Refuse(h) ==
  /\ pc[h] = "limited" /\ Level(held[h], now) < Cost
  /\ Answered(h, "aborted")
  /\ UNCHANGED <<now, clients, bucket, nextClean, spent>>

\* The handler returns.
Respond(h) ==
  /\ pc[h] \in {"passed", "aborted"}
  /\ pc' = [pc EXCEPT ![h] = "idle"]
  /\ UNCHANGED <<now, clients, bucket, who, held, since, nextClean, spent>>

-----------------------------------------------------------------------------
(* The cleanup goroutine, and time.                                        *)

\* Mutant: an entry is removed at the first cleanup after its last request.
UnseenSinceCleanup(c) == now > clients[c].lastSeen

\* Mutant: the entry has to be unseen for another period.
StaleLate(c) == now > clients[c].lastSeen + IdleLimit + CleanupPeriod

Stale(c) == now > clients[c].lastSeen + IdleLimit

\* What the limiters of removed entries hold is forgotten when they are unused.
CleanupClients ==
  /\ now >= nextClean
  /\ clients' = [c \in Client |-> IF Stale(c) THEN NoEntry ELSE clients[c]]
  /\ nextClean' = now + CleanupPeriod
  /\ UNCHANGED <<now, handlerVars, spent>>
  /\ bucket' = [l \in Limiter |-> IF l \in Unused' THEN Full(0) ELSE bucket[l]]

\* The cleanup goroutine wakes up in time, and no handler is suspended for
\* longer than MaxHold between its two steps.
Advance ==
  /\ now < MaxNow
  /\ now < nextClean
  /\ \A h \in Handler : pc[h] = "limited" => now < since[h] + MaxHold
  /\ now' = now + 1
  /\ UNCHANGED <<clients, bucket, handlerVars, nextClean, spent>>

Next ==
  \/ Advance \/ CleanupClients
  \/ \E h \in Handler : Pass(h) \/ Refuse(h) \/ Respond(h)
  \/ \E h \in Handler, c \in Client :
       Skip(h, c) \/ GetLimiter(h, c) \/ NewLimiter(h, c)

Spec == Init /\ [][Next]_vars

-----------------------------------------------------------------------------
(* Properties.                                                             *)

\* The bucket that the map stands for: a client without an entry has a full one.
Credit(c) == IF Known(c) THEN Level(clients[c].limiter, now) ELSE Capacity

\* No client gets more through than its burst and what it regained since: its
\* entry's removal and a new limiter give it nothing that it had not regained.
AdmissionBound == \A c \in Client : spent[c] + Credit(c) <= Capacity + now

\* A handler that got its limiter before a cleanup does not ask a limiter that
\* is no longer the client's.
HeldIsCurrent ==
  \A h \in Handler :
    pc[h] = "limited" => clients[who[h]].limiter = held[h]

\* The map does not keep the entries of clients that went away: each is gone
\* one period after it became stale.
ForgottenInTime ==
  \A c \in Client :
    Known(c) => now <= clients[c].lastSeen + IdleLimit + CleanupPeriod

\* The map of limiters and its cleanup implement one bucket for each client.
Bucket ==
  INSTANCE TokenBucket WITH
    credit <- [c \in Client |-> Credit(c)],
    answer <- [h \in Handler |->
                 IF pc[h] \in {"passed", "aborted"} THEN pc[h] ELSE "none"]
BucketSpec == Bucket!Spec
=============================================================================
