------------------------------ MODULE AppLease ------------------------------
(***************************************************************************)
(* What AppLockService promises to its callers, with no database in it:    *)
(* every process that acquired the application lock knows the instant its  *)
(* lease ends, and two processes never hold a lease at the same time.      *)
(*                                                                         *)
(* lease[p] is the expiry p was last told (NoLease when p uses none) and   *)
(* from[p] the instant from which p may act on it, in seconds of p's own   *)
(* wall clock.  Clocks may differ by up to MaxSkew seconds, so a lease is  *)
(* safe to use until MaxSkew seconds before it ends.                       *)
(***************************************************************************)
EXTENDS Integers

CONSTANTS
  Process,    \* the incarnations of the program; each has a lock_id of its own
  Skew,       \* how far each process's wall clock runs ahead of true time
  MaxSkew,    \* bound on the difference of two wall clocks
  TTL         \* the longest lease that is granted

VARIABLES now, lease, from

vars == <<now, lease, from>>

NoLease == -1

Clock(p) == now + Skew[p]

\* p may act as the one owner of the application.
Valid(p) == from[p] <= Clock(p) /\ Clock(p) + MaxSkew < lease[p]

\* The true time from which p may act, if it may act from f on.
StartOf(p, f) == IF f > Clock(p) THEN f - Skew[p] ELSE now

Init ==
  /\ now = 0
  /\ lease = [p \in Process |-> NoLease]
  /\ from = [p \in Process |-> 0]

Advance == now' = now + 1 /\ UNCHANGED <<lease, from>>

(***************************************************************************)
(* A lease is granted, or extended, only if every other lease is over by   *)
(* the time p may act on its own; otherwise p is told to wait.             *)
(***************************************************************************)
Grant(p) ==
  /\ lease'[p] \in 0..(Clock(p) + TTL) /\ from'[p] \in Nat
  /\ lease' = [lease EXCEPT ![p] = lease'[p]]
  /\ from' = [from EXCEPT ![p] = from'[p]]
  /\ \A q \in Process \ {p} :
       StartOf(p, from'[p]) + Skew[q] + MaxSkew >= lease[q]
  /\ UNCHANGED now

Drop(p) ==
  /\ lease' = [lease EXCEPT ![p] = NoLease]
  /\ from' = [from EXCEPT ![p] = 0]
  /\ UNCHANGED now

Next == Advance \/ \E p \in Process : Grant(p) \/ Drop(p)

Spec == Init /\ [][Next]_vars

\* No two processes may act as the owner at the same time.
Exclusive == \A p, q \in Process : Valid(p) /\ Valid(q) => p = q
=============================================================================
