----------------------------- MODULE MCAppLock -----------------------------
(* Instances of AppLock for TLC. *)
EXTENDS AppLock, TLC

CONSTANTS p1, p2, p3

\* All clocks agree; p2's clock is one second ahead.
NoSkew == [p \in Process |-> 0]
SkewP2 == [p \in Process |-> IF p = p2 THEN 1 ELSE 0]

\* Sound where the clocks agree: nothing else tells two processes apart.
Symmetry == Permutations(Process)
=============================================================================
