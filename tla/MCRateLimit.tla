---------------------------- MODULE MCRateLimit ----------------------------
(* An instance of RateLimit for TLC. *)
EXTENDS RateLimit, TLC

CONSTANTS c1, c2, local, h1, h2, l1, l2, l3, l4

\* The limiters in memory are alike until they are used, and so are the
\* goroutines, and the clients that are not exempt.
Symmetry ==
  Permutations(Handler) \cup Permutations(Limiter)
    \cup Permutations(Client \ Exempt)
=============================================================================
