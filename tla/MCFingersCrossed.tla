-------------------------- MODULE MCFingersCrossed --------------------------
(* Constants of the runs of FingersCrossedHandler. *)
EXTENDS FingersCrossedHandler, TLC

CONSTANTS x1, x2, u1, u2, r1, r2, r3

Symmetry == Permutations({x1, x2}) \cup Permutations({u1, u2})

\* Units of their own, a buffer that is released for good, a wrapped handler
\* that fails.
Solo == [sharing |-> FALSE, units |-> 2, records |-> {r1, r2, r3},
         limit |-> 2, stop |-> TRUE, faulty |-> TRUE]
\* A unit in two contexts, a buffer that starts afresh.
Shared == [sharing |-> TRUE, units |-> 1, records |-> {r1, r3},
           limit |-> 1, stop |-> FALSE, faulty |-> FALSE]
Both == {Solo, Shared}

\* A unit in two contexts, a buffer that is released for good.
Race == {[sharing |-> TRUE, units |-> 1, records |-> {r1, r3},
          limit |-> 0, stop |-> TRUE, faulty |-> FALSE]}
=============================================================================
