--------------------------- MODULE MCQueueHandler ---------------------------
(* Constants of the runs of QueueHandler. *)
EXTENDS QueueHandler, TLC

CONSTANTS l1, l2, c1, c2, w1, w2, r1, r2, r3

Symmetry == Permutations({l1, l2}) \cup Permutations({c1, c2}) \cup Permutations({w1, w2})

Quiet == [r \in Records |-> {}]
\* Handling r1 may log r2 and handling r2 may log r3.
Chain == [r \in Records |-> IF r = r1 THEN {r2} ELSE IF r = r2 THEN {r3} ELSE {}]
\* Handling r1 may log r3, and that is all.
OneEcho == [r \in Records |-> IF r = r1 THEN {r3} ELSE {}]

NoneFatal == {}
FirstFatal == {r1}
TwoFatal == {r1, r2}
=============================================================================
