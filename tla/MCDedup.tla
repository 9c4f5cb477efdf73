------------------------------ MODULE MCDedup ------------------------------
(* Constants of the runs of DeduplicationHandler. *)
EXTENDS DeduplicationHandler, TLC

CONSTANTS p1, p2, k1, k2

Symmetry == Permutations({p1, p2})

Of(k, age) == [key |-> k, age |-> age]

\* One alert, two, one that waited, one with what explains it, and none.
Batches == {<<Of(k1, 0)>>, <<Of(k1, 2)>>, <<Of(k1, 0), Of(k2, 0)>>, <<Of(Low, 0), Of(k2, 0)>>,
            <<Of(Low, 0)>>}

Setup(bs, n, trusted, faulty, crash) ==
    [batches |-> bs, flushes |-> n, trusted |-> trusted, faulty |-> faulty, crashes |-> crash,
     start |-> <<<<k2, 5>>, <<k1, 1>>>>]

\* Nothing fails; something does; nothing is trusted.
Calm      == Setup(Batches \ {<<Of(Low, 0)>>}, 3, TRUE, FALSE, 0)
Faulty    == Setup({<<Of(k1, 0)>>, <<Of(k1, 0), Of(k2, 0)>>}, 2, TRUE, TRUE, 1)
Untrusted == Setup(Batches, 2, FALSE, FALSE, 0)
All == {Calm, Faulty, Untrusted}

\* One alert again and again, and sending it may fail.
Failing == {Setup({<<Of(k1, 0)>>}, 2, TRUE, TRUE, 0)}
=============================================================================
