------------------------------ MODULE Selection ------------------------------
(***************************************************************************)
(* What is left of a sequence when only some of its members are kept, in   *)
(* their order.  It is SelectSeq with a set for the test, as a recursive   *)
(* function: SelectSeq takes an operator, of which nothing can be proved.  *)
(***************************************************************************)
EXTENDS Naturals, Sequences

\* The members of s that are in S.
Selected(s, S) ==
    LET upTo[n \in 0 .. Len(s)] ==
            IF n = 0 THEN <<>>
            ELSE IF s[n] \in S THEN Append(upTo[n - 1], s[n]) ELSE upTo[n - 1]
    IN  upTo[Len(s)]
=============================================================================
