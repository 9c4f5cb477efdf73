--------------------------- MODULE SelectionProofs ---------------------------
(***************************************************************************)
(* What Selected leaves of a sequence, by induction over the sequence: its *)
(* members, its order, and what becomes of it as members come and go; and  *)
(* what FlattenSeq makes of sequences of which one has a member.  The      *)
(* library's induction theorems take an operator, which the provers cannot *)
(* instantiate; here induction is over a set, from the well-founded order  *)
(* of the natural numbers.                                                 *)
(***************************************************************************)
EXTENDS Selection, SequencesExt, SequenceTheorems, WellFoundedInduction, TLAPS

\* Induction over the natural numbers, for a set rather than a predicate.
LEMMA NatSetInduction ==
    ASSUME NEW I, 0 \in I, \A n \in Nat : n \in I => n + 1 \in I
    PROVE  Nat \subseteq I
<1>. DEFINE less == {pair \in Nat \X Nat : pair[1] < pair[2]}
            left == Nat \ I
<1>. SUFFICES ASSUME left # {} PROVE FALSE
    OBVIOUS
<1>1. IsWellFoundedOn(less, Nat)
    BY NatLessThanWellFounded DEF OpToRel
<1>. HIDE DEF less
<1>2. PICK n \in left : \A m \in left : <<m, n>> \notin less
    BY <1>1, WFMin
<1>3. n \in Nat /\ n # 0
    OBVIOUS
<1>4. n - 1 \in Nat /\ n - 1 < n /\ (n - 1) + 1 = n
    BY <1>3
<1>5. n - 1 \notin left
    BY <1>2, <1>3, <1>4 DEF less
<1>. QED
    BY <1>4, <1>5

\* Induction over sequences, likewise.
LEMMA SeqSetInduction ==
    ASSUME NEW T, NEW I, <<>> \in I,
           \A s \in Seq(T), e \in T : s \in I => Append(s, e) \in I
    PROVE  Seq(T) \subseteq I
<1>. DEFINE L == {n \in Nat : \A s \in Seq(T) : Len(s) = n => s \in I}
<1>1. 0 \in L
    BY SMT
<1>2. ASSUME NEW n \in Nat, n \in L PROVE n + 1 \in L
  <2>. SUFFICES ASSUME NEW s \in Seq(T), Len(s) = n + 1 PROVE s \in I
      OBVIOUS
  <2>. DEFINE r == [i \in 1 .. n |-> s[i]]
  <2>1. r \in Seq(T) /\ Len(r) = n /\ s[n + 1] \in T
      BY SMT
  <2>2. s = Append(r, s[n + 1])
      BY <2>1, SMT
  <2>. HIDE DEF r
  <2>. QED
      BY <1>2, <2>1, <2>2
<1>. HIDE DEF L
<1>3. Nat \subseteq L
    BY <1>1, <1>2, NatSetInduction
<1>. QED
    BY <1>3 DEF L

\* f is the recursive function of Selected, up to n.
UpTo(f, s, S, n) ==
    f = [i \in 0 .. n |->
            IF i = 0 THEN <<>> ELSE IF s[i] \in S THEN Append(f[i - 1], s[i]) ELSE f[i - 1]]

\* The recursive function exists.
LEMMA UpToExists ==
    ASSUME NEW s, NEW S
    PROVE  \A n \in Nat : \E f : UpTo(f, s, S, n)
<1>. DEFINE I == {n \in Nat : \E f : UpTo(f, s, S, n)}
<1>1. 0 \in I
  <2>1. UpTo([i \in 0 .. 0 |-> <<>>], s, S, 0)
      BY DEF UpTo
  <2>. QED
      BY <2>1
<1>2. ASSUME NEW n \in Nat, n \in I PROVE n + 1 \in I
  <2>1. PICK f : UpTo(f, s, S, n)
      BY <1>2
  <2>. DEFINE g == [i \in 0 .. n + 1 |->
                       IF i = n + 1 THEN (IF s[i] \in S THEN Append(f[n], s[i]) ELSE f[n]) ELSE f[i]]
  <2>2. \A i \in 0 .. n : g[i] = f[i]
      OBVIOUS
  <2>3. \A i \in 0 .. n + 1 : g[i] =
            IF i = 0 THEN <<>> ELSE IF s[i] \in S THEN Append(g[i - 1], s[i]) ELSE g[i - 1]
    <3>. SUFFICES ASSUME NEW i \in 0 .. n + 1
                  PROVE g[i] = IF i = 0 THEN <<>>
                               ELSE IF s[i] \in S THEN Append(g[i - 1], s[i]) ELSE g[i - 1]
        OBVIOUS
    <3>1. CASE i = n + 1
        BY <2>2, <3>1
    <3>2. CASE i \in 0 .. n
        <4>1. f[i] = IF i = 0 THEN <<>> ELSE IF s[i] \in S THEN Append(f[i - 1], s[i]) ELSE f[i - 1]
            BY <2>1, <3>2, Zenon DEF UpTo
        <4>2. i # 0 => i - 1 \in 0 .. n
            BY <3>2
        <4>. HIDE DEF g
        <4>. QED
            BY <2>2, <3>2, <4>1, <4>2
    <3>. QED
        BY <3>1, <3>2
  <2>4. UpTo(g, s, S, n + 1)
      BY <2>3 DEF UpTo
  <2>. QED
      BY <2>4
<1>. HIDE DEF I
<1>3. Nat \subseteq I
    BY <1>1, <1>2, NatSetInduction
<1>. QED
    BY <1>3 DEF I

\* Each value follows from the one before.
LEMMA UpToNext ==
    \A s, S, f : \A n \in Nat : UpTo(f, s, S, n) =>
        /\ f[0] = <<>>
        /\ \A i \in 1 .. n : f[i] = IF s[i] \in S THEN Append(f[i - 1], s[i]) ELSE f[i - 1]
<1>. SUFFICES ASSUME NEW s, NEW S, NEW f, NEW n \in Nat, UpTo(f, s, S, n)
              PROVE  /\ f[0] = <<>>
                     /\ \A i \in 1 .. n :
                            f[i] = IF s[i] \in S THEN Append(f[i - 1], s[i]) ELSE f[i - 1]
    OBVIOUS
<1>1. \A i \in 0 .. n : f[i] =
          IF i = 0 THEN <<>> ELSE IF s[i] \in S THEN Append(f[i - 1], s[i]) ELSE f[i - 1]
    BY Zenon DEF UpTo
<1>. QED
    BY <1>1

\* Selected is the last value of one.
LEMMA SelectedIs ==
    ASSUME NEW s, NEW S, Len(s) \in Nat
    PROVE  \E f : UpTo(f, s, S, Len(s)) /\ Selected(s, S) = f[Len(s)]
<1>. DEFINE F == CHOOSE f : UpTo(f, s, S, Len(s))
<1>1. \E f : UpTo(f, s, S, Len(s))
    BY UpToExists
<1>2. UpTo(F, s, S, Len(s))
    BY <1>1
<1>3. Selected(s, S) = F[Len(s)]
    BY DEF Selected, UpTo
<1>. QED
    BY <1>2, <1>3

\* Nothing is left of nothing.
LEMMA SelectedEmpty == \A S : Selected(<<>>, S) = <<>>
<1>. SUFFICES ASSUME NEW S PROVE Selected(<<>>, S) = <<>>
    OBVIOUS
<1>1. PICK f : UpTo(f, <<>>, S, 0) /\ Selected(<<>>, S) = f[0]
  <2>1. Len(<<>>) = 0
      OBVIOUS
  <2>. QED
      BY <2>1, SelectedIs
<1>2. f[0] = <<>>
    BY <1>1, UpToNext
<1>. QED
    BY <1>1, <1>2

\* A member that is added is the last that is left, or is left out.
LEMMA SelectedAppend ==
    ASSUME NEW S, NEW T, NEW s \in Seq(T), NEW e \in T
    PROVE  Selected(Append(s, e), S) =
               IF e \in S THEN Append(Selected(s, S), e) ELSE Selected(s, S)
<1>. DEFINE n == Len(s)
            t == Append(s, e)
<1>1. n \in Nat /\ Len(t) = n + 1 /\ t[n + 1] = e /\ \A i \in 1 .. n : s[i] = t[i]
    OBVIOUS
<1>2. PICK f : UpTo(f, s, S, n) /\ Selected(s, S) = f[n]
    BY SelectedIs
<1>. HIDE DEF t, n
<1>3. PICK g : UpTo(g, t, S, n + 1) /\ Selected(t, S) = g[n + 1]
    BY <1>1, SelectedIs
<1>4. /\ f[0] = <<>>
      /\ \A i \in 1 .. n : f[i] = IF s[i] \in S THEN Append(f[i - 1], s[i]) ELSE f[i - 1]
    BY <1>1, <1>2, UpToNext
<1>5. /\ g[0] = <<>>
      /\ \A i \in 1 .. n + 1 : g[i] = IF t[i] \in S THEN Append(g[i - 1], t[i]) ELSE g[i - 1]
    BY <1>1, <1>3, UpToNext
<1>6. f[n] = g[n]
  <2>. DEFINE I == {i \in Nat : i <= n => f[i] = g[i]}
  <2>1. 0 \in I
      BY <1>4, <1>5
  <2>2. ASSUME NEW i \in Nat, i \in I PROVE i + 1 \in I
    <3>. SUFFICES ASSUME i + 1 <= n PROVE f[i + 1] = g[i + 1]
        OBVIOUS
    <3>1. i + 1 \in 1 .. n /\ i + 1 \in 1 .. n + 1 /\ (i + 1) - 1 = i
        BY <1>1
    <3>. QED
        BY <1>1, <1>4, <1>5, <2>2, <3>1
  <2>. HIDE DEF I
  <2>3. Nat \subseteq I
      BY <2>1, <2>2, NatSetInduction
  <2>. QED
      BY <1>1, <2>3 DEF I
<1>7. g[n + 1] = IF t[n + 1] \in S THEN Append(g[(n + 1) - 1], t[n + 1]) ELSE g[(n + 1) - 1]
    BY <1>1, <1>5
<1>8. (n + 1) - 1 = n
    BY <1>1
<1>9. Selected(t, S) = IF e \in S THEN Append(Selected(s, S), e) ELSE Selected(s, S)
    BY <1>1, <1>2, <1>3, <1>6, <1>7, <1>8
<1>. QED
    BY <1>9 DEF t

\* What is left is of the type of the sequence, and in the set.
LEMMA SelectedTyped ==
    ASSUME NEW T, NEW S, NEW s \in Seq(T)
    PROVE  Selected(s, S) \in Seq(T \cap S)
<1>. DEFINE P(r) == Selected(r, S) \in Seq(T \cap S)
            I == {r \in Seq(T) : P(r)}
<1>1. P(<<>>)
    BY SelectedEmpty, EmptySeq
<1>2. ASSUME NEW r \in Seq(T), NEW e \in T, P(r) PROVE P(Append(r, e))
    <2>1. Selected(Append(r, e), S) = IF e \in S THEN Append(Selected(r, S), e) ELSE Selected(r, S)
        BY SelectedAppend
    <2>2. CASE e \in S
        <3>1. Append(Selected(r, S), e) \in Seq(T \cap S)
            BY <1>2, <2>2, AppendProperties
        <3>. QED
            BY <2>1, <2>2, <3>1
    <2>3. CASE e \notin S
        BY <1>2, <2>1, <2>3
    <2>. QED
        BY <2>2, <2>3
<1>. HIDE DEF P
<1>3. Seq(T) \subseteq I
    BY <1>1, <1>2, EmptySeq, AppendProperties, SeqSetInduction
<1>. QED
    BY <1>3 DEF P

\* The first of a sequence is the first that is left, or is left out.
LEMMA SelectedTail ==
    ASSUME NEW T, NEW S, NEW s \in Seq(T), s # <<>>
    PROVE  Selected(s, S) = IF Head(s) \in S THEN <<Head(s)>> \o Selected(Tail(s), S)
                            ELSE Selected(Tail(s), S)
<1>. DEFINE Cut(r) == IF Head(r) \in S THEN <<Head(r)>> \o Selected(Tail(r), S)
                      ELSE Selected(Tail(r), S)
            P(r) == r # <<>> => Selected(r, S) = Cut(r)
            I == {r \in Seq(T) : P(r)}
<1>1. P(<<>>)
    OBVIOUS
<1>2. ASSUME NEW r \in Seq(T), NEW e \in T, P(r) PROVE P(Append(r, e))
    <2>. DEFINE q == Append(r, e)
    <2>1. Selected(q, S) = IF e \in S THEN Append(Selected(r, S), e) ELSE Selected(r, S)
        BY SelectedAppend
    <2>. SUFFICES Selected(q, S) = Cut(q)
        OBVIOUS
    <2>2. CASE r = <<>>
        <3>1. Head(q) = e /\ Tail(q) = <<>>
            BY <2>2
        <3>2. Selected(r, S) = <<>> /\ Selected(Tail(q), S) = <<>>
            BY <2>2, <3>1, SelectedEmpty
        <3>3. Append(<<>>, e) = <<e>> /\ <<e>> \o <<>> = <<e>>
            OBVIOUS
        <3>. HIDE DEF q
        <3>. QED
            BY <2>1, <2>2, <3>1, <3>2, <3>3
    <2>3. CASE r # <<>>
        <3>1. Head(q) = Head(r) /\ Tail(q) = Append(Tail(r), e)
            BY <2>3, HeadTailAppend
        <3>2. Tail(r) \in Seq(T) /\ Head(r) \in T
            BY <2>3, HeadTailProperties
        <3>3. Selected(Append(Tail(r), e), S) =
                  IF e \in S THEN Append(Selected(Tail(r), S), e) ELSE Selected(Tail(r), S)
            BY <3>2, SelectedAppend
        <3>4. Selected(Tail(r), S) \in Seq(T \cap S)
            BY <3>2, SelectedTyped
        <3>5. Append(<<Head(r)>> \o Selected(Tail(r), S), e) =
                  <<Head(r)>> \o Append(Selected(Tail(r), S), e)
            <4>. DEFINE t == Selected(Tail(r), S)
            <4>1. t \in Seq(T)
                BY <3>4, SeqMonotonic
            <4>. HIDE DEF t
            <4>2. Append(<<Head(r)>> \o t, e) = <<Head(r)>> \o Append(t, e)
                BY <3>2, <4>1
            <4>. QED
                BY <4>2 DEF t
        <3>6. Selected(r, S) = Cut(r)
            BY <1>2, <2>3
        <3>. HIDE DEF q
        <3>. QED
            BY <2>1, <3>1, <3>3, <3>5, <3>6
    <2>. QED
        BY <2>2, <2>3
<1>. HIDE DEF P
<1>3. Seq(T) \subseteq I
    BY <1>1, <1>2, EmptySeq, AppendProperties, SeqSetInduction
<1>. QED
    BY <1>3 DEF P

\* What a sequence holds once a member has been added.
LEMMA RangeAppend ==
    ASSUME NEW T, NEW s \in Seq(T), NEW e \in T
    PROVE  Range(Append(s, e)) = Range(s) \cup {e}
<1>1. /\ Append(s, e) \in Seq(T) /\ Len(Append(s, e)) = Len(s) + 1 /\ Len(s) \in Nat
      /\ \A i \in 1 .. Len(s) : Append(s, e)[i] = s[i]
      /\ Append(s, e)[Len(s) + 1] = e
    BY AppendProperties, LenProperties
<1>2. Range(s) = {s[i] : i \in 1 .. Len(s)}
    BY RangeEquality
<1>3. Range(Append(s, e)) = {Append(s, e)[i] : i \in 1 .. Len(s) + 1}
    BY <1>1, RangeEquality
<1>. QED
    BY <1>1, <1>2, <1>3

\* What is left are the members of the set.
LEMMA SelectedRange ==
    ASSUME NEW T, NEW S, NEW s \in Seq(T)
    PROVE  Range(Selected(s, S)) = Range(s) \cap S
<1>. DEFINE P(r) == Range(Selected(r, S)) = Range(r) \cap S
            I == {r \in Seq(T) : P(r)}
<1>1. P(<<>>)
    BY SelectedEmpty DEF Range
<1>2. ASSUME NEW r \in Seq(T), NEW e \in T, P(r) PROVE P(Append(r, e))
    <2>1. Selected(Append(r, e), S) = IF e \in S THEN Append(Selected(r, S), e) ELSE Selected(r, S)
        BY SelectedAppend
    <2>2. Selected(r, S) \in Seq(T)
        <3>1. Selected(r, S) \in Seq(T \cap S)
            BY SelectedTyped
        <3>. QED
            BY <3>1, SeqMonotonic
    <2>3. Range(Append(r, e)) = Range(r) \cup {e}
        BY RangeAppend
    <2>4. Range(Append(Selected(r, S), e)) = Range(Selected(r, S)) \cup {e}
        BY <2>2, RangeAppend
    <2>. QED
        BY <1>2, <2>1, <2>3, <2>4
<1>. HIDE DEF P
<1>3. Seq(T) \subseteq I
    BY <1>1, <1>2, EmptySeq, AppendProperties, SeqSetInduction
<1>. QED
    BY <1>3 DEF P

-----------------------------------------------------------------------------
(* Sequences in order *)

\* Each member stands to those after it as R says.
Sorted(s, R) == \A i, j \in DOMAIN s : i < j => <<s[i], s[j]>> \in R

\* Each member of one stands so to each of the other.
Ahead(S, T, R) == \A a \in S, b \in T : <<a, b>> \in R

\* The empty sequence is in every order.
LEMMA SortedEmpty == \A R : Sorted(<<>>, R) /\ Range(<<>>) = {}
  BY DEF Sorted, Range

\* A member that is added comes after all.
LEMMA SortedAppend ==
    ASSUME NEW T, NEW R, NEW s \in Seq(T), NEW e \in T
    PROVE  Sorted(s, R) /\ Ahead(Range(s), {e}, R) => Sorted(Append(s, e), R)
<1>. SUFFICES ASSUME Sorted(s, R), Ahead(Range(s), {e}, R),
                     NEW i \in DOMAIN Append(s, e), NEW j \in DOMAIN Append(s, e), i < j
              PROVE  <<Append(s, e)[i], Append(s, e)[j]>> \in R
    BY DEF Sorted
<1>1. /\ Len(s) \in Nat /\ DOMAIN s = 1 .. Len(s) /\ DOMAIN Append(s, e) = 1 .. Len(s) + 1
      /\ \A k \in 1 .. Len(s) : Append(s, e)[k] = s[k]
      /\ Append(s, e)[Len(s) + 1] = e
    OBVIOUS
<1>2. i \in 1 .. Len(s) /\ s[i] \in Range(s)
    BY <1>1 DEF Range
<1>3. CASE j = Len(s) + 1
    BY <1>1, <1>2, <1>3 DEF Ahead
<1>4. CASE j # Len(s) + 1
    BY <1>1, <1>2, <1>4 DEF Sorted
<1>. QED
    BY <1>3, <1>4

\* What a sequence holds without its first member.
LEMMA RangeTail ==
    ASSUME NEW T, NEW s \in Seq(T), s # <<>>
    PROVE  Range(s) = {Head(s)} \cup Range(Tail(s))
<1>1. /\ Len(s) \in Nat \ {0} /\ DOMAIN s = 1 .. Len(s) /\ Head(s) = s[1]
      /\ DOMAIN Tail(s) = 1 .. Len(s) - 1
      /\ \A k \in 1 .. Len(s) - 1 : Tail(s)[k] = s[k + 1]
    OBVIOUS
<1>2. ASSUME NEW a \in Range(s) PROVE a \in {Head(s)} \cup Range(Tail(s))
    <2>1. PICK i \in 1 .. Len(s) : a = s[i]
        BY <1>1, <1>2 DEF Range
    <2>2. CASE i = 1
        BY <1>1, <2>1, <2>2
    <2>3. CASE i # 1
        <3>1. i - 1 \in 1 .. Len(s) - 1 /\ (i - 1) + 1 = i
            BY <1>1, <2>3
        <3>2. a = Tail(s)[i - 1] /\ i - 1 \in DOMAIN Tail(s)
            BY <1>1, <2>1, <3>1
        <3>. QED
            BY <3>2 DEF Range
    <2>. QED
        BY <2>2, <2>3
<1>3. Head(s) \in Range(s)
    BY <1>1 DEF Range
<1>4. ASSUME NEW a \in Range(Tail(s)) PROVE a \in Range(s)
    <2>1. PICK i \in 1 .. Len(s) - 1 : a = Tail(s)[i]
        BY <1>1, <1>4 DEF Range
    <2>2. i + 1 \in DOMAIN s /\ a = s[i + 1]
        BY <1>1, <2>1
    <2>. QED
        BY <2>2 DEF Range
<1>. QED
    BY <1>2, <1>3, <1>4

\* Without its first member the rest is in order still, and after it.
LEMMA SortedTail ==
    ASSUME NEW T, NEW R, NEW s \in Seq(T), s # <<>>
    PROVE  Sorted(s, R) => Sorted(Tail(s), R) /\ Ahead({Head(s)}, Range(Tail(s)), R)
<1>1. /\ Len(s) \in Nat \ {0} /\ DOMAIN s = 1 .. Len(s) /\ Head(s) = s[1]
      /\ DOMAIN Tail(s) = 1 .. Len(s) - 1
      /\ \A k \in 1 .. Len(s) - 1 : Tail(s)[k] = s[k + 1]
    OBVIOUS
<1>3. ASSUME Sorted(s, R) PROVE Sorted(Tail(s), R)
    <2>. SUFFICES ASSUME NEW i \in DOMAIN Tail(s), NEW j \in DOMAIN Tail(s), i < j
                  PROVE  <<Tail(s)[i], Tail(s)[j]>> \in R
        BY DEF Sorted
    <2>1. i + 1 \in DOMAIN s /\ j + 1 \in DOMAIN s /\ i + 1 < j + 1
          /\ Tail(s)[i] = s[i + 1] /\ Tail(s)[j] = s[j + 1]
        BY <1>1
    <2>. QED
        BY <1>3, <2>1 DEF Sorted
<1>4. ASSUME Sorted(s, R), NEW a \in Range(Tail(s)) PROVE <<Head(s), a>> \in R
    <2>1. PICK i \in 1 .. Len(s) - 1 : a = Tail(s)[i]
        BY <1>1, <1>4 DEF Range
    <2>2. 1 \in DOMAIN s /\ i + 1 \in DOMAIN s /\ 1 < i + 1 /\ a = s[i + 1]
        BY <1>1, <2>1
    <2>. QED
        BY <1>1, <1>4, <2>2 DEF Sorted
<1>. QED
    BY <1>3, <1>4 DEF Ahead

\* One sequence after another.
LEMMA SortedConcat ==
    ASSUME NEW T, NEW R, NEW s \in Seq(T), NEW t \in Seq(T)
    PROVE  Sorted(s, R) /\ Sorted(t, R) /\ Ahead(Range(s), Range(t), R) => Sorted(s \o t, R)
<1>1. /\ Len(s) \in Nat /\ Len(t) \in Nat /\ DOMAIN s = 1 .. Len(s) /\ DOMAIN t = 1 .. Len(t)
      /\ DOMAIN (s \o t) = 1 .. Len(s) + Len(t)
      /\ \A k \in 1 .. Len(s) + Len(t) :
             (s \o t)[k] = IF k <= Len(s) THEN s[k] ELSE t[k - Len(s)]
    OBVIOUS
<1>3. ASSUME Sorted(s, R), Sorted(t, R), Ahead(Range(s), Range(t), R),
             NEW i \in DOMAIN (s \o t), NEW j \in DOMAIN (s \o t), i < j
      PROVE  <<(s \o t)[i], (s \o t)[j]>> \in R
    <2>1. CASE j <= Len(s)
        <3>1. i \in DOMAIN s /\ j \in DOMAIN s /\ (s \o t)[i] = s[i] /\ (s \o t)[j] = s[j]
            BY <1>1, <1>3, <2>1
        <3>. QED
            BY <1>3, <3>1 DEF Sorted
    <2>2. CASE i <= Len(s) /\ ~(j <= Len(s))
        <3>1. i \in DOMAIN s /\ j - Len(s) \in DOMAIN t
              /\ (s \o t)[i] = s[i] /\ (s \o t)[j] = t[j - Len(s)]
            BY <1>1, <2>2
        <3>2. s[i] \in Range(s) /\ t[j - Len(s)] \in Range(t)
            BY <3>1 DEF Range
        <3>. QED
            BY <1>3, <3>1, <3>2 DEF Ahead
    <2>3. CASE ~(i <= Len(s))
        <3>1. i - Len(s) \in DOMAIN t /\ j - Len(s) \in DOMAIN t /\ i - Len(s) < j - Len(s)
              /\ (s \o t)[i] = t[i - Len(s)] /\ (s \o t)[j] = t[j - Len(s)]
            BY <1>1, <1>3, <2>3
        <3>. QED
            BY <1>3, <3>1 DEF Sorted
    <2>. QED
        BY <1>1, <1>3, <2>1, <2>2, <2>3
<1>. QED
    BY <1>3 DEF Sorted

\* What is left is in order.
LEMMA SortedSelected ==
    ASSUME NEW T, NEW R, NEW S, NEW s \in Seq(T), Sorted(s, R)
    PROVE  Sorted(Selected(s, S), R)
<1>. DEFINE P(r) == Sorted(r, R) => Sorted(Selected(r, S), R)
            I == {r \in Seq(T) : P(r)}
<1>1. P(<<>>)
    BY SelectedEmpty
<1>2. ASSUME NEW r \in Seq(T), NEW e \in T, P(r), Sorted(Append(r, e), R)
      PROVE  Sorted(Selected(Append(r, e), S), R)
    <2>1. Selected(Append(r, e), S) = IF e \in S THEN Append(Selected(r, S), e) ELSE Selected(r, S)
        BY SelectedAppend
    <2>2. /\ Len(r) \in Nat /\ DOMAIN r = 1 .. Len(r) /\ DOMAIN Append(r, e) = 1 .. Len(r) + 1
          /\ \A k \in 1 .. Len(r) : Append(r, e)[k] = r[k]
          /\ Append(r, e)[Len(r) + 1] = e
        OBVIOUS
    <2>3. Sorted(r, R)
        <3>. SUFFICES ASSUME NEW i \in DOMAIN r, NEW j \in DOMAIN r, i < j
                      PROVE  <<r[i], r[j]>> \in R
            BY DEF Sorted
        <3>1. /\ i \in DOMAIN Append(r, e) /\ j \in DOMAIN Append(r, e)
              /\ Append(r, e)[i] = r[i] /\ Append(r, e)[j] = r[j]
            BY <2>2
        <3>2. <<Append(r, e)[i], Append(r, e)[j]>> \in R
            BY <1>2, <3>1 DEF Sorted
        <3>. QED
            BY <3>1, <3>2
    <2>4. Ahead(Range(r), {e}, R)
        <3>. SUFFICES ASSUME NEW a \in Range(r) PROVE <<a, e>> \in R
            BY DEF Ahead
        <3>1. PICK i \in 1 .. Len(r) : a = r[i]
            BY <2>2 DEF Range
        <3>2. i \in DOMAIN Append(r, e) /\ Len(r) + 1 \in DOMAIN Append(r, e) /\ i < Len(r) + 1
              /\ Append(r, e)[i] = a
            BY <2>2, <3>1
        <3>. QED
            BY <1>2, <2>2, <3>2 DEF Sorted
    <2>5. Selected(r, S) \in Seq(T) /\ Ahead(Range(Selected(r, S)), {e}, R)
        <3>1. Selected(r, S) \in Seq(T \cap S)
            BY SelectedTyped
        <3>2. Range(Selected(r, S)) = Range(r) \cap S
            BY SelectedRange
        <3>3. Selected(r, S) \in Seq(T)
            BY <3>1, SeqMonotonic
        <3>. QED
            BY <2>4, <3>2, <3>3 DEF Ahead
    <2>6. Sorted(Append(Selected(r, S), e), R)
        BY <1>2, <2>3, <2>5, SortedAppend
    <2>. QED
        BY <1>2, <2>1, <2>3, <2>6
<1>. HIDE DEF P
<1>3. Seq(T) \subseteq I
    <2>1. \A r \in Seq(T), e \in T : P(r) => P(Append(r, e))
        BY <1>2 DEF P
    <2>2. \A r \in Seq(T), e \in T : r \in I => Append(r, e) \in I
        BY <2>1, AppendProperties
    <2>3. <<>> \in I
        BY <1>1, EmptySeq
    <2>. HIDE DEF I
    <2>4. Seq(T) \subseteq I
        BY <2>2, <2>3, SeqSetInduction
    <2>. QED
        BY <2>4
<1>. QED
    BY <1>3 DEF P

-----------------------------------------------------------------------------
(* Where a record is *)

\* The positions of e in s.
Spots(s, e) == {i \in DOMAIN s : s[i] = e}

\* Two positions hold different members.
Distinct(T) == {p \in T \X T : p[1] # p[2]}

\* Where a member is after an append,
LEMMA SpotsAppend ==
    ASSUME NEW T, NEW s \in Seq(T), NEW e \in T, NEW a
    PROVE  Spots(Append(s, e), a) = Spots(s, a) \cup (IF a = e THEN {Len(s) + 1} ELSE {})
<1>1. /\ Len(s) \in Nat /\ DOMAIN s = 1 .. Len(s)
      /\ DOMAIN Append(s, e) = 1 .. Len(s) + 1 /\ Append(s, e)[Len(s) + 1] = e
      /\ \A i \in 1 .. Len(s) : Append(s, e)[i] = s[i]
    OBVIOUS
<1>2. 1 .. Len(s) + 1 = 1 .. Len(s) \cup {Len(s) + 1}
    BY <1>1
<1>. QED
    BY <1>1, <1>2 DEF Spots

\* and after two sequences are joined.
LEMMA SpotsConcat ==
    ASSUME NEW T, NEW s \in Seq(T), NEW t \in Seq(T), NEW a
    PROVE  Spots(s \o t, a) = Spots(s, a) \cup {Len(s) + j : j \in Spots(t, a)}
<1>1. /\ Len(s) \in Nat /\ Len(t) \in Nat /\ DOMAIN s = 1 .. Len(s) /\ DOMAIN t = 1 .. Len(t)
      /\ DOMAIN (s \o t) = 1 .. Len(s) + Len(t)
      /\ \A i \in 1 .. Len(s) : (s \o t)[i] = s[i]
      /\ \A j \in 1 .. Len(t) : (s \o t)[Len(s) + j] = t[j]
    BY LenProperties, ConcatProperties
<1>2. ASSUME NEW i \in Spots(s \o t, a)
      PROVE  i \in Spots(s, a) \cup {Len(s) + j : j \in Spots(t, a)}
    <2>1. CASE i <= Len(s)
        BY <1>1, <1>2, <2>1 DEF Spots
    <2>2. CASE i > Len(s)
        <3>1. i - Len(s) \in 1 .. Len(t) /\ i = Len(s) + (i - Len(s))
            BY <1>1, <1>2, <2>2 DEF Spots
        <3>2. i - Len(s) \in Spots(t, a)
            BY <1>1, <1>2, <3>1 DEF Spots
        <3>. QED
            BY <3>1, <3>2
    <2>. QED
        BY <1>1, <1>2, <2>1, <2>2 DEF Spots
<1>3. ASSUME NEW i \in Spots(s, a) PROVE i \in Spots(s \o t, a)
    BY <1>1, <1>3 DEF Spots
<1>4. ASSUME NEW j \in Spots(t, a) PROVE Len(s) + j \in Spots(s \o t, a)
    BY <1>1, <1>4 DEF Spots
<1>. QED
    BY <1>2, <1>3, <1>4

\* What is in a sequence has a spot, and one only if no two members are the same.
LEMMA SpotsRange ==
    ASSUME NEW T, NEW s \in Seq(T), NEW a
    PROVE  /\ Spots(s, a) = {} <=> a \notin Range(s)
           /\ a \in Range(s) /\ Sorted(s, Distinct(T)) => \E i \in DOMAIN s : Spots(s, a) = {i}
<1>1. /\ Len(s) \in Nat /\ DOMAIN s = 1 .. Len(s)
    OBVIOUS
<1>2. Spots(s, a) = {} <=> a \notin Range(s)
    BY DEF Spots, Range
<1>3. ASSUME a \in Range(s), Sorted(s, Distinct(T)) PROVE \E i \in DOMAIN s : Spots(s, a) = {i}
    <2>1. PICK i \in DOMAIN s : s[i] = a
        BY <1>3 DEF Range
    <2>2. ASSUME NEW j \in DOMAIN s, s[j] = a PROVE j = i
        <3>1. ~(i < j) /\ ~(j < i)
            BY <1>3, <2>1, <2>2 DEF Sorted, Distinct
        <3>. QED
            BY <1>1, <3>1
    <2>. QED
        BY <2>1, <2>2 DEF Spots
<1>. QED
    BY <1>2, <1>3

\* The places a record has in hands, buffers, batches, what is written and what
\* is dropped.
Tagged(hands, buffers, batches, outs, drops) ==
    {<<"hand", x>> : x \in hands} \cup {<<"buffer", s>> : s \in buffers}
    \cup {<<"batch", x>> : x \in batches} \cup {<<"out", i>> : i \in outs}
    \cup {<<"dropped", r>> : r \in drops}

\* A set with one member; the others have none.
Single(S) == \E y : S = {y}
None(S, T, U, V) == S = {} /\ T = {} /\ U = {} /\ V = {}

\* Nothing is tagged just when all five sets are empty.
LEMMA TaggedNone ==
    ASSUME NEW H, NEW B, NEW P, NEW O, NEW D
    PROVE  Tagged(H, B, P, O, D) = {} <=> None(H, B, P, O) /\ D = {}
  BY DEF Tagged, None

\* One thing is tagged just when one of them has one member, the others none.
LEMMA TaggedOne ==
    ASSUME NEW H, NEW B, NEW P, NEW O, NEW D
    PROVE  Single(Tagged(H, B, P, O, D)) <=>
               \/ Single(H) /\ None(B, P, O, D)
               \/ Single(B) /\ None(H, P, O, D)
               \/ Single(P) /\ None(H, B, O, D)
               \/ Single(O) /\ None(H, B, P, D)
               \/ Single(D) /\ None(H, B, P, O)
<1>. DEFINE All == Tagged(H, B, P, O, D)
<1>1. /\ \A y \in H : <<"hand", y>> \in All
      /\ \A y \in B : <<"buffer", y>> \in All
      /\ \A y \in P : <<"batch", y>> \in All
      /\ \A y \in O : <<"out", y>> \in All
      /\ \A y \in D : <<"dropped", y>> \in All
    BY DEF Tagged
<1>2. ASSUME NEW p, All = {p}
      PROVE  \/ Single(H) /\ None(B, P, O, D)
             \/ Single(B) /\ None(H, P, O, D)
             \/ Single(P) /\ None(H, B, O, D)
             \/ Single(O) /\ None(H, B, P, D)
             \/ Single(D) /\ None(H, B, P, O)
    <2>1. /\ \A y \in H : p = <<"hand", y>>
          /\ \A y \in B : p = <<"buffer", y>>
          /\ \A y \in P : p = <<"batch", y>>
          /\ \A y \in O : p = <<"out", y>>
          /\ \A y \in D : p = <<"dropped", y>>
        BY <1>1, <1>2
    <2>2. /\ \A y \in H : p[1] = "hand" /\ p[2] = y
          /\ \A y \in B : p[1] = "buffer" /\ p[2] = y
          /\ \A y \in P : p[1] = "batch" /\ p[2] = y
          /\ \A y \in O : p[1] = "out" /\ p[2] = y
          /\ \A y \in D : p[1] = "dropped" /\ p[2] = y
        BY <2>1
    <2>3. H # {} \/ B # {} \/ P # {} \/ O # {} \/ D # {}
        BY <1>2, TaggedNone DEF None
    <2>4. ASSUME H # {} PROVE H = {p[2]} /\ None(B, P, O, D)
        BY <2>2, <2>4 DEF None
    <2>5. ASSUME B # {} PROVE B = {p[2]} /\ None(H, P, O, D)
        BY <2>2, <2>5 DEF None
    <2>6. ASSUME P # {} PROVE P = {p[2]} /\ None(H, B, O, D)
        BY <2>2, <2>6 DEF None
    <2>7. ASSUME O # {} PROVE O = {p[2]} /\ None(H, B, P, D)
        BY <2>2, <2>7 DEF None
    <2>8. ASSUME D # {} PROVE D = {p[2]} /\ None(H, B, P, O)
        BY <2>2, <2>8 DEF None
    <2>. QED
        BY <2>3, <2>4, <2>5, <2>6, <2>7, <2>8 DEF Single
<1>3. /\ \A y : H = {y} /\ None(B, P, O, D) => All = {<<"hand", y>>}
      /\ \A y : B = {y} /\ None(H, P, O, D) => All = {<<"buffer", y>>}
      /\ \A y : P = {y} /\ None(H, B, O, D) => All = {<<"batch", y>>}
      /\ \A y : O = {y} /\ None(H, B, P, D) => All = {<<"out", y>>}
      /\ \A y : D = {y} /\ None(H, B, P, O) => All = {<<"dropped", y>>}
    BY DEF Tagged, None
<1>. QED
    BY <1>2, <1>3 DEF Single

-----------------------------------------------------------------------------
(* Sequences in which nothing is twice *)

LEMMA InjectiveIs ==
    ASSUME NEW T, NEW s \in Seq(T) PROVE IsInjective(s) <=> Sorted(s, Distinct(T))
<1>1. DOMAIN s = 1 .. Len(s) /\ Len(s) \in Nat /\ \A i \in DOMAIN s : s[i] \in T
    OBVIOUS
<1>2. ASSUME IsInjective(s) PROVE Sorted(s, Distinct(T))
    BY <1>1, <1>2 DEF IsInjective, Sorted, Distinct
<1>3. ASSUME Sorted(s, Distinct(T)), NEW i \in DOMAIN s, NEW j \in DOMAIN s, s[i] = s[j] PROVE i = j
    <2>1. i < j => s[i] # s[j]
        BY <1>3 DEF Sorted, Distinct
    <2>2. j < i => s[j] # s[i]
        BY <1>3 DEF Sorted, Distinct
    <2>. QED
        BY <1>1, <1>3, <2>1, <2>2
<1>. QED
    BY <1>2, <1>3 DEF IsInjective

\* What is selected of it is such again, and so is one with a member more.
LEMMA InjectiveSelected ==
    ASSUME NEW T, NEW S, NEW s \in Seq(T), IsInjective(s)
    PROVE  Selected(s, S) \in Seq(T) /\ IsInjective(Selected(s, S))
<1>1. Selected(s, S) \in Seq(T \cap S)
    BY SelectedTyped
<1>2. Selected(s, S) \in Seq(T)
    BY <1>1
<1>3. Sorted(Selected(s, S), Distinct(T))
    BY InjectiveIs, SortedSelected
<1>. QED
    BY <1>2, <1>3, InjectiveIs

LEMMA InjectiveConcat ==
    ASSUME NEW T, NEW s \in Seq(T), NEW t \in Seq(T), IsInjective(s), IsInjective(t),
           Range(s) \cap Range(t) = {}
    PROVE  s \o t \in Seq(T) /\ IsInjective(s \o t)
<1>1. Sorted(s, Distinct(T)) /\ Sorted(t, Distinct(T))
    BY InjectiveIs
<1>2. Ahead(Range(s), Range(t), Distinct(T))
    BY DEF Ahead, Distinct, Range
<1>3. Sorted(s \o t, Distinct(T)) /\ s \o t \in Seq(T)
    BY <1>1, <1>2, SortedConcat
<1>. QED
    BY <1>3, InjectiveIs

LEMMA InjectiveAppend ==
    ASSUME NEW T, NEW s \in Seq(T), NEW e \in T, IsInjective(s), e \notin Range(s)
    PROVE  Append(s, e) \in Seq(T) /\ IsInjective(Append(s, e))
<1>1. Sorted(s, Distinct(T))
    BY InjectiveIs
<1>2. Ahead(Range(s), {e}, Distinct(T))
    BY DEF Ahead, Distinct, Range
<1>3. Sorted(Append(s, e), Distinct(T)) /\ Append(s, e) \in Seq(T)
    BY <1>1, <1>2, SortedAppend
<1>. QED
    BY <1>3, InjectiveIs

\* All, or none, may be selected.
LEMMA SelectedNone ==
    ASSUME NEW T, NEW S, NEW s \in Seq(T), Range(s) \cap S = {}
    PROVE  Selected(s, S) = <<>>
<1>1. Selected(s, S) \in Seq(T \cap S) /\ Range(Selected(s, S)) = {}
    BY SelectedTyped, SelectedRange
<1>. DEFINE t == Selected(s, S)
<1>. HIDE DEF t
<1>2. t \in Seq(T \cap S) /\ Range(t) = {}
    BY <1>1 DEF t
<1>3. DOMAIN t = {}
    BY <1>2 DEF Range
<1>. QED
    BY <1>2, <1>3, EmptySeq DEF t

LEMMA SelectedAll ==
    ASSUME NEW T, NEW S, NEW s \in Seq(T), Range(s) \subseteq S
    PROVE  Selected(s, S) = s
<1>. DEFINE P(r) == Range(r) \subseteq S => Selected(r, S) = r
            I == {r \in Seq(T) : P(r)}
<1>1. P(<<>>)
    BY SelectedEmpty
<1>2. ASSUME NEW r \in Seq(T), NEW e \in T, P(r) PROVE P(Append(r, e))
    <2>1. Range(Append(r, e)) = Range(r) \cup {e}
        BY RangeAppend
    <2>2. Selected(Append(r, e), S) = IF e \in S THEN Append(Selected(r, S), e) ELSE Selected(r, S)
        BY SelectedAppend
    <2>. QED
        BY <1>2, <2>1, <2>2
<1>. HIDE DEF P
<1>3. <<>> \in I /\ \A r \in Seq(T), e \in T : r \in I => Append(r, e) \in I
    BY <1>1, <1>2
<1>. HIDE DEF I
<1>4. Seq(T) \subseteq I
    BY <1>3, SeqSetInduction
<1>. QED
    BY <1>4 DEF I, P

\* Where the member at one place is left out, those behind move up.
MovedUp(t, s, i) ==
    /\ Len(t) = Len(s) - 1
    /\ \A j \in 1 .. Len(s) - 1 : t[j] = IF j < i THEN s[j] ELSE s[j + 1]

LEMMA SelectedOthers ==
    ASSUME NEW T, NEW s \in Seq(T), IsInjective(s), NEW i \in DOMAIN s
    PROVE  MovedUp(Selected(s, T \ {s[i]}), s, i)
<1>. DEFINE x == s[i]
            S == T \ {x}
            P(r) == Sorted(r, Distinct(T)) => \A k \in DOMAIN r : r[k] = x => MovedUp(Selected(r, S), r, k)
            I == {r \in Seq(T) : P(r)}
<1>1. P(<<>>)
    OBVIOUS
<1>. HIDE DEF x
<1>2. ASSUME NEW r \in Seq(T), NEW e \in T, P(r), Sorted(Append(r, e), Distinct(T)),
             NEW k \in DOMAIN Append(r, e), Append(r, e)[k] = x
      PROVE  MovedUp(Selected(Append(r, e), S), Append(r, e), k)
    <2>. DEFINE t == Selected(r, S)
                q == Append(r, e)
                n == Len(r)
    <2>1. /\ n \in Nat /\ DOMAIN r = 1 .. n /\ DOMAIN q = 1 .. n + 1 /\ q[n + 1] = e
          /\ Len(q) = n + 1 /\ \A j \in 1 .. n : q[j] = r[j] /\ r[j] \in T
        OBVIOUS
    <2>2. Selected(q, S) = IF e \in S THEN Append(t, e) ELSE t
        BY SelectedAppend
    <2>3. t \in Seq(T \cap S)
        BY SelectedTyped
    <2>4. /\ Len(t) \in Nat /\ Len(Append(t, e)) = Len(t) + 1 /\ Append(t, e)[Len(t) + 1] = e
          /\ \A j \in 1 .. Len(t) : Append(t, e)[j] = t[j]
        BY <2>3
    <2>. HIDE DEF q, n
    <2>5. Sorted(r, Distinct(T))
        BY <1>2, <2>1 DEF Sorted, q
    <2>6. \A j \in 1 .. n : r[j] # e
        <3>1. \A j \in 1 .. n : j < n + 1 /\ j \in DOMAIN q /\ n + 1 \in DOMAIN q
            BY <2>1
        <3>2. Sorted(q, Distinct(T))
            BY <1>2 DEF q
        <3>3. \A j \in 1 .. n : <<q[j], q[n + 1]>> \in Distinct(T)
            BY <3>1, <3>2 DEF Sorted
        <3>4. \A j \in 1 .. n : q[j] # q[n + 1]
            BY <3>3 DEF Distinct
        <3>. QED
            BY <2>1, <3>4
    <2>7. CASE k = n + 1
        <3>1. e = x /\ x \notin Range(r)
            BY <1>2, <2>1, <2>6, <2>7 DEF Range, q
        <3>2. Range(r) \subseteq S
            BY <2>1, <3>1 DEF Range
        <3>3. t = r
            BY <3>2, SelectedAll
        <3>4. Selected(q, S) = r
            BY <2>2, <3>1, <3>3
        <3>. HIDE DEF t, S
        <3>5. MovedUp(r, q, k)
            BY <2>1, <2>7 DEF MovedUp, n
        <3>. QED
            BY <3>4, <3>5 DEF q
    <2>8. CASE k \in 1 .. n
        <3>1. r[k] = x /\ e # x
            BY <1>2, <2>1, <2>6, <2>8 DEF q
        <3>2. MovedUp(t, r, k)
            BY <1>2, <2>1, <2>5, <2>8, <3>1
        <3>3. Selected(q, S) = Append(t, e)
            BY <2>2, <3>1
        <3>. DEFINE u == Append(t, e)
        <3>4. Len(t) = n - 1 /\ \A j \in 1 .. n - 1 : t[j] = IF j < k THEN r[j] ELSE r[j + 1]
            BY <3>2 DEF MovedUp, n
        <3>5. Len(u) = n /\ u[n] = e /\ \A j \in 1 .. n - 1 : u[j] = t[j]
            <4>. HIDE DEF t
            <4>1. Len(t) + 1 = n
                BY <2>1, <3>4
            <4>2. u[Len(t) + 1] = e /\ Len(u) = Len(t) + 1 /\ \A j \in 1 .. Len(t) : u[j] = t[j]
                BY <2>4
            <4>. HIDE DEF u
            <4>. QED
                BY <3>4, <4>1, <4>2
        <3>. HIDE DEF t, S, u
        <3>6. \A j \in 1 .. n : u[j] = IF j < k THEN q[j] ELSE q[j + 1]
            <4>. SUFFICES ASSUME NEW j \in 1 .. n PROVE u[j] = IF j < k THEN q[j] ELSE q[j + 1]
                OBVIOUS
            <4>1. CASE j = n
                BY <2>1, <2>8, <3>5, <4>1
            <4>2. CASE j \in 1 .. n - 1
                BY <2>1, <2>8, <3>4, <3>5, <4>2
            <4>. QED
                BY <2>1, <4>1, <4>2
        <3>7. MovedUp(u, q, k)
            BY <2>1, <3>5, <3>6 DEF MovedUp
        <3>. QED
            BY <3>3, <3>7 DEF u, q
    <2>. QED
        BY <1>2, <2>1, <2>7, <2>8 DEF q
<1>. HIDE DEF P
<1>3. ASSUME NEW r \in Seq(T), NEW e \in T, r \in I PROVE Append(r, e) \in I
    <2>1. P(r) /\ Append(r, e) \in Seq(T)
        BY <1>3
    <2>2. P(Append(r, e))
        BY <1>2, <2>1 DEF P
    <2>. QED
        BY <2>1, <2>2
<1>4. <<>> \in I
    BY <1>1
<1>. HIDE DEF I
<1>5. Seq(T) \subseteq I
    BY <1>3, <1>4, SeqSetInduction
<1>. QED
    BY <1>5, InjectiveIs DEF I, P, x

-----------------------------------------------------------------------------
(* The least of some numbers; sequences put end to end *)

\* A set of numbers has a least.
LEMMA LeastIs ==
    ASSUME NEW N, N \subseteq Nat, N # {} PROVE Min(N) \in N /\ \A m \in N : Min(N) <= m
<1>. DEFINE less == {pair \in Nat \X Nat : pair[1] < pair[2]}
<1>1. IsWellFoundedOn(less, Nat)
    BY NatLessThanWellFounded DEF OpToRel
<1>. HIDE DEF less
<1>2. PICK n \in N : \A m \in N : <<m, n>> \notin less
    BY <1>1, WFMin
<1>3. ASSUME NEW m \in N PROVE n <= m
    <2>1. <<m, n>> \in Nat \X Nat /\ <<m, n>> \notin less
        BY <1>2
    <2>. QED
        BY <2>1 DEF less
<1>. QED
    BY <1>2, <1>3 DEF Min

\* f is the recursive function of FlattenSeq, up to n.
Flat(f, q, n) == f = [i \in 1 .. n |-> IF i = 1 THEN q[i] ELSE f[i - 1] \o q[i]]

LEMMA FlatExists ==
    ASSUME NEW q PROVE \A n \in Nat : \E f : Flat(f, q, n)
<1>. DEFINE I == {n \in Nat : \E f : Flat(f, q, n)}
<1>1. 0 \in I
    <2>1. Flat([i \in 1 .. 0 |-> <<>>], q, 0)
        BY DEF Flat
    <2>. QED
        BY <2>1
<1>2. ASSUME NEW n \in Nat, n \in I PROVE n + 1 \in I
    <2>1. PICK f : Flat(f, q, n)
        BY <1>2
    <2>. DEFINE g == [i \in 1 .. n + 1 |->
                         IF i = n + 1 THEN (IF i = 1 THEN q[i] ELSE f[n] \o q[i]) ELSE f[i]]
    <2>2. \A i \in 1 .. n : g[i] = f[i]
        OBVIOUS
    <2>3. \A i \in 1 .. n + 1 : g[i] = IF i = 1 THEN q[i] ELSE g[i - 1] \o q[i]
        <3>. SUFFICES ASSUME NEW i \in 1 .. n + 1 PROVE g[i] = IF i = 1 THEN q[i] ELSE g[i - 1] \o q[i]
            OBVIOUS
        <3>1. CASE i = n + 1
            BY <2>2, <3>1
        <3>2. CASE i \in 1 .. n
            <4>1. f[i] = IF i = 1 THEN q[i] ELSE f[i - 1] \o q[i]
                BY <2>1, <3>2, Zenon DEF Flat
            <4>2. i # 1 => i - 1 \in 1 .. n
                BY <3>2
            <4>. HIDE DEF g
            <4>. QED
                BY <2>2, <3>2, <4>1, <4>2
        <3>. QED
            BY <3>1, <3>2
    <2>4. Flat(g, q, n + 1)
        BY <2>3 DEF Flat
    <2>. QED
        BY <2>4
<1>. HIDE DEF I
<1>3. Nat \subseteq I
    BY <1>1, <1>2, NatSetInduction
<1>. QED
    BY <1>3 DEF I

\* Where x is all there is, and once, it is what there is after flattening.
LEMMA FlattenOne ==
    ASSUME NEW q, NEW x, Len(q) \in Nat, q = <<>> \/ Len(q) # 0,
           \A i \in 1 .. Len(q) : q[i] \in {<<>>, <<x>>},
           \A i, j \in 1 .. Len(q) : q[i] = <<x>> /\ q[j] = <<x>> => i = j
    PROVE  FlattenSeq(q) \in {<<>>, <<x>>}
<1>. DEFINE n == Len(q)
<1>1. CASE n = 0
    BY <1>1 DEF FlattenSeq
<1>2. CASE n # 0
    <2>. DEFINE F == CHOOSE f : Flat(f, q, n)
    <2>1. Flat(F, q, n)
        <3>1. \E f : Flat(f, q, n)
            BY FlatExists
        <3>. QED
            BY <3>1
    <2>2. FlattenSeq(q) = F[n]
        BY <1>2 DEF FlattenSeq, Flat
    <2>. HIDE DEF F
    <2>3. \A i \in 1 .. n : F[i] = IF i = 1 THEN q[i] ELSE F[i - 1] \o q[i]
        BY <2>1, Zenon DEF Flat
    <2>. DEFINE P(m) == m \in 1 .. n => F[m] = IF \E j \in 1 .. m : q[j] = <<x>> THEN <<x>> ELSE <<>>
                I == {m \in Nat : P(m)}
    <2>4. P(0)
        OBVIOUS
    <2>5. ASSUME NEW m \in Nat, P(m), m + 1 \in 1 .. n
          PROVE  F[m + 1] = IF \E j \in 1 .. m + 1 : q[j] = <<x>> THEN <<x>> ELSE <<>>
        <3>1. CASE m = 0
            BY <1>2, <2>3, <2>5, <3>1
        <3>2. CASE m # 0
            <4>1. F[m + 1] = F[m] \o q[m + 1] /\ m \in 1 .. n
                <5>1. m + 1 # 1 /\ (m + 1) - 1 = m /\ m \in 1 .. n
                    BY <2>5, <3>2
                <5>. HIDE DEF P, n
                <5>. QED
                    BY <2>3, <2>5, <5>1
            <4>2. q[m + 1] = <<x>> => \A j \in 1 .. m : q[j] # <<x>>
                BY <2>5
            <4>3. <<x>> \o <<>> = <<x>> /\ <<>> \o <<x>> = <<x>> /\ <<>> \o <<>> = <<>>
                OBVIOUS
            <4>4. q[m + 1] \in {<<>>, <<x>>} /\ <<x>> # <<>>
                BY <2>5
            <4>5. (\E j \in 1 .. m + 1 : q[j] = <<x>>) <=> q[m + 1] = <<x>> \/ \E j \in 1 .. m : q[j] = <<x>>
                OBVIOUS
            <4>. QED
                BY <2>5, <4>1, <4>2, <4>3, <4>4, <4>5
        <3>. QED
            BY <3>1, <3>2
    <2>6. \A m \in Nat : m \in I => m + 1 \in I
        <3>1. ASSUME NEW m \in Nat, P(m) PROVE P(m + 1)
            BY <2>5, <3>1
        <3>. HIDE DEF P
        <3>. QED
            BY <3>1
    <2>7. 0 \in I
        BY <2>4
    <2>. HIDE DEF I
    <2>8. Nat \subseteq I
        BY <2>6, <2>7, NatSetInduction
    <2>9. P(n)
        BY <2>8 DEF I
    <2>. QED
        BY <1>2, <2>2, <2>9
<1>. QED
    BY <1>1, <1>2
=============================================================================
