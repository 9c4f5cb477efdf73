----------------------------- MODULE PiecesProofs -----------------------------
(***************************************************************************)
(* Proofs for the pieces of MCHandlers and for LoggingBundle, whatever the *)
(* constants.                                                              *)
(*                                                                         *)
(* Logger: each call of a thread has been offered to a first part of the   *)
(* handlers it saw (OfferedTo), and the calls that count hold the tokens   *)
(* below the depth, in their order (Tokened).  LoggingBundle: what was     *)
(* looked up follows from the phase of the start.  LogContext: a mapping,  *)
(* and what a block puts back, are inherited or own (TaskOK).              *)
(* SyslogHandler: by where a thread is in a write, the socket it holds     *)
(* (UndisturbedOK, AloneOK).  LazyHandler: each handler built is paid for  *)
(* by a record that needs none any more (Accounted), and in one thread     *)
(* each record is placed (PlacedBy).  RotatingFileHandler: a record that   *)
(* was written is in the file of its date or too old to be kept (Filed,    *)
(* TooOld), and a handler without its file has a newer one.                *)
(***************************************************************************)
EXTENDS MCHandlers, LoggingBundle, SelectionProofs, FiniteSetTheorems, FunctionTheorems

-----------------------------------------------------------------------------
(* The calls of a thread: the invariant *)

\* The record has been offered to the first i of the stack.
OfferedTo(f, i) ==
    /\ f.left = SubSeq(f.snap, i + 1, Len(f.snap))
    /\ ~f.processed =>
           f.given = <<>> /\ f.runs = 0 /\ \A k \in 1 .. i : f.snap[k] \notin Accepting
    /\ f.processed => \E from \in 1 .. i :
           /\ f.given = SubSeq(f.snap, from, i) /\ f.runs = 1
           /\ f.snap[from] \in Accepting /\ \A k \in 1 .. from - 1 : f.snap[k] \notin Accepting
           /\ \A k \in from .. i - 1 : f.snap[k] \in Bubbling
           /\ f.at = "offer" => f.snap[i] \in Bubbling

\* The calls that are not dispatched.
Skipped(f) == f.logger \in Detecting /\ (f.token + 1 = WARN_AT_DEPTH \/ f.token + 1 >= DROP_AT_DEPTH)

FrameOK(f) ==
    /\ f.at = "enter" =>
           f.given = <<>> /\ f.runs = 0 /\ ~f.processed /\ ~f.failed /\ f.token = 0
    /\ f.at = "raised" => f.failed
    /\ f.at \in {"offer", "handling"} => \E i \in 0 .. Len(f.snap) : OfferedTo(f, i)
    /\ f.at = "handling" => f.processed
    /\ f.at = "leave" /\ ~f.failed /\ ~Skipped(f) =>
           f.given = Audience(f.snap) /\ f.runs = IF f.given = <<>> THEN 0 ELSE 1
    /\ Skipped(f) => f.given = <<>> /\ f.at \in {"leave", "raised"}
    /\ f.logger \notin Detecting => f.token = 0

\* The calls that count.
Counts(f) == f.logger \in Detecting /\ f.at # "enter"

\* The tokens of the calls that count are the numbers below d, in their order.
Tokened(fs, d) ==
    /\ \A i \in DOMAIN fs : Counts(fs[i]) => fs[i].token \in 0 .. d - 1
    /\ \A k \in 0 .. d - 1 : \E i \in DOMAIN fs : Counts(fs[i]) /\ fs[i].token = k
    /\ \A i, j \in DOMAIN fs : Counts(fs[i]) /\ Counts(fs[j]) /\ i < j => fs[i].token > fs[j].token

\* The third warns by a call of its own, which is the fourth.
Warned(fs) == \A i \in DOMAIN fs : Counts(fs[i]) =>
    /\ fs[i].token = 2 /\ i > 1 => fs[i - 1].warning /\ fs[i - 1].logger \in Detecting
    /\ fs[i].token = 3 => fs[i].warning

StackOK(fs, d) ==
    /\ fs \in Seq(Frame) /\ d \in Nat
    /\ \A i \in DOMAIN fs : FrameOK(fs[i]) /\ (i > 1 => fs[i].at \in {"handling", "leave"})
    /\ Tokened(fs, d) /\ Warned(fs)

LoggerInv == TypeOK /\ \A t \in Threads : StackOK(frames[t], depth[t])

-----------------------------------------------------------------------------
(* Sequences *)

\* The first of a sequence is another, or one is put before it.
LEMMA FirstIs ==
    ASSUME NEW S, NEW fs \in Seq(S), NEW x \in S
    PROVE  LET gs == <<x>> \o fs
           IN  /\ gs \in Seq(S) /\ gs # <<>> /\ Len(gs) = Len(fs) + 1 /\ Len(fs) \in Nat
               /\ DOMAIN fs = 1 .. Len(fs) /\ DOMAIN gs = 1 .. Len(fs) + 1
               /\ gs[1] = x /\ Tail(gs) = fs /\ Head(gs) = x
               /\ \A i \in 1 .. Len(fs) : gs[i + 1] = fs[i]
<1>. DEFINE gs == <<x>> \o fs
<1>1. <<x>> \in Seq(S) /\ Len(<<x>>) = 1 /\ <<x>>[1] = x
    OBVIOUS
<1>2. /\ gs \in Seq(S) /\ Len(gs) = Len(fs) + 1 /\ Len(fs) \in Nat
      /\ \A i \in 1 .. Len(fs) + 1 : gs[i] = IF i <= 1 THEN <<x>>[i] ELSE fs[i - 1]
    BY <1>1, ConcatProperties
<1>. HIDE DEF gs
<1>3. gs[1] = x /\ \A i \in 1 .. Len(fs) : gs[i + 1] = fs[i]
    BY <1>1, <1>2
<1>4. DOMAIN gs = 1 .. Len(fs) + 1 /\ gs # <<>> /\ DOMAIN fs = 1 .. Len(fs)
    BY <1>2
<1>5. Tail(gs) = fs
    <2>1. /\ Tail(gs) \in Seq(S) /\ Len(Tail(gs)) = Len(fs)
          /\ \A i \in 1 .. Len(fs) : Tail(gs)[i] = gs[i + 1]
        BY <1>2, <1>4
    <2>. QED
        BY <1>3, <2>1, SeqEqual
<1>. QED
    BY <1>2, <1>3, <1>4, <1>5 DEF gs

LEMMA ChangedIs ==
    ASSUME NEW S, NEW fs \in Seq(S), fs # <<>>, NEW x \in S
    PROVE  LET gs == <<x>> \o Tail(fs)
           IN  /\ gs \in Seq(S) /\ gs # <<>> /\ Len(gs) = Len(fs) /\ Len(fs) \in Nat \ {0}
               /\ DOMAIN fs = 1 .. Len(fs) /\ DOMAIN gs = 1 .. Len(fs)
               /\ gs[1] = x /\ Tail(gs) = Tail(fs)
               /\ \A i \in 2 .. Len(fs) : gs[i] = fs[i]
<1>. DEFINE gs == <<x>> \o Tail(fs)
<1>1. /\ Tail(fs) \in Seq(S) /\ Len(fs) \in Nat \ {0} /\ Len(Tail(fs)) = Len(fs) - 1
      /\ DOMAIN fs = 1 .. Len(fs)
      /\ \A i \in 1 .. Len(fs) - 1 : Tail(fs)[i] = fs[i + 1]
    OBVIOUS
<1>2. /\ gs \in Seq(S) /\ gs # <<>> /\ Len(gs) = Len(Tail(fs)) + 1
      /\ DOMAIN gs = 1 .. Len(Tail(fs)) + 1 /\ gs[1] = x /\ Tail(gs) = Tail(fs)
      /\ \A i \in 1 .. Len(Tail(fs)) : gs[i + 1] = Tail(fs)[i]
    BY <1>1, FirstIs
<1>. HIDE DEF gs
<1>3. ASSUME NEW i \in 2 .. Len(fs) PROVE gs[i] = fs[i]
    <2>1. i - 1 \in 1 .. Len(fs) - 1 /\ (i - 1) + 1 = i
        BY <1>1
    <2>2. Tail(fs)[i - 1] = fs[i] /\ gs[i] = Tail(fs)[i - 1]
        BY <1>1, <1>2, <2>1
    <2>. QED
        BY <2>2
<1>. QED
    BY <1>1, <1>2, <1>3 DEF gs

-----------------------------------------------------------------------------
(* Who is given a record *)

LEMMA ThisIsLeast ==
    ASSUME NEW N, N \subseteq Nat, NEW n \in N, \A m \in N : m >= n
    PROVE  Min(N) = n
<1>1. Min(N) \in N /\ Min(N) <= n
    BY LeastIs
<1>2. Min(N) \in Nat /\ n \in Nat /\ Min(N) >= n
    BY <1>1
<1>. QED
    BY <1>1, <1>2

LEMMA AudienceIs ==
    ASSUME NEW f \in Frame, NEW i \in 0 .. Len(f.snap), OfferedTo(f, i),
           i = Len(f.snap) \/ (f.processed /\ f.snap[i] \notin Bubbling)
    PROVE  f.given = Audience(f.snap) /\ f.runs = IF f.given = <<>> THEN 0 ELSE 1
<1>1. PICK q \in Seq(Handlers), n \in Nat : q = f.snap /\ n = Len(q) /\ DOMAIN q = 1 .. n
    BY DEF Frame
<1>. DEFINE taking == {k \in DOMAIN q : q[k] \in Accepting}
<1>2. CASE ~f.processed
    <2>1. taking = {}
        BY <1>1, <1>2 DEF OfferedTo
    <2>. QED
        BY <1>1, <1>2, <2>1 DEF OfferedTo, Audience
<1>3. CASE f.processed
    <2>1. PICK from \in 1 .. i :
              /\ f.given = SubSeq(q, from, i) /\ f.runs = 1
              /\ q[from] \in Accepting /\ \A k \in 1 .. from - 1 : q[k] \notin Accepting
              /\ \A k \in from .. i - 1 : q[k] \in Bubbling
        BY <1>1, <1>3 DEF OfferedTo
    <2>2. i \in 1 .. n /\ from \in 1 .. n
        BY <1>1, <2>1
    <2>3. Min(taking) = from
        <3>1. taking \subseteq Nat /\ from \in taking /\ \A k \in taking : k >= from
            BY <1>1, <2>1, <2>2
        <3>. HIDE DEF taking
        <3>. QED
            BY <3>1, ThisIsLeast
    <2>. DEFINE ending == {k \in DOMAIN q : k >= from /\ q[k] \notin Bubbling}
    <2>4. IF ending = {} THEN i = n ELSE Min(ending) = i
        <3>1. \A k \in ending : k >= i
            BY <1>1, <2>1, <2>2
        <3>2. CASE q[i] \notin Bubbling
            <4>1. i \in ending /\ ending \subseteq Nat
                BY <1>1, <2>1, <2>2, <3>2
            <4>. HIDE DEF ending
            <4>2. Min(ending) = i
                BY <3>1, <4>1, ThisIsLeast
            <4>. QED
                BY <4>1, <4>2
        <3>3. CASE q[i] \in Bubbling
            <4>1. i = n
                BY <1>1, <1>3, <3>3
            <4>. QED
                BY <1>1, <2>1, <3>1, <3>3, <4>1
        <3>. QED
            BY <3>2, <3>3
    <2>5. from \in taking
        BY <1>1, <2>1, <2>2
    <2>6. Audience(q) = SubSeq(q, from, i)
        <3>1. Audience(q) = SubSeq(q, Min(taking), IF ending = {} THEN Len(q) ELSE Min(ending))
            BY <2>3, <2>5 DEF Audience
        <3>. HIDE DEF taking, ending
        <3>. QED
            BY <1>1, <2>3, <2>4, <3>1
    <2>7. SubSeq(q, from, i) # <<>>
        <3>1. Len(SubSeq(q, from, i)) = i - from + 1 /\ i - from + 1 > 0
            BY <1>1, <2>1, <2>2
        <3>2. Len(SubSeq(q, from, i)) # 0 /\ Len(<<>>) = 0
            BY <2>1, <3>1
        <3>. QED
            BY ONLY <3>2, Zenon
    <2>. QED
        BY ONLY <1>1, <2>1, <2>6, <2>7
<1>. QED
    BY <1>2, <1>3

-----------------------------------------------------------------------------
(* The calls of a thread: the last goes on, one is made, one is over *)

LEMMA TopIs ==
    ASSUME NEW fs, NEW d, StackOK(fs, d), fs # <<>>
    PROVE  /\ fs \in Seq(Frame) /\ Head(fs) = fs[1] /\ Head(fs) \in Frame /\ FrameOK(Head(fs))
           /\ Len(fs) \in Nat \ {0} /\ DOMAIN fs = 1 .. Len(fs) /\ 1 \in DOMAIN fs
<1>1. fs \in Seq(Frame) /\ Len(fs) \in Nat \ {0} /\ DOMAIN fs = 1 .. Len(fs) /\ 1 \in DOMAIN fs
    BY DEF StackOK
<1>2. Head(fs) = fs[1] /\ fs[1] \in Frame
    BY <1>1
<1>. QED
    BY <1>1, <1>2 DEF StackOK

\* It goes on: whether it counts, and for which call, stays as it is.
LEMMA TopGoesOn ==
    ASSUME NEW fs, NEW d, StackOK(fs, d), fs # <<>>, NEW x \in Frame, FrameOK(x),
           Head(fs).at # "enter" \/ x.logger \notin Detecting, x.at # "enter",
           x.logger = Head(fs).logger, x.token = Head(fs).token, x.warning = Head(fs).warning
    PROVE  StackOK(<<x>> \o Tail(fs), d)
<1>. DEFINE gs == <<x>> \o Tail(fs)
            n == Len(fs)
<1>1. /\ fs \in Seq(Frame) /\ fs # <<>> /\ Head(fs) = fs[1] /\ 1 \in DOMAIN fs
      /\ \A i \in DOMAIN fs : FrameOK(fs[i]) /\ (i > 1 => fs[i].at \in {"handling", "leave"})
      /\ Tokened(fs, d) /\ Warned(fs) /\ d \in Nat
    BY TopIs DEF StackOK
<1>2. /\ gs \in Seq(Frame) /\ n \in Nat \ {0} /\ DOMAIN fs = 1 .. n /\ DOMAIN gs = 1 .. n
      /\ gs[1] = x /\ \A i \in 2 .. n : gs[i] = fs[i]
    BY <1>1, ChangedIs
<1>. HIDE DEF gs
<1>3. \A i \in 1 .. n : /\ Counts(gs[i]) <=> Counts(fs[i])
                        /\ gs[i].token = fs[i].token /\ gs[i].warning = fs[i].warning
                        /\ gs[i].logger = fs[i].logger
    <2>1. ASSUME NEW i \in 1 .. n, i # 1 PROVE gs[i] = fs[i]
        BY <1>2, <2>1
    <2>. QED
        BY <1>1, <1>2, <2>1 DEF Counts
<1>4. \A i \in 1 .. n : FrameOK(gs[i]) /\ (i > 1 => gs[i].at \in {"handling", "leave"})
    <2>1. ASSUME NEW i \in 1 .. n, i # 1 PROVE gs[i] = fs[i]
        BY <1>2, <2>1
    <2>. QED
        BY <1>1, <1>2, <2>1
<1>5. Tokened(gs, d)
    <2>1. ASSUME NEW i \in 1 .. n, Counts(gs[i]) PROVE gs[i].token \in 0 .. d - 1
        BY <1>1, <1>2, <1>3, <2>1 DEF Tokened
    <2>2. ASSUME NEW k \in 0 .. d - 1 PROVE \E i \in 1 .. n : Counts(gs[i]) /\ gs[i].token = k
        <3>1. PICK i \in 1 .. n : Counts(fs[i]) /\ fs[i].token = k
            BY <1>1, <1>2 DEF Tokened
        <3>. QED
            BY <1>3, <3>1
    <2>3. ASSUME NEW i \in 1 .. n, NEW j \in 1 .. n, Counts(gs[i]), Counts(gs[j]), i < j
          PROVE  gs[i].token > gs[j].token
        BY <1>1, <1>2, <1>3, <2>3 DEF Tokened
    <2>. QED
        BY <1>2, <2>1, <2>2, <2>3 DEF Tokened
<1>6. Warned(gs)
    <2>. SUFFICES ASSUME NEW i \in 1 .. n, Counts(gs[i])
                  PROVE  /\ gs[i].token = 2 /\ i > 1 => gs[i - 1].warning /\ gs[i - 1].logger \in Detecting
                         /\ gs[i].token = 3 => gs[i].warning
        BY <1>2 DEF Warned
    <2>1. i > 1 => i - 1 \in 1 .. n
        BY <1>2
    <2>. QED
        BY <1>1, <1>2, <1>3, <2>1 DEF Warned
<1>. QED
    BY <1>1, <1>2, <1>4, <1>5, <1>6 DEF StackOK, gs

\* A call is made: it does not count before it is counted.
LEMMA CallMade ==
    ASSUME NEW fs, NEW d, StackOK(fs, d), NEW x \in Frame, FrameOK(x), x.at = "enter",
           fs # <<>> => /\ Head(fs).at \in {"handling", "leave"}
                        /\ Counts(Head(fs)) /\ Head(fs).token = 2 => x.warning /\ x.logger \in Detecting
    PROVE  StackOK(<<x>> \o fs, d)
<1>. DEFINE gs == <<x>> \o fs
            n == Len(fs)
<1>1. /\ fs \in Seq(Frame) /\ (fs # <<>> => Head(fs) = fs[1])
      /\ \A i \in DOMAIN fs : FrameOK(fs[i]) /\ (i > 1 => fs[i].at \in {"handling", "leave"})
      /\ Tokened(fs, d) /\ Warned(fs) /\ d \in Nat
    BY DEF StackOK
<1>2. /\ gs \in Seq(Frame) /\ n \in Nat /\ DOMAIN fs = 1 .. n /\ DOMAIN gs = 1 .. n + 1
      /\ gs[1] = x /\ \A i \in 1 .. n : gs[i + 1] = fs[i]
    BY <1>1, FirstIs
<1>3. fs # <<>> <=> n > 0
    BY <1>1, <1>2, EmptySeq
<1>. HIDE DEF gs
<1>4. \A i \in 1 .. n + 1 : i = 1 \/ (i - 1 \in 1 .. n /\ gs[i] = fs[i - 1])
    BY <1>2
<1>5. ~Counts(gs[1])
    BY <1>2 DEF Counts
<1>6. \A i \in 1 .. n + 1 : FrameOK(gs[i]) /\ (i > 1 => gs[i].at \in {"handling", "leave"})
    <2>1. ASSUME NEW i \in 1 .. n PROVE fs[i].at \in {"handling", "leave"}
        <3>1. CASE i = 1
            <4>1. fs # <<>>
                BY <1>2, <1>3
            <4>2. Head(fs).at \in {"handling", "leave"} /\ Head(fs) = fs[1]
                BY <1>1, <4>1
            <4>. QED
                BY ONLY <3>1, <4>2
        <3>2. CASE i # 1
            BY <1>1, <1>2, <3>2
        <3>. QED
            BY <3>1, <3>2
    <2>. QED
        BY <1>1, <1>2, <1>4, <2>1
<1>7. Tokened(gs, d)
    <2>1. \A i \in 1 .. n + 1 : Counts(gs[i]) => gs[i].token \in 0 .. d - 1
        BY <1>1, <1>2, <1>4, <1>5 DEF Tokened
    <2>2. ASSUME NEW k \in 0 .. d - 1 PROVE \E i \in 1 .. n + 1 : Counts(gs[i]) /\ gs[i].token = k
        <3>1. PICK i \in 1 .. n : Counts(fs[i]) /\ fs[i].token = k
            BY <1>1, <1>2 DEF Tokened
        <3>2. i + 1 \in 1 .. n + 1
            BY <1>2
        <3>. QED
            BY <1>2, <3>1, <3>2
    <2>3. ASSUME NEW i \in 1 .. n + 1, NEW j \in 1 .. n + 1, Counts(gs[i]), Counts(gs[j]), i < j
          PROVE  gs[i].token > gs[j].token
        <3>1. PICK k \in 1 .. n, l \in 1 .. n : gs[i] = fs[k] /\ gs[j] = fs[l] /\ k < l
            <4>1. i - 1 \in 1 .. n /\ j - 1 \in 1 .. n /\ gs[i] = fs[i - 1] /\ gs[j] = fs[j - 1] /\ i - 1 < j - 1
                BY <1>2, <1>4, <1>5, <2>3
            <4>. QED
                BY <4>1
        <3>2. Counts(fs[k]) /\ Counts(fs[l])
            BY <2>3, <3>1
        <3>3. fs[k].token > fs[l].token
            BY <1>1, <1>2, <3>1, <3>2 DEF Tokened
        <3>. QED
            BY <3>1, <3>3
    <2>. QED
        BY <1>2, <2>1, <2>2, <2>3 DEF Tokened
<1>8. Warned(gs)
    <2>. SUFFICES ASSUME NEW i \in 1 .. n + 1, Counts(gs[i])
                  PROVE  /\ gs[i].token = 2 /\ i > 1 => gs[i - 1].warning /\ gs[i - 1].logger \in Detecting
                         /\ gs[i].token = 3 => gs[i].warning
        BY <1>2 DEF Warned
    <2>1. PICK j \in 1 .. n : j = i - 1 /\ gs[i] = fs[j] /\ i > 1
        BY <1>4, <1>5
    <2>2. gs[j] = IF j = 1 THEN x ELSE fs[j - 1]
        BY <1>2, <1>4, <2>1
    <2>3. CASE j = 1
        BY <1>1, <1>2, <1>3, <2>1, <2>2, <2>3 DEF Warned
    <2>4. CASE j > 1
        BY <1>1, <1>2, <2>1, <2>2, <2>4 DEF Warned
    <2>. QED
        BY <1>2, <2>3, <2>4
<1>. QED
    BY <1>1, <1>2, <1>6, <1>7, <1>8 DEF StackOK, gs

\* A call is over, and the depth is what it was before.
LEMMA CallOver ==
    ASSUME NEW fs, NEW d, StackOK(fs, d), fs # <<>>, Head(fs).at # "enter"
    PROVE  StackOK(Tail(fs), IF Head(fs).logger \in Detecting THEN Head(fs).token ELSE d)
<1>. DEFINE f == fs[1]
            n == Len(fs)
            e == IF f.logger \in Detecting THEN f.token ELSE d
<1>1. /\ fs \in Seq(Frame) /\ Head(fs) = f /\ n \in Nat \ {0} /\ DOMAIN fs = 1 .. n /\ f \in Frame
      /\ \A i \in DOMAIN fs : FrameOK(fs[i]) /\ (i > 1 => fs[i].at \in {"handling", "leave"})
      /\ Tokened(fs, d) /\ Warned(fs) /\ d \in Nat
    BY TopIs DEF StackOK
<1>2. PICK gs \in Seq(Frame) : /\ gs = Tail(fs) /\ DOMAIN gs = 1 .. n - 1
                               /\ \A i \in 1 .. n - 1 : gs[i] = fs[i + 1]
    <2>1. /\ Tail(fs) \in Seq(Frame) /\ DOMAIN Tail(fs) = 1 .. n - 1
          /\ \A i \in 1 .. n - 1 : Tail(fs)[i] = fs[i + 1]
        BY <1>1
    <2>. QED
        BY <2>1
<1>3. Counts(f) <=> f.logger \in Detecting
    BY <1>1 DEF Counts
<1>4. e \in Nat /\ (Counts(f) => e = f.token /\ e \in 0 .. d - 1) /\ (~Counts(f) => e = d)
    <2>1. 1 \in DOMAIN fs
        BY <1>1
    <2>2. Counts(f) => f.token \in 0 .. d - 1
        BY <1>1, <2>1 DEF Tokened
    <2>. QED
        BY <1>1, <1>3, <2>2
<1>. HIDE DEF e
<1>5. \A i \in 1 .. n - 1 : FrameOK(gs[i]) /\ (i > 1 => gs[i].at \in {"handling", "leave"})
    <2>1. \A i \in 1 .. n - 1 : i + 1 \in 1 .. n /\ i + 1 > 1
        BY <1>1
    <2>. QED
        BY <1>1, <1>2, <2>1
<1>6. Tokened(gs, e)
    <2>1. ASSUME NEW i \in 1 .. n - 1, Counts(gs[i]) PROVE gs[i].token \in 0 .. e - 1
        <3>1. i + 1 \in 1 .. n /\ i + 1 > 1 /\ gs[i] = fs[i + 1] /\ 1 \in 1 .. n
            BY <1>1, <1>2
        <3>2. gs[i].token \in 0 .. d - 1 /\ (Counts(f) => f.token > gs[i].token)
            BY <1>1, <2>1, <3>1 DEF Tokened
        <3>. QED
            BY <1>4, <3>2
    <2>2. ASSUME NEW k \in 0 .. e - 1 PROVE \E i \in 1 .. n - 1 : Counts(gs[i]) /\ gs[i].token = k
        <3>1. k \in 0 .. d - 1
            BY <1>1, <1>4
        <3>2. PICK i \in 1 .. n : Counts(fs[i]) /\ fs[i].token = k
            BY <1>1, <3>1 DEF Tokened
        <3>3. i # 1
            BY <1>4, <3>2
        <3>4. i - 1 \in 1 .. n - 1 /\ (i - 1) + 1 = i
            BY <1>1, <3>3
        <3>. QED
            BY <1>2, <3>2, <3>4
    <2>3. ASSUME NEW i \in 1 .. n - 1, NEW j \in 1 .. n - 1, Counts(gs[i]), Counts(gs[j]), i < j
          PROVE  gs[i].token > gs[j].token
        <3>1. i + 1 \in 1 .. n /\ j + 1 \in 1 .. n /\ i + 1 < j + 1
            BY <1>1, <2>3
        <3>. QED
            BY <1>1, <1>2, <2>3, <3>1 DEF Tokened
    <2>. QED
        BY <1>2, <2>1, <2>2, <2>3 DEF Tokened
<1>7. Warned(gs)
    <2>. SUFFICES ASSUME NEW i \in 1 .. n - 1, Counts(gs[i])
                  PROVE  /\ gs[i].token = 2 /\ i > 1 => gs[i - 1].warning /\ gs[i - 1].logger \in Detecting
                         /\ gs[i].token = 3 => gs[i].warning
        BY <1>2 DEF Warned
    <2>1. PICK j \in 1 .. n : j = i + 1 /\ gs[i] = fs[j] /\ j > 1 /\ j - 1 = i
        BY <1>1, <1>2
    <2>2. i > 1 => i - 1 \in 1 .. n - 1 /\ gs[i - 1] = fs[(i - 1) + 1] /\ (i - 1) + 1 = i
        BY <1>1, <1>2
    <2>. QED
        BY <1>1, <2>1, <2>2 DEF Warned
<1>. QED
    BY <1>1, <1>2, <1>4, <1>5, <1>6, <1>7 DEF StackOK, e

\* A call is counted.
LEMMA CallCounted ==
    ASSUME NEW fs, NEW d, StackOK(fs, d), fs # <<>>, Head(fs).at = "enter", Head(fs).logger \in Detecting,
           NEW x \in Frame, FrameOK(x), x.at # "enter",
           x.logger = Head(fs).logger, x.warning = Head(fs).warning, x.token = d
    PROVE  StackOK(<<x>> \o Tail(fs), d + 1)
<1>. DEFINE gs == <<x>> \o Tail(fs)
            n == Len(fs)
<1>1. /\ fs \in Seq(Frame) /\ fs # <<>> /\ Head(fs) = fs[1] /\ n \in Nat \ {0} /\ DOMAIN fs = 1 .. n
      /\ \A i \in DOMAIN fs : FrameOK(fs[i]) /\ (i > 1 => fs[i].at \in {"handling", "leave"})
      /\ Tokened(fs, d) /\ Warned(fs) /\ d \in Nat
    BY TopIs DEF StackOK
<1>2. /\ gs \in Seq(Frame) /\ DOMAIN gs = 1 .. n
      /\ gs[1] = x /\ \A i \in 2 .. n : gs[i] = fs[i]
    BY <1>1, ChangedIs
<1>. HIDE DEF gs
<1>3. \A i \in 1 .. n : i # 1 => gs[i] = fs[i]
    BY <1>2
<1>4. ~Counts(fs[1]) /\ Counts(gs[1]) /\ gs[1].token = d
    BY <1>1, <1>2 DEF Counts
<1>5. \A i \in 1 .. n : FrameOK(gs[i]) /\ (i > 1 => gs[i].at \in {"handling", "leave"})
    BY <1>1, <1>2, <1>3
<1>6. \A i \in 1 .. n : i # 1 /\ Counts(gs[i]) => gs[i].token \in 0 .. d - 1
    BY <1>1, <1>3 DEF Tokened
<1>7. Tokened(gs, d + 1)
    <2>1. ASSUME NEW i \in 1 .. n, Counts(gs[i]) PROVE gs[i].token \in 0 .. (d + 1) - 1
        BY <1>1, <1>4, <1>6, <2>1
    <2>2. ASSUME NEW k \in 0 .. (d + 1) - 1 PROVE \E i \in 1 .. n : Counts(gs[i]) /\ gs[i].token = k
        <3>1. CASE k = d
            BY <1>1, <1>4, <3>1
        <3>2. CASE k # d
            <4>1. k \in 0 .. d - 1
                BY <1>1, <3>2
            <4>2. PICK i \in 1 .. n : Counts(fs[i]) /\ fs[i].token = k
                BY <1>1, <4>1 DEF Tokened
            <4>. QED
                BY <1>3, <1>4, <4>2
        <3>. QED
            BY <3>1, <3>2
    <2>3. ASSUME NEW i \in 1 .. n, NEW j \in 1 .. n, Counts(gs[i]), Counts(gs[j]), i < j
          PROVE  gs[i].token > gs[j].token
        <3>1. j # 1
            BY <2>3
        <3>2. CASE i = 1
            BY <1>1, <1>4, <1>6, <2>3, <3>1, <3>2
        <3>3. CASE i # 1
            BY <1>1, <1>3, <2>3, <3>1, <3>3 DEF Tokened
        <3>. QED
            BY <3>2, <3>3
    <2>. QED
        BY <1>2, <2>1, <2>2, <2>3 DEF Tokened
<1>8. gs[1].warning = fs[1].warning /\ gs[1].logger = fs[1].logger
    BY <1>1, <1>2
<1>9. d = 3 => fs[1].warning
    <2>. SUFFICES ASSUME d = 3 PROVE fs[1].warning
        OBVIOUS
    <2>1. PICK j \in 1 .. n : Counts(fs[j]) /\ fs[j].token = 2
        BY <1>1 DEF Tokened
    <2>2. j > 1 /\ j - 1 \in 1 .. n /\ j - 1 < j
        BY <1>1, <1>4, <2>1
    <2>3. fs[j - 1].warning /\ fs[j - 1].logger \in Detecting
        BY <1>1, <2>1, <2>2 DEF Warned
    <2>4. j - 1 = 1
        <3>. SUFFICES ASSUME j - 1 > 1 PROVE FALSE
            BY <2>2
        <3>1. Counts(fs[j - 1])
            BY <1>1, <2>2, <2>3 DEF Counts
        <3>2. fs[j - 1].token \in 0 .. 2 /\ fs[j - 1].token > 2
            BY <1>1, <2>1, <2>2, <3>1 DEF Tokened
        <3>. QED
            BY <3>2
    <2>. QED
        BY <2>3, <2>4
<1>10. Warned(gs)
    <2>. SUFFICES ASSUME NEW i \in 1 .. n, Counts(gs[i])
                  PROVE  /\ gs[i].token = 2 /\ i > 1 => gs[i - 1].warning /\ gs[i - 1].logger \in Detecting
                         /\ gs[i].token = 3 => gs[i].warning
        BY <1>2 DEF Warned
    <2>1. CASE i = 1
        BY <1>4, <1>8, <1>9, <2>1
    <2>2. CASE i # 1
        <3>1. i - 1 \in 1 .. n /\ i > 1 /\ gs[i] = fs[i]
            BY <1>1, <1>3, <2>2
        <3>2. gs[i - 1].warning = fs[i - 1].warning /\ gs[i - 1].logger = fs[i - 1].logger
            BY <1>3, <1>8, <3>1
        <3>. QED
            BY <1>1, <3>1, <3>2 DEF Warned
    <2>. QED
        BY <2>1, <2>2
<1>. QED
    BY <1>1, <1>2, <1>5, <1>7, <1>10 DEF StackOK, gs

-----------------------------------------------------------------------------
(* Every action keeps it *)

LEMMA StackHeld ==
    ASSUME LoggerInv, NEW t \in Threads
    PROVE  /\ StackOK(frames[t], depth[t]) /\ frames[t] \in Seq(Frame) /\ depth[t] \in Nat
           /\ frames[t] # <<>> => /\ Top(t) = Head(frames[t]) /\ Top(t) \in Frame /\ FrameOK(Top(t))
                                  /\ Tail(frames[t]) \in Seq(Frame)
<1>1. StackOK(frames[t], depth[t]) /\ frames[t] \in Seq(Frame) /\ depth[t] \in Nat
    BY DEF LoggerInv, StackOK
<1>. QED
    BY <1>1, TopIs DEF Top

LEMMA OneMoves ==
    ASSUME LoggerInv, NEW t \in Threads, NEW gs, NEW e, StackOK(gs, e),
           frames' = [frames EXCEPT ![t] = gs], depth' = [depth EXCEPT ![t] = e],
           handlers' \in [Loggers -> Seq(Handlers)], logs' \in [Threads -> 0 .. MaxLogs],
           rewires' \in 0 .. MaxRewires
    PROVE  LoggerInv'
<1>1. gs \in Seq(Frame) /\ e \in Nat
    BY DEF StackOK
<1>2. TypeOK'
    BY <1>1 DEF LoggerInv, TypeOK
<1>3. ASSUME NEW u \in Threads PROVE StackOK(frames'[u], depth'[u])
    <2>1. /\ u = t => frames'[u] = gs /\ depth'[u] = e
          /\ u # t => frames'[u] = frames[u] /\ depth'[u] = depth[u]
        BY DEF LoggerInv, TypeOK
    <2>2. StackOK(frames[u], depth[u])
        BY DEF LoggerInv
    <2>. QED
        BY <2>1, <2>2
<1>. QED
    BY <1>2, <1>3 DEF LoggerInv

\* A step that moves the frames of its thread alone.
LEMMA FramesMove ==
    ASSUME LoggerInv, NEW t \in Threads, NEW gs, StackOK(gs, depth[t]),
           frames' = [frames EXCEPT ![t] = gs], UNCHANGED <<handlers, depth, logs, rewires>>
    PROVE  LoggerInv'
<1>1. /\ depth' = [depth EXCEPT ![t] = depth[t]]
      /\ handlers' \in [Loggers -> Seq(Handlers)] /\ logs' \in [Threads -> 0 .. MaxLogs]
      /\ rewires' \in 0 .. MaxRewires
    BY DEF LoggerInv, TypeOK
<1>. QED
    BY <1>1, OneMoves

\* Its last call goes on to another place.
LEMMA TopMoves ==
    ASSUME LoggerInv, NEW t \in Threads, frames[t] # <<>>, NEW x \in Frame, FrameOK(x),
           Top(t).at # "enter" \/ x.logger \notin Detecting, x.at # "enter",
           x.logger = Top(t).logger, x.token = Top(t).token, x.warning = Top(t).warning,
           SetTop(t, x), UNCHANGED <<handlers, depth, logs, rewires>>
    PROVE  LoggerInv'
<1>1. PICK fs, d : fs = frames[t] /\ d = depth[t] /\ StackOK(fs, d) /\ fs # <<>> /\ Top(t) = Head(fs)
    BY StackHeld
<1>2. StackOK(<<x>> \o Tail(fs), d)
    BY <1>1, TopGoesOn
<1>3. frames' = [frames EXCEPT ![t] = <<x>> \o Tail(fs)]
    BY <1>1 DEF SetTop
<1>. QED
    BY <1>1, <1>2, <1>3, FramesMove

LEMMA NewIs ==
    ASSUME NEW l \in Loggers, NEW warns \in BOOLEAN
    PROVE  LET x == NewFrame(l, warns)
           IN  x \in Frame /\ FrameOK(x) /\ x.at = "enter" /\ x.logger = l /\ x.warning = warns
<1>. DEFINE x == NewFrame(l, warns)
<1>1. /\ x \in Frame /\ x.at = "enter" /\ x.logger = l /\ x.warning = warns
      /\ x.given = <<>> /\ x.runs = 0 /\ ~x.processed /\ ~x.failed /\ x.token = 0
    <2>1. <<>> \in Seq(Handlers) /\ 0 \in 0 .. 1 /\ 0 \in Nat
        OBVIOUS
    <2>. QED
        BY <2>1 DEF NewFrame, Frame, Ladder
<1>. HIDE DEF x
<1>2. FrameOK(x)
    BY <1>1 DEF FrameOK, Skipped, WARN_AT_DEPTH, DROP_AT_DEPTH
<1>. QED
    BY <1>1, <1>2 DEF x

LEMMA LogKeeps ==
    ASSUME LoggerInv, NEW t \in Threads, NEW l \in Loggers, Log(t, l) PROVE LoggerInv'
<1>0. NewFrame(l, FALSE) \in Frame /\ FrameOK(NewFrame(l, FALSE)) /\ NewFrame(l, FALSE).at = "enter"
    BY NewIs
<1>1. PICK fs, d, x :
          /\ fs = frames[t] /\ d = depth[t] /\ StackOK(fs, d) /\ fs = <<>>
          /\ x = NewFrame(l, FALSE) /\ x \in Frame /\ FrameOK(x) /\ x.at = "enter"
    BY <1>0, StackHeld DEF Log
<1>2. StackOK(<<x>> \o fs, d)
    BY <1>1, CallMade
<1>3. frames' = [frames EXCEPT ![t] = <<x>> \o fs] /\ depth' = [depth EXCEPT ![t] = d]
    BY <1>1 DEF Log, Call, LoggerInv, TypeOK
<1>4. /\ handlers' \in [Loggers -> Seq(Handlers)] /\ logs' \in [Threads -> 0 .. MaxLogs]
      /\ rewires' \in 0 .. MaxRewires
    BY LoggerAssumption DEF Log, LoggerInv, TypeOK
<1>. QED
    BY <1>2, <1>3, <1>4, OneMoves

\* The record is offered to the stack as it is now.
LEMMA OfferedIs ==
    ASSUME TypeOK, NEW f \in Frame, FrameOK(f), f.at = "enter",
           NEW n \in Nat, f.logger \notin Detecting => n = 0,
           f.logger \in Detecting => n + 1 # WARN_AT_DEPTH /\ ~(n + 1 >= DROP_AT_DEPTH)
    PROVE  LET x == Offered([f EXCEPT !.token = n])
           IN  /\ x \in Frame /\ FrameOK(x) /\ x.at = "offer" /\ x.logger = f.logger
               /\ x.warning = f.warning /\ x.token = n
<1>. DEFINE x == Offered([f EXCEPT !.token = n])
<1>1. PICK q \in Seq(Handlers) : q = handlers[f.logger]
    BY DEF TypeOK, Frame
<1>2. f.given = <<>> /\ f.runs = 0 /\ ~f.processed
    BY DEF FrameOK
<1>3. /\ x \in Frame /\ x.at = "offer" /\ x.logger = f.logger /\ x.warning = f.warning /\ x.token = n
      /\ x.left = q /\ x.snap = q /\ x.given = <<>> /\ x.runs = 0 /\ ~x.processed
    BY <1>1, <1>2 DEF Offered, Frame, Ladder
<1>. HIDE DEF x
<1>4. OfferedTo(x, 0)
    <2>1. SubSeq(q, 0 + 1, Len(q)) = q
        OBVIOUS
    <2>. QED
        BY <1>3, <2>1 DEF OfferedTo
<1>5. 0 \in 0 .. Len(x.snap)
    BY <1>3
<1>6. ~Skipped(x)
    BY <1>3 DEF Skipped
<1>. QED
    BY <1>3, <1>4, <1>5, <1>6 DEF FrameOK, x

LEMMA UncountedKeeps ==
    ASSUME LoggerInv, NEW t \in Threads, EnterUncounted(t) PROVE LoggerInv'
<1>1. PICK f \in Frame :
          /\ f = Top(t) /\ FrameOK(f) /\ f.at = "enter" /\ frames[t] # <<>> /\ f.logger \notin Detecting
    BY StackHeld DEF EnterUncounted, In
<1>2. f.token = 0
    BY <1>1 DEF FrameOK
<1>3. [f EXCEPT !.token = 0] = f
    BY <1>2 DEF Frame
<1>. DEFINE x == Offered(f)
<1>4. /\ x \in Frame /\ FrameOK(x) /\ x.at = "offer" /\ x.logger = f.logger
      /\ x.warning = f.warning /\ x.token = 0
    <2>1. 0 \in Nat /\ TypeOK
        BY DEF LoggerInv
    <2>. DEFINE y == Offered([f EXCEPT !.token = 0])
    <2>2. /\ y \in Frame /\ FrameOK(y) /\ y.at = "offer" /\ y.logger = f.logger
          /\ y.warning = f.warning /\ y.token = 0
        BY <1>1, <2>1, OfferedIs
    <2>3. y = x
        BY <1>3, Zenon
    <2>. HIDE DEF x, y
    <2>. QED
        BY <2>2, <2>3
<1>5. SetTop(t, x) /\ UNCHANGED <<handlers, depth, logs, rewires>>
    BY <1>1 DEF EnterUncounted
<1>. HIDE DEF x
<1>. QED
    BY <1>1, <1>2, <1>4, <1>5, TopMoves

LEMMA CountedKeeps ==
    ASSUME LoggerInv, NEW t \in Threads, EnterCounted(t) PROVE LoggerInv'
<1>0. /\ StackOK(frames[t], depth[t]) /\ depth[t] \in Nat /\ frames[t] # <<>>
      /\ Top(t) = Head(frames[t]) /\ FrameOK(Top(t)) /\ Top(t).at = "enter" /\ Top(t).logger \in Detecting
      /\ Top(t) \in Frame /\ frames[t] \in Seq(Frame) /\ Tail(frames[t]) \in Seq(Frame)
    BY StackHeld DEF EnterCounted, In
<1>1. PICK fs, n, f :
          /\ fs = frames[t] /\ n = depth[t] /\ StackOK(fs, n) /\ n \in Nat /\ fs # <<>>
          /\ f = Head(fs) /\ f = Top(t) /\ FrameOK(f) /\ f.at = "enter" /\ f.logger \in Detecting
          /\ f \in Frame /\ fs \in Seq(Frame) /\ Tail(fs) \in Seq(Frame)
    BY <1>0
<1>2. /\ depth' = [depth EXCEPT ![t] = n + 1]
      /\ handlers' \in [Loggers -> Seq(Handlers)] /\ logs' \in [Threads -> 0 .. MaxLogs]
      /\ rewires' \in 0 .. MaxRewires
    BY <1>1 DEF EnterCounted, LoggerInv, TypeOK
<1>3. ASSUME NEW x \in Frame, FrameOK(x), x.at # "enter", x.logger = f.logger, x.warning = f.warning, x.token = n
      PROVE  StackOK(<<x>> \o Tail(fs), n + 1)
    BY <1>1, <1>3, CallCounted
<1>. DEFINE g == [f EXCEPT !.token = n]
            v == [g EXCEPT !.at = "leave"]
<1>4. /\ v \in Frame /\ v.at = "leave" /\ v.logger = f.logger /\ v.warning = f.warning /\ v.token = n
      /\ v.given = <<>>
    <2>1. f.given = <<>>
        BY <1>1 DEF FrameOK
    <2>. QED
        BY <1>1, <2>1 DEF Frame, Ladder
<1>. HIDE DEF v
<1>5. n + 1 = WARN_AT_DEPTH \/ n + 1 >= DROP_AT_DEPTH => FrameOK(v)
    BY <1>1, <1>4 DEF FrameOK, Skipped
<1>6. CASE n + 1 = WARN_AT_DEPTH
    <2>. DEFINE x == NewFrame(f.logger, TRUE)
                gs == <<v>> \o Tail(fs)
    <2>0. n + 1 = 3 /\ ~Dropped(n + 1)
        BY <1>1, <1>6 DEF Dropped, WARN_AT_DEPTH, DROP_AT_DEPTH
    <2>1. frames' = [frames EXCEPT ![t] = <<x, v>> \o Tail(fs)]
        <3>1. g.logger = f.logger
            BY <1>1 DEF Frame
        <3>2. frames' = [frames EXCEPT ![t] = <<NewFrame(g.logger, TRUE), [g EXCEPT !.at = "leave"]>> \o Tail(@)]
            BY <1>1, <1>6, <2>0 DEF EnterCounted
        <3>3. frames' = [frames EXCEPT ![t] = <<NewFrame(f.logger, TRUE), v>> \o Tail(fs)]
            BY <1>1, <3>1, <3>2 DEF v
        <3>. QED
            BY <3>3
    <2>2. x \in Frame /\ FrameOK(x) /\ x.at = "enter" /\ x.logger = f.logger /\ x.warning
        <3>1. f.logger \in Loggers /\ TRUE \in BOOLEAN
            BY <1>1 DEF Frame
        <3>. QED
            BY <3>1, NewIs
    <2>. HIDE DEF x
    <2>3. StackOK(gs, n + 1) /\ gs \in Seq(Frame) /\ Head(gs) = v
        BY <1>1, <1>3, <1>4, <1>5, <1>6, ChangedIs, TopIs
    <2>4. StackOK(<<x>> \o gs, n + 1)
        <3>. HIDE DEF gs
        <3>. QED
            BY <1>1, <1>4, <2>2, <2>3, CallMade
    <2>5. <<x>> \o gs = <<x, v>> \o Tail(fs)
        <3>1. PICK r \in Seq(Frame) : r = Tail(fs)
            BY <1>1
        <3>2. x \in Frame /\ v \in Frame
            BY <1>4, <2>2
        <3>3. <<x>> \o (<<v>> \o r) = <<x, v>> \o r
            BY ONLY <3>1, <3>2
        <3>. QED
            BY <3>1, <3>3
    <2>. QED
        BY <1>2, <2>1, <2>4, <2>5, OneMoves
<1>7. CASE n + 1 # WARN_AT_DEPTH /\ Dropped(n + 1)
    <2>1. frames' = [frames EXCEPT ![t] = <<v>> \o Tail(fs)]
        BY <1>1, <1>7 DEF EnterCounted, SetTop, v
    <2>2. StackOK(<<v>> \o Tail(fs), n + 1)
        BY <1>3, <1>4, <1>5, <1>7 DEF Dropped
    <2>. QED
        BY <1>2, <2>1, <2>2, OneMoves
<1>8. CASE n + 1 # WARN_AT_DEPTH /\ ~Dropped(n + 1)
    <2>. DEFINE x == Offered(g)
    <2>1. frames' = [frames EXCEPT ![t] = <<x>> \o Tail(fs)]
        BY <1>1, <1>8 DEF EnterCounted, SetTop
    <2>2. /\ x \in Frame /\ FrameOK(x) /\ x.at = "offer" /\ x.logger = f.logger
          /\ x.warning = f.warning /\ x.token = n
        BY <1>1, <1>8, OfferedIs DEF Dropped, LoggerInv
    <2>. HIDE DEF x
    <2>3. StackOK(<<x>> \o Tail(fs), n + 1)
        BY <1>3, <2>2
    <2>. QED
        BY <1>2, <2>1, <2>3, OneMoves
<1>. QED
    BY <1>6, <1>7, <1>8

LEMMA HandedOn ==
    ASSUME LoggerInv, NEW t \in Threads, NEW f, f = Top(t), In(t, "offer"), f.left # <<>>
    PROVE  \E i \in 0 .. Len(f.snap) - 1 :
               /\ OfferedTo(f, i) /\ Head(f.left) = f.snap[i + 1] /\ i + 1 \in 1 .. Len(f.snap)
               /\ Tail(f.left) = SubSeq(f.snap, (i + 1) + 1, Len(f.snap))
<1>1. f \in Frame /\ FrameOK(f) /\ f.at = "offer"
    BY StackHeld DEF In
<1>2. PICK q \in Seq(Handlers), n \in Nat : q = f.snap /\ n = Len(q)
    BY <1>1 DEF Frame
<1>3. PICK i \in 0 .. n : OfferedTo(f, i)
    BY <1>1, <1>2 DEF FrameOK
<1>4. f.left = SubSeq(q, i + 1, n)
    BY <1>2, <1>3 DEF OfferedTo
<1>5. i # n
    BY <1>2, <1>4
<1>6. i \in 0 .. n - 1 /\ i + 1 \in 1 .. n
    BY <1>5
<1>7. Head(f.left) = q[i + 1] /\ Tail(f.left) = SubSeq(q, (i + 1) + 1, n)
    BY <1>2, <1>4, <1>6
<1>. QED
    BY <1>2, <1>3, <1>6, <1>7

LEMMA OfferKeeps ==
    ASSUME LoggerInv, NEW t \in Threads, Offer(t) PROVE LoggerInv'
<1>1. PICK f \in Frame : f = Top(t) /\ FrameOK(f) /\ f.at = "offer" /\ frames[t] # <<>>
    BY StackHeld DEF Offer, In
<1>2. PICK q \in Seq(Handlers), n \in Nat : q = f.snap /\ n = Len(q) /\ DOMAIN q = 1 .. n
    BY <1>1 DEF Frame
<1>3. ~Skipped(f) /\ (f.logger \notin Detecting => f.token = 0)
    BY <1>1 DEF FrameOK
<1>4. UNCHANGED <<handlers, depth, logs, rewires>>
    BY DEF Offer
<1>5. ASSUME NEW x \in Frame, FrameOK(x), x.at # "enter", x.logger = f.logger, x.token = f.token,
             x.warning = f.warning, SetTop(t, x)
      PROVE  LoggerInv'
    BY <1>1, <1>4, <1>5, TopMoves
<1>6. CASE f.left = <<>> /\ SetTop(t, [f EXCEPT !.at = "leave"])
    <2>. DEFINE x == [f EXCEPT !.at = "leave"]
    <2>1. PICK i \in 0 .. n : OfferedTo(f, i)
        BY <1>1, <1>2 DEF FrameOK
    <2>2. i = Len(f.snap)
        BY <1>2, <1>6, <2>1 DEF OfferedTo
    <2>3. f.given = Audience(f.snap) /\ f.runs = IF f.given = <<>> THEN 0 ELSE 1
        BY <1>2, <2>1, <2>2, AudienceIs
    <2>4. /\ x \in Frame /\ x.at = "leave" /\ x.logger = f.logger /\ x.token = f.token
          /\ x.warning = f.warning /\ x.given = f.given /\ x.snap = f.snap /\ x.runs = f.runs
        BY <1>1 DEF Frame, Ladder
    <2>. HIDE DEF x
    <2>5. ~Skipped(x)
        BY <1>3, <2>4 DEF Skipped
    <2>6. FrameOK(x)
        BY <1>3, <2>3, <2>4, <2>5 DEF FrameOK
    <2>7. SetTop(t, x)
        BY <1>6 DEF x
    <2>. QED
        BY <1>5, <2>4, <2>6, <2>7
<1>7. ASSUME f.left # <<>>
      PROVE  \E i \in 0 .. n - 1 :
                 /\ OfferedTo(f, i) /\ Head(f.left) = q[i + 1] /\ i + 1 \in 1 .. n
                 /\ Tail(f.left) = SubSeq(q, (i + 1) + 1, n)
    <2>1. In(t, "offer")
        BY <1>1 DEF In
    <2>. QED
        BY <1>1, <1>2, <1>7, <2>1, HandedOn
<1>8. CASE f.left # <<>> /\ PassedOver(f, Head(f.left)) /\ SetTop(t, [f EXCEPT !.left = Tail(@)])
    <2>. DEFINE x == [f EXCEPT !.left = Tail(f.left)]
    <2>1. PICK i \in 0 .. n - 1 :
              /\ OfferedTo(f, i) /\ Head(f.left) = q[i + 1] /\ i + 1 \in 1 .. n
              /\ Tail(f.left) = SubSeq(q, (i + 1) + 1, n)
        BY <1>7, <1>8
    <2>2. PICK j \in 1 .. n : j = i + 1
        BY <2>1
    <2>3. /\ x \in Frame /\ x.at = "offer" /\ x.logger = f.logger /\ x.token = f.token
          /\ x.warning = f.warning /\ x.given = f.given /\ x.snap = q /\ x.runs = f.runs
          /\ x.processed = f.processed /\ x.left = SubSeq(q, j + 1, n)
        <3>1. Tail(f.left) \in Seq(Handlers)
            BY <1>1, <1>8 DEF Frame
        <3>. QED
            BY <1>1, <1>2, <2>1, <2>2, <3>1 DEF Frame
    <2>. HIDE DEF x
    <2>4. ~f.processed /\ q[j] \notin Accepting
        BY <1>8, <2>1, <2>2 DEF PassedOver
    <2>5. f.given = <<>> /\ f.runs = 0 /\ \A k \in 1 .. i : q[k] \notin Accepting
        BY <1>2, <2>1, <2>4 DEF OfferedTo
    <2>6. \A k \in 1 .. j : q[k] \notin Accepting
        BY <2>2, <2>4, <2>5
    <2>7. OfferedTo(x, j)
        BY <1>2, <2>3, <2>4, <2>5, <2>6 DEF OfferedTo
    <2>8. ~Skipped(x) /\ j \in 0 .. Len(x.snap)
        BY <1>2, <1>3, <2>3 DEF Skipped
    <2>9. FrameOK(x)
        BY <1>3, <2>3, <2>7, <2>8 DEF FrameOK
    <2>10. SetTop(t, x)
        BY <1>8 DEF x
    <2>. QED
        BY <1>5, <2>3, <2>9, <2>10
<1>9. CASE /\ f.left # <<>> /\ ~PassedOver(f, Head(f.left))
           /\ SetTop(t, [[f EXCEPT !.left = Tail(@)] EXCEPT !.at = "handling", !.processed = TRUE,
                                        !.runs = Runs(f), !.echoed = FALSE,
                                        !.given = Append(@, Head(f.left))])
    <2>. DEFINE x == [f EXCEPT !.left = Tail(f.left), !.at = "handling", !.processed = TRUE,
                               !.runs = Runs(f), !.echoed = FALSE,
                               !.given = Append(f.given, Head(f.left))]
    <2>1. PICK i \in 0 .. n - 1 :
              /\ OfferedTo(f, i) /\ Head(f.left) = q[i + 1] /\ i + 1 \in 1 .. n
              /\ Tail(f.left) = SubSeq(q, (i + 1) + 1, n)
        BY <1>7, <1>9
    <2>2. PICK j \in 1 .. n, h \in Handlers : j = i + 1 /\ h = q[j]
        BY <1>2, <2>1
    <2>3. f.processed => f.runs = 1
        BY <2>1 DEF OfferedTo
    <2>4. ~f.processed => f.runs = 0 /\ f.given = <<>>
        BY <2>1 DEF OfferedTo
    <2>5. Runs(f) = 1
        BY <2>3, <2>4 DEF Runs
    <2>6. PICK given \in Seq(Handlers) : given = f.given
        BY <1>1 DEF Frame
    <2>7. /\ x \in Frame /\ x.at = "handling" /\ x.logger = f.logger /\ x.token = f.token
          /\ x.warning = f.warning /\ x.given = Append(given, h) /\ x.snap = q /\ x.runs = 1
          /\ x.processed /\ x.left = SubSeq(q, j + 1, n)
        <3>1. Tail(f.left) \in Seq(Handlers) /\ Append(given, h) \in Seq(Handlers) /\ "handling" \in Ladder
            BY <1>1, <1>9 DEF Frame, Ladder
        <3>2. x = [f EXCEPT !.left = Tail(f.left), !.at = "handling", !.processed = TRUE,
                            !.runs = 1, !.echoed = FALSE, !.given = Append(given, h)]
            BY <2>1, <2>2, <2>5, <2>6
        <3>3. PICK l \in Seq(Handlers), longer \in Seq(Handlers) :
                  l = Tail(f.left) /\ longer = Append(given, h) /\ l = SubSeq(q, j + 1, n)
            BY <2>1, <2>2, <3>1
        <3>4. x = [f EXCEPT !.left = l, !.at = "handling", !.processed = TRUE,
                            !.runs = 1, !.echoed = FALSE, !.given = longer]
            BY <3>2, <3>3
        <3>. HIDE DEF x
        <3>5. /\ x \in Frame /\ x.at = "handling" /\ x.logger = f.logger /\ x.token = f.token
              /\ x.warning = f.warning /\ x.given = longer /\ x.snap = f.snap /\ x.runs = 1
              /\ x.processed /\ x.left = l
            <4>1. "handling" \in Ladder /\ f \in Frame /\ l \in Seq(Handlers) /\ longer \in Seq(Handlers)
                BY <3>1
            <4>2. x \in Frame
                <5>1. PICK y \in Frame : y = [f EXCEPT !.left = l, !.at = "handling", !.processed = TRUE]
                    BY ONLY <4>1 DEF Frame
                <5>2. [y EXCEPT !.runs = 1, !.echoed = FALSE, !.given = longer] \in Frame
                    BY ONLY <4>1, 1 \in 0 .. 1 DEF Frame
                <5>3. x = [y EXCEPT !.runs = 1, !.echoed = FALSE, !.given = longer]
                    BY ONLY <3>4, <4>1, <5>1 DEF Frame
                <5>. QED
                    BY ONLY <5>2, <5>3
            <4>3. /\ x.at = "handling" /\ x.runs = 1 /\ x.processed /\ x.left = l /\ x.given = longer
                BY ONLY <3>4, <4>1 DEF Frame
            <4>4. /\ x.logger = f.logger /\ x.token = f.token /\ x.warning = f.warning /\ x.snap = f.snap
                BY ONLY <3>4, <4>1 DEF Frame
            <4>. QED
                BY <4>2, <4>3, <4>4
        <3>. QED
            BY <1>2, <3>3, <3>5
    <2>. HIDE DEF x
    <2>8. \E from \in 1 .. j :
              /\ Append(given, h) = SubSeq(q, from, j)
              /\ q[from] \in Accepting /\ \A k \in 1 .. from - 1 : q[k] \notin Accepting
              /\ \A k \in from .. j - 1 : q[k] \in Bubbling
        <3>1. CASE ~f.processed
            <4>1. given = <<>> /\ \A k \in 1 .. i : q[k] \notin Accepting
                BY <1>2, <2>1, <2>6, <3>1 DEF OfferedTo
            <4>2. q[j] \in Accepting
                BY <1>9, <2>1, <2>2, <3>1 DEF PassedOver
            <4>3. Append(<<>>, h) = SubSeq(q, j, j)
                BY ONLY <1>2, <2>2
            <4>4. j \in 1 .. j /\ j - 1 = i /\ j .. j - 1 = {}
                BY <2>2
            <4>. QED
                BY <4>1, <4>2, <4>3, <4>4
        <3>2. CASE f.processed
            <4>1. PICK from \in 1 .. i :
                      /\ given = SubSeq(q, from, i) /\ q[from] \in Accepting
                      /\ \A k \in 1 .. from - 1 : q[k] \notin Accepting
                      /\ \A k \in from .. i - 1 : q[k] \in Bubbling
                      /\ q[i] \in Bubbling
                BY <1>1, <1>2, <2>1, <2>6, <3>2 DEF OfferedTo
            <4>2. Append(SubSeq(q, from, i), h) = SubSeq(q, from, j)
                <5>1. from \in 1 .. n /\ i \in 1 .. n /\ from <= i /\ j \in 1 .. n /\ from <= j
                    BY <2>1, <2>2, <4>1
                <5>2. /\ SubSeq(q, from, i) \in Seq(Handlers) /\ Len(SubSeq(q, from, i)) = i - from + 1
                      /\ \A k \in 1 .. i - from + 1 : SubSeq(q, from, i)[k] = q[from + k - 1]
                    BY <1>2, <5>1
                <5>3. /\ SubSeq(q, from, j) \in Seq(Handlers) /\ Len(SubSeq(q, from, j)) = j - from + 1
                      /\ \A k \in 1 .. j - from + 1 : SubSeq(q, from, j)[k] = q[from + k - 1]
                    BY <1>2, <5>1
                <5>4. PICK r \in Seq(Handlers) : r = SubSeq(q, from, i)
                    BY <5>2
                <5>5. /\ Append(r, h) \in Seq(Handlers) /\ Len(Append(r, h)) = Len(r) + 1
                      /\ \A k \in 1 .. Len(r) : Append(r, h)[k] = r[k]
                      /\ Append(r, h)[Len(r) + 1] = h
                    OBVIOUS
                <5>6. \A k \in 1 .. j - from + 1 : Append(r, h)[k] = SubSeq(q, from, j)[k]
                    <6>1. ASSUME NEW k \in 1 .. j - from + 1, k = j - from + 1
                          PROVE  Append(r, h)[k] = SubSeq(q, from, j)[k]
                        <7>1. k = Len(r) + 1 /\ from + k - 1 = j
                            BY <2>1, <2>2, <4>1, <5>2, <5>4, <6>1
                        <7>. QED
                            BY <2>2, <5>3, <5>5, <7>1
                    <6>2. ASSUME NEW k \in 1 .. j - from + 1, k # j - from + 1
                          PROVE  Append(r, h)[k] = SubSeq(q, from, j)[k]
                        <7>1. k \in 1 .. i - from + 1 /\ k \in 1 .. Len(r)
                            BY <2>1, <2>2, <4>1, <5>2, <5>4, <6>2
                        <7>. QED
                            BY <5>2, <5>3, <5>4, <5>5, <7>1
                    <6>. QED
                        BY <6>1, <6>2
                <5>7. Len(Append(r, h)) = j - from + 1
                    BY <2>1, <2>2, <5>1, <5>2, <5>4, <5>5
                <5>. QED
                    BY <5>3, <5>4, <5>5, <5>6, <5>7, SeqEqual
            <4>3. from \in 1 .. j /\ \A k \in from .. j - 1 : k \in from .. i - 1 \/ k = i
                BY <2>1, <2>2, <4>1
            <4>. QED
                BY <4>1, <4>2, <4>3
        <3>. QED
            BY <3>1, <3>2
    <2>9. OfferedTo(x, j)
        <3>1. x.at # "offer"
            BY <2>7
        <3>. QED
            BY <1>2, <2>7, <2>8, <3>1 DEF OfferedTo
    <2>10. ~Skipped(x) /\ j \in 0 .. Len(x.snap)
        BY <1>2, <1>3, <2>7 DEF Skipped
    <2>11. FrameOK(x)
        BY <1>3, <2>7, <2>9, <2>10 DEF FrameOK
    <2>12. SetTop(t, x)
        <3>1. [[f EXCEPT !.left = Tail(@)] EXCEPT !.at = "handling", !.processed = TRUE,
                    !.runs = Runs(f), !.echoed = FALSE, !.given = Append(@, Head(f.left))] = x
            BY <1>1 DEF Frame, x
        <3>. QED
            BY <1>9, <3>1
    <2>. QED
        BY <1>5, <2>7, <2>11, <2>12
<1>. QED
    BY <1>1, <1>6, <1>8, <1>9 DEF Offer
\* Something is raised in a call that is under way.
LEMMA RaisedIs ==
    ASSUME NEW f \in Frame, FrameOK(f), f.at # "enter"
    PROVE  LET x == [f EXCEPT !.at = "raised", !.failed = TRUE]
           IN  /\ x \in Frame /\ FrameOK(x) /\ x.at = "raised" /\ x.logger = f.logger
               /\ x.token = f.token /\ x.warning = f.warning
<1>. DEFINE x == [f EXCEPT !.at = "raised", !.failed = TRUE]
<1>1. /\ x \in Frame /\ x.at = "raised" /\ x.logger = f.logger /\ x.failed
      /\ x.token = f.token /\ x.warning = f.warning /\ x.given = f.given
    BY DEF Frame, Ladder
<1>. HIDE DEF x
<1>2. FrameOK(x)
    BY <1>1 DEF FrameOK, Skipped
<1>. QED
    BY <1>1, <1>2 DEF x

LEMMA RaisesKeep ==
    ASSUME LoggerInv, NEW t \in Threads, ProcessorRaises(t) \/ HandleRaises(t) PROVE LoggerInv'
<1>1. PICK f \in Frame : f = Top(t) /\ FrameOK(f) /\ f.at # "enter" /\ frames[t] # <<>>
    BY StackHeld DEF ProcessorRaises, HandleRaises, In
<1>2. /\ SetTop(t, [f EXCEPT !.at = "raised", !.failed = TRUE])
      /\ UNCHANGED <<handlers, depth, logs, rewires>>
    BY <1>1 DEF ProcessorRaises, HandleRaises
<1>3. PICK x \in Frame :
          /\ x = [f EXCEPT !.at = "raised", !.failed = TRUE]
          /\ FrameOK(x) /\ x.at # "enter" /\ x.logger = f.logger
          /\ x.token = f.token /\ x.warning = f.warning
    BY <1>1, RaisedIs
<1>. QED
    BY <1>1, <1>2, <1>3, TopMoves

\* The handler that has the record is the last it was offered to.
LEMMA HandlingIs ==
    ASSUME NEW f \in Frame, NEW i \in 0 .. Len(f.snap), OfferedTo(f, i), f.processed
    PROVE  Handling(f) = f.snap[i] /\ f.given # <<>>
<1>1. PICK q \in Seq(Handlers) : q = f.snap
    BY DEF Frame
<1>2. PICK from \in 1 .. i : f.given = SubSeq(q, from, i)
    BY <1>1 DEF OfferedTo
<1>3. from \in 1 .. Len(q) /\ i \in 1 .. Len(q) /\ i - from + 1 \in Nat \ {0} /\ from + (i - from + 1) - 1 = i
    BY <1>1, <1>2
<1>4. PICK g \in Seq(Handlers) : g = SubSeq(q, from, i) /\ Len(g) = i - from + 1 /\ g[i - from + 1] = q[i]
    <2>1. /\ SubSeq(q, from, i) \in Seq(Handlers) /\ Len(SubSeq(q, from, i)) = i - from + 1
          /\ \A k \in 1 .. i - from + 1 : SubSeq(q, from, i)[k] = q[from + k - 1]
        BY <1>3
    <2>2. i - from + 1 \in 1 .. i - from + 1 /\ from + (i - from + 1) - 1 = i
        BY <1>3
    <2>. QED
        BY <2>1, <2>2
<1>5. g # <<>> /\ g[Len(g)] = q[i]
    BY <1>3, <1>4
<1>. QED
    BY <1>1, <1>2, <1>4, <1>5 DEF Handling, Last

LEMMA HandleReturnsKeeps ==
    ASSUME LoggerInv, NEW t \in Threads, HandleReturns(t) PROVE LoggerInv'
<1>1. PICK f \in Frame : f = Top(t) /\ FrameOK(f) /\ f.at = "handling" /\ frames[t] # <<>>
    BY StackHeld DEF HandleReturns, In
<1>2. f.processed /\ ~Skipped(f) /\ (f.logger \notin Detecting => f.token = 0)
    BY <1>1 DEF FrameOK
<1>3. PICK i \in 0 .. Len(f.snap) : OfferedTo(f, i)
    BY <1>1 DEF FrameOK
<1>4. Handling(f) = f.snap[i]
    BY <1>2, <1>3, HandlingIs
<1>. DEFINE x == [f EXCEPT !.at = IF Handling(f) \in Bubbling THEN "offer" ELSE "leave"]
<1>5. SetTop(t, x) /\ UNCHANGED <<handlers, depth, logs, rewires>>
    BY <1>1 DEF HandleReturns
<1>6. /\ x \in Frame /\ x.logger = f.logger /\ x.token = f.token /\ x.warning = f.warning
      /\ x.given = f.given /\ x.snap = f.snap /\ x.runs = f.runs /\ x.processed /\ x.left = f.left
      /\ x.at = IF f.snap[i] \in Bubbling THEN "offer" ELSE "leave"
    BY <1>2, <1>4 DEF Frame, Ladder
<1>. HIDE DEF x
<1>7. ~Skipped(x)
    BY <1>2, <1>6 DEF Skipped
<1>8. CASE f.snap[i] \in Bubbling
    <2>1. OfferedTo(x, i) /\ x.at = "offer"
        BY <1>2, <1>3, <1>6, <1>8 DEF OfferedTo
    <2>2. FrameOK(x)
        BY <1>2, <1>3, <1>6, <1>7, <2>1 DEF FrameOK
    <2>. QED
        BY <1>1, <1>5, <1>6, <2>1, <2>2, TopMoves
<1>9. CASE f.snap[i] \notin Bubbling
    <2>1. x.given = Audience(x.snap) /\ x.runs = IF x.given = <<>> THEN 0 ELSE 1
        BY <1>2, <1>3, <1>6, <1>9, AudienceIs
    <2>2. x.at = "leave"
        BY <1>6, <1>9
    <2>3. FrameOK(x)
        BY <1>2, <1>6, <1>7, <2>1, <2>2 DEF FrameOK
    <2>. QED
        BY <1>1, <1>5, <1>6, <2>2, <2>3, TopMoves
<1>. QED
    BY <1>8, <1>9

LEMMA HandleLogsKeeps ==
    ASSUME LoggerInv, NEW t \in Threads, NEW l \in Loggers, HandleLogs(t, l) PROVE LoggerInv'
<1>0. /\ StackOK(frames[t], depth[t]) /\ frames[t] # <<>>
      /\ Top(t) = Head(frames[t]) /\ FrameOK(Top(t)) /\ Top(t).at = "handling"
      /\ Top(t) \in Frame /\ frames[t] \in Seq(Frame) /\ Tail(frames[t]) \in Seq(Frame)
    BY StackHeld DEF HandleLogs, In
<1>1. PICK fs, d, f :
          /\ fs = frames[t] /\ d = depth[t] /\ StackOK(fs, d) /\ fs # <<>>
          /\ f = Head(fs) /\ f = Top(t) /\ FrameOK(f) /\ f.at = "handling"
          /\ f \in Frame /\ fs \in Seq(Frame) /\ Tail(fs) \in Seq(Frame)
    BY <1>0
<1>2. PICK x : x = [f EXCEPT !.echoed = TRUE]
    OBVIOUS
<1>3. /\ x \in Frame /\ x.at = "handling" /\ x.logger = f.logger /\ x.token = f.token
      /\ x.warning = f.warning /\ x.given = f.given /\ x.snap = f.snap /\ x.runs = f.runs
      /\ x.processed = f.processed /\ x.left = f.left
    BY <1>1, <1>2 DEF Frame
<1>4. FrameOK(x) /\ ~Skipped(x)
    <2>1. f.processed /\ ~Skipped(f) /\ (f.logger \notin Detecting => f.token = 0)
        BY <1>1 DEF FrameOK
    <2>2. PICK i \in 0 .. Len(f.snap) : OfferedTo(f, i)
        BY <1>1 DEF FrameOK
    <2>3. OfferedTo(x, i)
        BY <1>1, <1>3, <2>2 DEF OfferedTo
    <2>4. ~Skipped(x)
        BY <1>3, <2>1 DEF Skipped
    <2>. QED
        BY <1>3, <2>1, <2>2, <2>3, <2>4 DEF FrameOK
<1>. DEFINE gs == <<x>> \o Tail(fs)
<1>5. StackOK(gs, d)
    BY <1>1, <1>3, <1>4, TopGoesOn
<1>6. gs \in Seq(Frame) /\ gs # <<>> /\ Head(gs) = x
    <2>1. gs \in Seq(Frame) /\ gs # <<>> /\ gs[1] = x
        BY <1>1, <1>3, ChangedIs
    <2>. HIDE DEF gs
    <2>. QED
        BY <2>1
<1>7. PICK y : y = NewFrame(l, FALSE) /\ y \in Frame /\ FrameOK(y) /\ y.at = "enter"
    BY NewIs
<1>8. ~(Counts(x) /\ x.token = 2)
    BY <1>4 DEF Counts, Skipped, WARN_AT_DEPTH
<1>9. StackOK(<<y>> \o gs, d)
    <2>. HIDE DEF gs
    <2>. QED
        BY <1>3, <1>5, <1>6, <1>7, <1>8, CallMade
<1>10. frames' = [frames EXCEPT ![t] = <<y>> \o gs] /\ UNCHANGED <<handlers, depth, logs, rewires>>
    <2>1. PICK r \in Seq(Frame) : r = Tail(fs)
        BY <1>1
    <2>2. <<y>> \o (<<x>> \o r) = <<y, x>> \o r
        <3>1. x \in Frame /\ y \in Frame
            BY <1>3, <1>7
        <3>. QED
            BY ONLY <2>1, <3>1
    <2>3. frames' = [frames EXCEPT ![t] = <<y, x>> \o Tail(fs)] /\ UNCHANGED <<handlers, depth, logs, rewires>>
        BY <1>1, <1>2, <1>7 DEF HandleLogs
    <2>. QED
        BY <2>1, <2>2, <2>3
<1>. QED
    <2>. HIDE DEF gs
    <2>. QED
        BY <1>1, <1>9, <1>10, FramesMove

LEMMA CatchKeeps ==
    ASSUME LoggerInv, NEW t \in Threads, Catch(t) PROVE LoggerInv'
<1>1. PICK f \in Frame : f = Top(t) /\ FrameOK(f) /\ f.at = "raised" /\ frames[t] # <<>>
    BY StackHeld DEF Catch, In
<1>2. PICK x : x = [f EXCEPT !.at = "leave"]
    OBVIOUS
<1>3. /\ x \in Frame /\ x.at = "leave" /\ x.logger = f.logger /\ x.token = f.token
      /\ x.warning = f.warning /\ x.given = f.given /\ x.failed = f.failed
    BY <1>1, <1>2 DEF Frame, Ladder
<1>4. FrameOK(x)
    BY <1>1, <1>3 DEF FrameOK, Skipped
<1>5. SetTop(t, x) /\ UNCHANGED <<handlers, depth, logs, rewires>>
    BY <1>1, <1>2 DEF Catch
<1>. QED
    BY <1>1, <1>3, <1>4, <1>5, TopMoves

\* The depth is what it was before the call, however it ended.
LEMMA ResetIs ==
    ASSUME LoggerInv, NEW t \in Threads, frames[t] # <<>>, Top(t).at # "enter", Reset(t)
    PROVE  \E e : StackOK(Tail(frames[t]), e) /\ depth' = [depth EXCEPT ![t] = e]
<1>1. PICK fs, d, f :
          fs = frames[t] /\ d = depth[t] /\ StackOK(fs, d) /\ fs # <<>> /\ f = Top(t) /\ f = Head(fs)
    BY StackHeld
<1>2. StackOK(Tail(fs), IF f.logger \in Detecting THEN f.token ELSE d)
    BY <1>1, CallOver
<1>3. depth' = [depth EXCEPT ![t] = IF f.logger \in Detecting THEN f.token ELSE d]
    BY <1>1 DEF Reset
<1>. QED
    BY <1>1, <1>2, <1>3

LEMMA LeaveKeeps ==
    ASSUME LoggerInv, NEW t \in Threads, Leave(t) PROVE LoggerInv'
<1>1. PICK e : StackOK(Tail(frames[t]), e) /\ depth' = [depth EXCEPT ![t] = e]
    BY ResetIs DEF Leave, In
<1>2. PICK gs : gs = Tail(frames[t])
    OBVIOUS
<1>3. /\ frames' = [frames EXCEPT ![t] = gs]
      /\ handlers' \in [Loggers -> Seq(Handlers)] /\ logs' \in [Threads -> 0 .. MaxLogs]
      /\ rewires' \in 0 .. MaxRewires
    BY <1>2 DEF Leave, LoggerInv, TypeOK
<1>. QED
    BY <1>1, <1>2, <1>3, OneMoves

LEMMA UnwindKeeps ==
    ASSUME LoggerInv, NEW t \in Threads, Unwind(t) PROVE LoggerInv'
<1>1. PICK e : StackOK(Tail(frames[t]), e) /\ depth' = [depth EXCEPT ![t] = e]
    BY ResetIs DEF Unwind, In
<1>2. /\ handlers' \in [Loggers -> Seq(Handlers)] /\ logs' \in [Threads -> 0 .. MaxLogs]
      /\ rewires' \in 0 .. MaxRewires
    BY DEF Unwind, LoggerInv, TypeOK
<1>3. PICK fs, rest : /\ fs = frames[t] /\ rest = Tail(fs) /\ fs # <<>> /\ StackOK(fs, depth[t])
                      /\ rest \in Seq(Frame)
    BY StackHeld DEF Unwind, In
<1>4. CASE rest = <<>>
    <2>1. frames' = [frames EXCEPT ![t] = rest]
        BY <1>3, <1>4 DEF Unwind
    <2>. QED
        BY <1>1, <1>2, <1>3, <2>1, OneMoves
<1>5. CASE rest # <<>>
    <2>1. PICK g : g = Head(rest) /\ g \in Frame /\ FrameOK(g)
        BY <1>1, <1>3, <1>5, TopIs
    <2>2. g.at # "enter"
        <3>0. fs \in Seq(Frame)
            BY <1>3 DEF StackOK
        <3>1. /\ DOMAIN fs = 1 .. Len(fs) /\ Len(fs) \in Nat
              /\ Len(rest) = Len(fs) - 1 /\ Len(rest) # 0 /\ rest[1] = fs[2] /\ Head(rest) = rest[1]
            <4>1. Len(fs) \in Nat \ {0} /\ DOMAIN fs = 1 .. Len(fs)
                BY <1>3, <3>0
            <4>2. Len(rest) = Len(fs) - 1 /\ \A i \in 1 .. Len(fs) - 1 : rest[i] = fs[i + 1]
                BY <1>3, <3>0
            <4>3. Len(rest) # 0 /\ Head(rest) = rest[1]
                BY <1>3, <1>5, EmptySeq
            <4>4. 1 \in 1 .. Len(fs) - 1 /\ 1 + 1 = 2
                BY <4>1, <4>2, <4>3
            <4>. QED
                BY <4>1, <4>2, <4>3, <4>4
        <3>2. 2 \in DOMAIN fs
            <4>1. rest # <<>> /\ Len(rest) \in Nat
                BY <1>3, <1>5
            <4>. QED
                BY <3>1, <4>1
        <3>3. fs[2].at \in {"handling", "leave"}
            BY <1>3, <3>2 DEF StackOK
        <3>. QED
            BY <2>1, <3>1, <3>3
    <2>3. PICK x \in Frame :
              /\ x = [g EXCEPT !.at = "raised", !.failed = TRUE]
              /\ FrameOK(x) /\ x.at # "enter" /\ x.logger = g.logger
              /\ x.token = g.token /\ x.warning = g.warning
        BY <2>1, <2>2, RaisedIs
    <2>4. StackOK(<<x>> \o Tail(rest), e)
        BY <1>1, <1>3, <1>5, <2>1, <2>2, <2>3, TopGoesOn
    <2>5. frames' = [frames EXCEPT ![t] = <<x>> \o Tail(rest)]
        BY <1>3, <1>5, <2>1, <2>3 DEF Unwind
    <2>. QED
        BY <1>1, <1>2, <2>4, <2>5, OneMoves
<1>. QED
    BY <1>4, <1>5

LEMMA RewireKeeps ==
    ASSUME LoggerInv, NEW l \in Loggers, NEW stack \in Seq(Handlers), Rewire(l, stack) PROVE LoggerInv'
<1>1. TypeOK'
    BY LoggerAssumption DEF Rewire, LoggerInv, TypeOK
<1>. QED
    BY <1>1 DEF Rewire, LoggerInv

LEMMA LoggerInits ==
    ASSUME Init PROVE LoggerInv
<1>1. TypeOK
    <2>1. <<>> \in Seq(Frame) /\ 0 \in Nat /\ 0 \in 0 .. MaxLogs /\ 0 \in 0 .. MaxRewires
        BY LoggerAssumption
    <2>. QED
        BY <2>1, LoggerAssumption DEF Init, TypeOK
<1>2. StackOK(<<>>, 0)
    <2>1. <<>> \in Seq(Frame) /\ DOMAIN <<>> = {} /\ 0 .. 0 - 1 = {}
        BY EmptySeq
    <2>. QED
        BY <2>1 DEF StackOK, Tokened, Warned
<1>. QED
    BY <1>1, <1>2 DEF Init, LoggerInv

LEMMA LoggerSteps ==
    ASSUME LoggerInv, [Next]_vars PROVE LoggerInv'
<1>1. ASSUME NEW t \in Threads, Step(t) PROVE LoggerInv'
    BY <1>1, UncountedKeeps, CountedKeeps, OfferKeeps, RaisesKeep, HandleReturnsKeeps, CatchKeeps,
       LeaveKeeps, UnwindKeeps, HandleLogsKeeps DEF Step
<1>2. ASSUME NEW l \in Loggers, PopHandler(l) PROVE LoggerInv'
    <2>1. handlers[l] \in Seq(Handlers) /\ handlers[l] # <<>>
        BY <1>2 DEF PopHandler, LoggerInv, TypeOK
    <2>2. Tail(handlers[l]) \in Seq(Handlers)
        BY <2>1
    <2>. QED
        BY <1>2, <2>2, RewireKeeps DEF PopHandler
<1>3. ASSUME NEW l \in Loggers, NEW h \in Handlers, PushHandler(l, h) \/ SetHandlers(l, h) PROVE LoggerInv'
    <2>1. handlers[l] \in Seq(Handlers) /\ <<h>> \in Seq(Handlers)
        BY DEF LoggerInv, TypeOK
    <2>2. <<h>> \o handlers[l] \in Seq(Handlers)
        BY <2>1, ConcatProperties
    <2>. QED
        BY <1>3, <2>1, <2>2, RewireKeeps DEF PushHandler, SetHandlers
<1>4. CASE UNCHANGED vars
    BY <1>4 DEF vars, LoggerInv, TypeOK
<1>. QED
    BY <1>1, <1>2, <1>3, <1>4, LogKeeps DEF Next

-----------------------------------------------------------------------------
(* What follows from it *)

LEMMA WholeFollows == LoggerInv => WholeStack
<1>. SUFFICES ASSUME LoggerInv, NEW t \in Threads, In(t, "leave"), ~Top(t).failed,
                     Top(t).token + 1 # WARN_AT_DEPTH, Top(t).token + 1 < DROP_AT_DEPTH
              PROVE  /\ Top(t).given = Audience(Top(t).snap)
                     /\ Top(t).runs = IF Top(t).given = <<>> THEN 0 ELSE 1
    BY DEF WholeStack
<1>1. PICK f \in Frame : f = Top(t) /\ FrameOK(f) /\ f.at = "leave" /\ ~f.failed
                         /\ f.token + 1 # WARN_AT_DEPTH /\ f.token + 1 < DROP_AT_DEPTH
    BY StackHeld DEF In
<1>2. ~Skipped(f)
    BY <1>1 DEF Skipped, WARN_AT_DEPTH, DROP_AT_DEPTH, Frame
<1>. QED
    BY <1>1, <1>2 DEF FrameOK

\* The calls that count have tokens of their own.
LEMMA TokensTell ==
    ASSUME NEW fs, NEW d, StackOK(fs, d), NEW S, S \subseteq {i \in DOMAIN fs : Counts(fs[i])},
           NEW T, \A i \in S : fs[i].token \in T
    PROVE  [i \in S |-> fs[i].token] \in Injection(S, T)
<1>. DEFINE F == [i \in S |-> fs[i].token]
<1>1. F \in [S -> T]
    OBVIOUS
<1>2. ASSUME NEW i \in S, NEW j \in S, F[i] = F[j] PROVE i = j
    <2>1. fs \in Seq(Frame) /\ DOMAIN fs = 1 .. Len(fs) /\ Len(fs) \in Nat
        BY DEF StackOK
    <2>0. fs[i] \in Frame /\ fs[i].token = fs[j].token
        BY <1>2, <2>1
    <2>2. /\ i \in 1 .. Len(fs) /\ j \in 1 .. Len(fs) /\ Counts(fs[i]) /\ Counts(fs[j])
          /\ fs[i].token = fs[j].token /\ fs[i].token \in Nat
        BY <2>0, <2>1 DEF Frame
    <2>3. ~(i < j) /\ ~(j < i)
        BY <2>1, <2>2 DEF StackOK, Tokened
    <2>. QED
        BY <2>2, <2>3
<1>. QED
    BY <1>1, <1>2, Fun_IsInj

LEMMA DepthFollows == LoggerInv => DepthExact
<1>. SUFFICES ASSUME LoggerInv, NEW t \in Threads
              PROVE  depth[t] = Cardinality({i \in DOMAIN frames[t] :
                        frames[t][i].logger \in Detecting /\ frames[t][i].at # "enter"})
    BY DEF DepthExact
<1>1. PICK fs, d : fs = frames[t] /\ d = depth[t] /\ StackOK(fs, d) /\ d \in Nat
    BY StackHeld
<1>. DEFINE S == {i \in DOMAIN fs : Counts(fs[i])}
            F == [i \in S |-> fs[i].token]
<1>2. S = {i \in DOMAIN frames[t] : frames[t][i].logger \in Detecting /\ frames[t][i].at # "enter"}
    BY <1>1 DEF Counts
<1>3. \A i \in S : fs[i].token \in 0 .. d - 1
    BY <1>1 DEF StackOK, Tokened
<1>4. \A k \in 0 .. d - 1 : \E i \in S : F[i] = k
    BY <1>1 DEF StackOK, Tokened
<1>5. F \in Injection(S, 0 .. d - 1)
    BY <1>1, <1>3, TokensTell
<1>6. F \in [S -> 0 .. d - 1]
    BY <1>3
<1>. HIDE DEF S, F
<1>7. F \in Surjection(S, 0 .. d - 1)
    BY <1>4, <1>6, Fun_IsSurj
<1>8. IsFiniteSet(0 .. d - 1) /\ Cardinality(0 .. d - 1) = d
    <2>1. PICK e \in Int : e = d - 1
        BY <1>1
    <2>2. IsFiniteSet(0 .. e) /\ Cardinality(0 .. e) = IF 0 > e THEN 0 ELSE e - 0 + 1
        BY FS_Interval
    <2>3. (IF 0 > e THEN 0 ELSE e - 0 + 1) = d
        BY <1>1, <2>1
    <2>. QED
        BY <2>1, <2>2, <2>3
<1>9. Cardinality(S) = d
    <2>. DEFINE T == 0 .. d - 1
    <2>1. F \in Injection(S, T) /\ F \in Surjection(S, T) /\ IsFiniteSet(T) /\ Cardinality(T) = d
        BY <1>5, <1>7, <1>8
    <2>. HIDE DEF T
    <2>. QED
        BY <2>1, FS_Injection
<1>. QED
    BY <1>1, <1>2, <1>9

LEMMA CutFollows == LoggerInv => LoopsAreCut
<1>. SUFFICES ASSUME LoggerInv, NEW t \in Threads
              PROVE  LET fs   == frames[t]
                         busy == {i \in DOMAIN fs : fs[i].logger \in Detecting /\ fs[i].given # <<>>}
                     IN  Cardinality(busy) <= 3 /\ (Cardinality(busy) = 3 => fs[Min(busy)].warning)
    BY DEF LoopsAreCut
<1>1. PICK fs, d : fs = frames[t] /\ d = depth[t] /\ StackOK(fs, d) /\ fs \in Seq(Frame)
    BY StackHeld
<1>. DEFINE busy == {i \in DOMAIN fs : fs[i].logger \in Detecting /\ fs[i].given # <<>>}
<1>2. DOMAIN fs = 1 .. Len(fs) /\ Len(fs) \in Nat
    BY <1>1
<1>3. ASSUME NEW i \in busy PROVE Counts(fs[i]) /\ fs[i].token \in {0, 1, 3}
    <2>1. fs[i].at # "enter" /\ ~Skipped(fs[i]) /\ fs[i] \in Frame
        BY <1>1, <1>2, <1>3 DEF StackOK, FrameOK
    <2>2. fs[i].token \in Nat /\ fs[i].token + 1 # 3 /\ ~(fs[i].token + 1 >= 5)
        BY <1>3, <2>1 DEF Skipped, WARN_AT_DEPTH, DROP_AT_DEPTH, Frame
    <2>. QED
        BY <1>3, <2>1, <2>2 DEF Counts
<1>4. busy \subseteq {i \in DOMAIN fs : Counts(fs[i])} /\ busy \subseteq Nat
    BY <1>2, <1>3
<1>. HIDE DEF busy
<1>5. IsFiniteSet({0, 1}) /\ Cardinality({0, 1}) = 2 /\ IsFiniteSet({0, 1, 3}) /\ Cardinality({0, 1, 3}) = 3
    <2>1. IsFiniteSet({0}) /\ Cardinality({0}) = 1
        BY FS_Singleton
    <2>2. IsFiniteSet({0} \cup {1}) /\ Cardinality({0} \cup {1}) = 2 /\ {0} \cup {1} = {0, 1}
        BY <2>1, FS_AddElement
    <2>3. IsFiniteSet({0, 1} \cup {3}) /\ Cardinality({0, 1} \cup {3}) = 3 /\ {0, 1} \cup {3} = {0, 1, 3}
        BY <2>2, FS_AddElement
    <2>. QED
        BY <2>2, <2>3
<1>6. Cardinality(busy) <= 3 /\ IsFiniteSet(busy)
    <2>1. [i \in busy |-> fs[i].token] \in Injection(busy, {0, 1, 3})
        BY <1>1, <1>3, <1>4, TokensTell
    <2>. QED
        BY <1>5, <2>1, FS_Injection
<1>7. ASSUME Cardinality(busy) = 3 PROVE fs[Min(busy)].warning
    <2>1. \E i \in busy : fs[i].token = 3
        <3>. SUFFICES ASSUME \A i \in busy : fs[i].token # 3 PROVE FALSE
            OBVIOUS
        <3>1. \A i \in busy : fs[i].token \in {0, 1}
            BY <1>3
        <3>2. [i \in busy |-> fs[i].token] \in Injection(busy, {0, 1})
            BY <1>1, <1>4, <3>1, TokensTell
        <3>3. Cardinality(busy) <= 2
            BY <1>5, <3>2, FS_Injection
        <3>. QED
            BY <1>7, <3>3
    <2>2. PICK i \in busy : fs[i].token = 3
        BY <2>1
    <2>3. \A j \in busy : j >= i
        <3>. SUFFICES ASSUME NEW j \in busy, j < i PROVE FALSE
            BY <1>4
        <3>1. fs[j].token > 3
            BY <1>1, <1>3, <1>4, <2>2 DEF StackOK, Tokened
        <3>2. fs[j].token \in {0, 1, 3}
            BY <1>3
        <3>. QED
            BY <3>1, <3>2
    <2>4. Min(busy) = i
        BY <1>4, <2>3, ThisIsLeast
    <2>. QED
        BY <1>1, <1>3, <1>4, <2>2, <2>4 DEF StackOK, Warned
<1>. QED
    BY <1>1, <1>6, <1>7 DEF busy

-----------------------------------------------------------------------------
(* How an application starts *)

\* Stages of a start once the services have been resolved, and once all that may
\* look one up has been built.
Resolved == {"building", "attaching", "attached", "started", "closed"}
Complete == {"attaching", "attached", "started", "closed"}

\* The check has been passed where anything is made, and failed where it refused.
Checked ==
    /\ stage \notin {"loading", "loaded", "refused"} => ServiceIds("written") \subseteq app.holds
    /\ stage = "refused" => ~(ServiceIds("written") \subseteq app.holds)

\* The services are those that the filled copy names.
ServicesMade == stage \in Resolved => services = ServiceIds("filled")

\* What has been looked up is what has been built asks for.
LookedUp ==
    /\ built \subseteq Places
    /\ stage \in {"loading", "loaded", "accepted", "building"} => looked = UNION {LookUps(i) : i \in built}
    /\ stage \in Complete => built = Places /\ looked = Asked

\* A service is missing in a start that was not refused only where a placeholder
\* was filled with the name of another.
Missed == trouble = "service" => stage = "refused" \/ (stage = "failed" /\ DOMAIN app.fills # {})

\* The standard library's logging is taken over while the application runs.
TakenOver ==
    /\ capturing \in BOOLEAN
    /\ capturing => stage = "started"
    /\ stage = "started" => capturing = app.capture.on

IInv ==
    /\ app \in Applications
    /\ stage \in {"loading", "loaded", "refused", "accepted", "failed"} \cup Resolved
    /\ Checked /\ ServicesMade /\ LookedUp /\ Missed /\ TakenOver

\* A processor that names a service names it in the bundle as in the builder.
LEMMA ProcessorsAgree == ProcessorLookUps = {"processor"} \X ProcessorIds("filled")
<1>1. ProcessorIds("filled") = {Filled(p.service) : p \in {p \in Range(app.processors) : p.service # Anonymous}}
    BY DEF ProcessorIds, Read, Range
<1>. QED
    BY <1>1 DEF ProcessorLookUps

\* So does a handler: each kind is looked for in the family the bundle has it in.
LEMMA HandlersAgree ==
    ASSUME BundleAssumption, app \in Applications
    PROVE  UNION {LookUps(i) : i \in Places} =
               ({"handler"} \X HandlerIds("filled")) \cup ({"formatter"} \X FormatterIds("filled"))
               \cup ({"activation_strategy"} \X StrategyIds("filled"))
               \cup ({"error_handler"} \X ErrorHandlerIds("filled"))
<1>. DEFINE h(i) == app.handlers[i]
            Union == ({"handler"} \X HandlerIds("filled")) \cup ({"formatter"} \X FormatterIds("filled"))
                     \cup ({"activation_strategy"} \X StrategyIds("filled"))
                     \cup ({"error_handler"} \X ErrorHandlerIds("filled"))
<1>1. \A i \in Places : h(i).names # Anonymous => h(i).kind \in Naming
    BY DEF BundleAssumption, Places
<1>2. \A kinds : NamedBy(kinds, "filled") =
          {Filled(h(i).names) : i \in {i \in Places : h(i).kind \in kinds /\ h(i).names # Anonymous}}
    BY DEF NamedBy, Read
<1>3. ASSUME NEW i \in Places, NEW x \in LookUps(i)
      PROVE  x \in Union
  <2>1. h(i).names # Anonymous /\ h(i).kind \in Naming
      BY <1>1, <1>3 DEF LookUps
  <2>2. CASE h(i).kind = "service"
      BY <2>1, <2>2, <1>2, <1>3 DEF LookUps, LookedForIn, HandlerIds
  <2>3. CASE h(i).kind \in {"stream", "console"}
      BY <2>1, <2>3, <1>2, <1>3 DEF LookUps, LookedForIn, FormatterIds
  <2>4. CASE h(i).kind = "fingerscrossed"
      BY <2>1, <2>4, <1>2, <1>3 DEF LookUps, LookedForIn, StrategyIds
  <2>5. CASE h(i).kind = "queue"
      BY <2>1, <2>5, <1>2, <1>3 DEF LookUps, LookedForIn, ErrorHandlerIds
  <2>. QED
      BY <2>1, <2>2, <2>3, <2>4, <2>5 DEF Naming
<1>4. ASSUME NEW x \in Union
      PROVE  \E i \in Places : x \in LookUps(i)
  <2>1. CASE x \in {"handler"} \X HandlerIds("filled")
      BY <2>1, <1>2 DEF LookUps, LookedForIn, HandlerIds
  <2>2. CASE x \in {"formatter"} \X FormatterIds("filled")
      BY <2>2, <1>2 DEF LookUps, LookedForIn, FormatterIds
  <2>3. CASE x \in {"activation_strategy"} \X StrategyIds("filled")
      BY <2>3, <1>2 DEF LookUps, LookedForIn, StrategyIds
  <2>4. CASE x \in {"error_handler"} \X ErrorHandlerIds("filled")
      BY <2>4, <1>2 DEF LookUps, LookedForIn, ErrorHandlerIds
  <2>. QED
      BY <1>4, <2>1, <2>2, <2>3, <2>4
<1>. QED
    BY <1>3, <1>4

\* The two walks over a configuration find the same services.
LEMMA WalksAgree ==
    ASSUME BundleAssumption, app \in Applications
    PROVE  Asked = ServiceIds("filled")
<1>. DEFINE H == {"handler"} \X HandlerIds("filled")
            F == {"formatter"} \X FormatterIds("filled")
            P == {"processor"} \X ProcessorIds("filled")
            S == {"activation_strategy"} \X StrategyIds("filled")
            E == {"error_handler"} \X ErrorHandlerIds("filled")
            U == UNION {LookUps(i) : i \in Places}
<1>1. Asked = U \cup P
    BY ProcessorsAgree DEF Asked
<1>2. U = H \cup F \cup S \cup E
    BY HandlersAgree
<1>3. ServiceIds("filled") = H \cup F \cup P \cup S \cup E
    BY DEF ServiceIds
<1>. HIDE DEF H, F, P, S, E, U
<1>. QED
    BY <1>1, <1>2, <1>3

\* Without placeholders the copy is what was written.
LEMMA NothingToFill ==
    ASSUME DOMAIN app.fills = {}
    PROVE  ServiceIds("filled") = ServiceIds("written")
<1>1. \A x : Read("filled", x) = Read("written", x)
    BY DEF Read, Filled
<1>. QED
    BY <1>1 DEF ServiceIds, HandlerIds, FormatterIds, StrategyIds, ErrorHandlerIds, ProcessorIds, NamedBy

\* The start begins with nothing checked and nothing made.
LEMMA IInvInit == BundleInit => IInv
  BY DEF BundleInit, IInv, Checked, ServicesMade, LookedUp, Missed, TakenOver, Resolved, Complete, Places

\* Every step keeps the invariant.
LEMMA IInvStep ==
    ASSUME BundleAssumption, IInv, [BundleNext]_bundleVars
    PROVE  IInv'
<1>. USE DEF IInv, Checked, ServicesMade, LookedUp, Missed, TakenOver, Resolved, Complete
<1>0. ASSUME app' = app
      PROVE  /\ ServiceIds("written")' = ServiceIds("written")
             /\ ServiceIds("filled")' = ServiceIds("filled")
             /\ Places' = Places /\ Asked' = Asked
             /\ \A i : LookUps(i)' = LookUps(i)
    BY <1>0 DEF ServiceIds, HandlerIds, FormatterIds, StrategyIds, ErrorHandlerIds, ProcessorIds, NamedBy,
                Read, Filled, Places, Asked, LookUps, ProcessorLookUps
<1>1. CASE LoadExtension
    BY <1>0, <1>1 DEF LoadExtension
<1>2. CASE Process
    BY <1>0, <1>2 DEF Process, Stop
<1>3. CASE ResolveServices
  <2>1. CASE ServiceIds("filled") \subseteq app.holds
      BY <1>0, <1>3, <2>1 DEF ResolveServices
  <2>2. CASE ~(ServiceIds("filled") \subseteq app.holds)
      BY <1>0, <1>3, <2>2, NothingToFill DEF ResolveServices, Stop
  <2>. QED
      BY <2>1, <2>2
<1>4. ASSUME NEW i \in Places, BuildHandler(i) PROVE IInv'
  <2>1. LookUps(i) \subseteq services
      BY <1>4, WalksAgree DEF Asked, BuildHandler
  <2>2. (UNION {LookUps(j) : j \in built \cup {i}}) = (UNION {LookUps(j) : j \in built}) \cup LookUps(i)
      OBVIOUS
  <2>. QED
      BY <1>0, <1>4, <2>1, <2>2 DEF BuildHandler
<1>5. CASE BuildProcessors
  <2>1. ProcessorLookUps \subseteq services
      BY <1>5, WalksAgree DEF Asked, BuildProcessors
  <2>. QED
      BY <1>0, <1>5, <2>1 DEF BuildProcessors, Asked
<1>6. CASE AttachProcessors
    BY <1>0, <1>6 DEF AttachProcessors, Stop, Wrong
<1>7. CASE TakeOver
    BY <1>0, <1>7 DEF TakeOver, Stop, BundleAssumption
<1>8. ASSUME NEW c \in registered, AskLogger(c) PROVE IInv'
    BY <1>0, <1>8 DEF AskLogger
<1>9. CASE Shutdown
    BY <1>0, <1>9 DEF Shutdown
<1>10. CASE UNCHANGED bundleVars
    BY <1>0, <1>10 DEF bundleVars
<1>. QED
    BY <1>1, <1>2, <1>3, <1>4, <1>5, <1>6, <1>7, <1>8, <1>9, <1>10 DEF BundleNext

\* The invariant holds in every state of every start.
LEMMA Invariant == ASSUME BundleAssumption PROVE BundleSpec => []IInv
  BY IInvInit, IInvStep, PTL DEF BundleSpec

\* Two walks over the configuration agree, for every configuration: one without
\* placeholders that was accepted never misses a service, one that was refused
\* would have, and what is made of a service is what something looks up.
THEOREM WhatIsNamedIsUsed == ASSUME BundleAssumption PROVE BundleSpec => []NamedIsUsed
<1>1. IInv => NamedIsUsed
  <2>. SUFFICES ASSUME IInv PROVE NamedIsUsed
      OBVIOUS
  <2>1. Asked = ServiceIds("filled")
      BY WalksAgree DEF IInv
  <2>2. CASE DOMAIN app.fills = {}
    <3>1. Asked = ServiceIds("written")
        BY <2>1, <2>2, NothingToFill
    <3>. QED
        BY <2>1, <2>2, <3>1 DEF IInv, NamedIsUsed, Checked, ServicesMade, LookedUp, Missed, Resolved, Complete
  <2>3. CASE DOMAIN app.fills # {}
      BY <2>1, <2>3 DEF IInv, NamedIsUsed, ServicesMade, LookedUp, Resolved, Complete
  <2>. QED
      BY <2>2, <2>3
<1>. QED
    BY <1>1, Invariant, PTL

\* A start that fails leaves the standard library's logging as it was, and one
\* that does not has taken it over last: whatever the configuration, and
\* wherever it fails.
THEOREM NothingIsLeftToUndo == ASSUME BundleAssumption PROVE BundleSpec => []NothingToUndo
<1>1. IInv => NothingToUndo
    BY DEF IInv, NothingToUndo, TakenOver, LookedUp, Complete
<1>. QED
    BY <1>1, Invariant, PTL

-----------------------------------------------------------------------------
(* What a task binds: the invariant *)

Mapping == [Names -> Nat]
Block == [token : Nat, names : SUBSET Names, was : Mapping]

ContextTyped ==
    /\ steps \in Nat
    /\ mappings \in Seq(Mapping) /\ Len(mappings) >= 1 /\ mappings[1] = Cx!Empty
    /\ ambient \in [Tasks -> Nat]
    /\ \A t \in Tasks : ambient[t] <= Len(mappings)
    /\ blocks \in [Tasks -> Seq(Block)]
    /\ inherited \in [Tasks -> Mapping]
    /\ own \in [Tasks -> SUBSET Nat]

\* What is bound for t is its own, or was inherited.
BoundOK(t) ==
    ambient[t] # 0 => \A n \in Names :
        \/ mappings[ambient[t]][n] \in {0, inherited[t][n]}
        \/ mappings[ambient[t]][n] \in own[t]

\* A block of t has the mapping before it, of which that holds as well.
BlocksOK(t) ==
    \A i \in 1 .. Len(blocks[t]) :
        /\ blocks[t][i].token \in 1 .. Len(mappings)
        /\ mappings[blocks[t][i].token] = blocks[t][i].was
        /\ \A n \in Names : blocks[t][i].was[n] \in {0, inherited[t][n]} \/ blocks[t][i].was[n] \in own[t]

TaskOK(t) ==
    /\ BoundOK(t) /\ BlocksOK(t)
    /\ ambient[t] = 0 => blocks[t] = <<>>

ContextInv == ContextTyped /\ \A t \in Tasks : TaskOK(t)

LEMMA ContextBegins == Cx!Init => ContextInv
<1>. SUFFICES ASSUME Cx!Init PROVE ContextInv
    OBVIOUS
<1>1. Cx!Empty \in Mapping
    BY DEF Mapping, Cx!Empty
<1>2. ContextTyped
    BY <1>1, SMT DEF Cx!Init, ContextTyped
<1>3. \A t \in Tasks : blocks[t] = <<>> /\ (ambient[t] # 0 => ambient[t] = 1) /\ inherited[t] = Cx!Empty
    BY SMT DEF Cx!Init
<1>4. \A n \in Names : mappings[1][n] = 0
    BY SMT DEF Cx!Init, Cx!Empty
<1>5. ASSUME NEW t \in Tasks PROVE TaskOK(t)
    <2>1. BoundOK(t)
        BY <1>3, <1>4, SMT DEF BoundOK
    <2>2. BlocksOK(t)
        BY <1>3, SMT DEF BlocksOK
    <2>. QED
        BY <1>3, <2>1, <2>2 DEF TaskOK
<1>. QED
    BY <1>2, <1>5 DEF ContextInv

\* A task that refers to a mapping of its own from now on.
LEMMA AnewIs ==
    ASSUME ContextTyped, NEW t \in Tasks, NEW m \in Mapping, Cx!Anew(t, m)
    PROVE  /\ mappings' \in Seq(Mapping) /\ Len(mappings') = Len(mappings) + 1
           /\ \A i \in 1 .. Len(mappings) : mappings'[i] = mappings[i]
           /\ mappings'[Len(mappings')] = m
           /\ ambient' \in [Tasks -> Nat] /\ ambient'[t] = Len(mappings')
           /\ \A u \in Tasks : u # t => ambient'[u] = ambient[u]
<1>1. mappings' = Append(mappings, m) /\ ambient' = [ambient EXCEPT ![t] = Len(mappings')]
    BY DEF Cx!Anew
<1>2. mappings \in Seq(Mapping) /\ ambient \in [Tasks -> Nat]
    BY DEF ContextTyped
<1>3. mappings' \in Seq(Mapping) /\ Len(mappings') = Len(mappings) + 1 /\ Len(mappings) \in Nat
    BY ONLY <1>1, <1>2, m \in Mapping, SMT
<1>4. (\A i \in 1 .. Len(mappings) : mappings'[i] = mappings[i]) /\ mappings'[Len(mappings')] = m
    BY ONLY <1>1, <1>2, <1>3, m \in Mapping, SMT
<1>. QED
    BY ONLY <1>1, <1>2, <1>3, <1>4, t \in Tasks, SMT

\* The other tasks are as they were: what they refer to is not changed.
LEMMA OthersHeld ==
    ASSUME ContextInv, NEW t \in Tasks,
           Len(mappings') \in Nat, Len(mappings') >= Len(mappings),
           \A j \in 1 .. Len(mappings) : mappings'[j] = mappings[j],
           ambient'[t] = ambient[t], blocks'[t] = blocks[t],
           inherited'[t] = inherited[t], own'[t] = own[t]
    PROVE  TaskOK(t)'
<1>1. ambient[t] \in Nat /\ ambient[t] <= Len(mappings) /\ Len(mappings) \in Nat
    BY DEF ContextInv, ContextTyped
<1>2. BoundOK(t) /\ BlocksOK(t) /\ (ambient[t] = 0 => blocks[t] = <<>>)
    BY DEF ContextInv, TaskOK
<1>3. BoundOK(t)'
    <2>1. ambient[t] # 0 => mappings'[ambient[t]] = mappings[ambient[t]]
        BY <1>1
    <2>. QED
        BY <1>2, <2>1, SMT DEF BoundOK
<1>4. BlocksOK(t)'
    BY <1>1, <1>2, SMT DEF BlocksOK
<1>. QED
    BY <1>2, <1>3, <1>4 DEF TaskOK

\* The blocks that the task is in stay right while it binds and unbinds.
LEMMA BlocksHeld ==
    ASSUME ContextInv, NEW t \in Tasks,
           Len(mappings') \in Nat, Len(mappings') >= Len(mappings),
           \A j \in 1 .. Len(mappings) : mappings'[j] = mappings[j],
           inherited'[t] = inherited[t], own[t] \subseteq own'[t]
    PROVE  \A i \in 1 .. Len(blocks[t]) :
               /\ blocks[t][i].token \in 1 .. Len(mappings')
               /\ mappings'[blocks[t][i].token] = blocks[t][i].was
               /\ \A n \in Names : \/ blocks[t][i].was[n] \in {0, inherited'[t][n]}
                                   \/ blocks[t][i].was[n] \in own'[t]
<1>1. BlocksOK(t) /\ Len(mappings) \in Nat
    BY DEF ContextInv, ContextTyped, TaskOK
<1>. SUFFICES ASSUME NEW i \in 1 .. Len(blocks[t])
              PROVE  /\ blocks[t][i].token \in 1 .. Len(mappings')
                     /\ mappings'[blocks[t][i].token] = blocks[t][i].was
                     /\ \A n \in Names : \/ blocks[t][i].was[n] \in {0, inherited'[t][n]}
                                         \/ blocks[t][i].was[n] \in own'[t]
    OBVIOUS
<1>2. /\ blocks[t][i].token \in 1 .. Len(mappings)
      /\ mappings[blocks[t][i].token] = blocks[t][i].was
      /\ \A n \in Names : blocks[t][i].was[n] \in {0, inherited[t][n]} \/ blocks[t][i].was[n] \in own[t]
    BY <1>1 DEF BlocksOK
<1>3. PICK k \in 1 .. Len(mappings) : k = blocks[t][i].token
    BY <1>2
<1>4. k \in 1 .. Len(mappings') /\ mappings'[k] = mappings[k]
    BY <1>1
<1>. QED
    BY <1>2, <1>3, <1>4

\* What a task refers to has what it may.
LEMMA HereIs ==
    ASSUME ContextInv, NEW t \in Tasks, Cx!Alive(t)
    PROVE  /\ Cx!Here(t) \in Mapping
           /\ ambient[t] \in 1 .. Len(mappings)
           /\ \A n \in Names : Cx!Here(t)[n] \in {0, inherited[t][n]} \/ Cx!Here(t)[n] \in own[t]
<1>1. ambient[t] \in 1 .. Len(mappings)
    BY DEF ContextInv, ContextTyped, Cx!Alive
<1>2. mappings[ambient[t]] \in Mapping
    BY <1>1 DEF ContextInv, ContextTyped
<1>3. BoundOK(t)
    BY DEF ContextInv, TaskOK
<1>. QED
    BY <1>1, <1>2, <1>3 DEF BoundOK, Cx!Here, Cx!Alive

\* A step by one task, of which the rest of the invariant is known.
LEMMA OneTaskSteps ==
    ASSUME ContextInv, NEW t \in Tasks, steps' \in Nat,
           mappings' \in Seq(Mapping), Len(mappings') >= Len(mappings),
           \A j \in 1 .. Len(mappings) : mappings'[j] = mappings[j],
           ambient' \in [Tasks -> Nat], blocks' \in [Tasks -> Seq(Block)],
           inherited' \in [Tasks -> Mapping], own' \in [Tasks -> SUBSET Nat],
           \A u \in Tasks : u # t => /\ ambient'[u] = ambient[u] /\ blocks'[u] = blocks[u]
                                     /\ inherited'[u] = inherited[u] /\ own'[u] = own[u],
           ambient'[t] <= Len(mappings'), TaskOK(t)'
    PROVE  ContextInv'
<1>1. Len(mappings') \in Nat /\ Len(mappings) \in Nat /\ Len(mappings) >= 1 /\ mappings[1] = Cx!Empty
    BY DEF ContextInv, ContextTyped
<1>2. \A u \in Tasks : ambient[u] \in Nat /\ ambient[u] <= Len(mappings)
    BY DEF ContextInv, ContextTyped
<1>3. mappings'[1] = Cx!Empty'
    BY <1>1 DEF Cx!Empty
<1>4. ContextTyped'
    <2>1. ASSUME NEW u \in Tasks PROVE ambient'[u] <= Len(mappings')
        <3>1. CASE u = t
            BY <3>1
        <3>2. CASE u # t
            <4>1. PICK d \in Nat, e \in Nat : d = Len(mappings) /\ e = Len(mappings')
                BY <1>1
            <4>2. ambient'[u] = ambient[u] /\ ambient[u] <= d /\ d <= e /\ ambient[u] \in Nat
                BY <1>2, <3>2, <4>1
            <4>3. ambient[u] <= e
                BY <4>2
            <4>. QED
                BY <4>1, <4>2, <4>3
        <3>. QED
            BY <3>1, <3>2
    <2>2. Len(mappings') >= 1
        BY <1>1
    <2>. QED
        BY <1>3, <2>1, <2>2 DEF ContextTyped
<1>5. ASSUME NEW u \in Tasks, u # t PROVE TaskOK(u)'
    BY <1>1, <1>5, OthersHeld
<1>. QED
    BY <1>4, <1>5 DEF ContextInv

LEMMA StepIs == ASSUME ContextInv, Cx!Step PROVE steps' \in Nat
BY DEF ContextInv, ContextTyped, Cx!Step

\* What a task refers to once it has bound names.
LEMMA WithIs ==
    ASSUME ContextInv, NEW t \in Tasks, NEW names \in SUBSET Names, Cx!Alive(t), Cx!Step
    PROVE  /\ Cx!With(t, names) \in Mapping
           /\ \A n \in Names : \/ Cx!With(t, names)[n] \in {0, inherited[t][n]}
                               \/ Cx!With(t, names)[n] \in own[t] \cup {steps'}
<1>1. Cx!Here(t) \in [Names -> Nat] /\ steps' \in Nat
    BY HereIs, StepIs DEF Mapping
<1>2. Cx!With(t, names) = [n \in Names |-> IF n \in names THEN steps' ELSE Cx!Here(t)[n]]
    BY DEF Cx!With
<1>. QED
    BY <1>1, <1>2, HereIs DEF Mapping

LEMMA BindKeeps ==
    ASSUME ContextInv, NEW t \in Tasks, NEW names \in SUBSET Names, Cx!Bind(t, names)
    PROVE  ContextInv'
<1>1. Cx!Step /\ Cx!Alive(t) /\ Cx!Anew(t, Cx!With(t, names))
    BY DEF Cx!Bind
<1>2. own' = [own EXCEPT ![t] = @ \cup {steps'}] /\ blocks' = blocks /\ inherited' = inherited
    BY DEF Cx!Bind
<1>3. PICK m \in Mapping : m = Cx!With(t, names) /\ Cx!Anew(t, m)
    BY <1>1, WithIs
<1>4. \A n \in Names : m[n] \in {0, inherited[t][n]} \/ m[n] \in own[t] \cup {steps'}
    BY <1>1, <1>3, WithIs
<1>5. ContextTyped
    BY DEF ContextInv
<1>6. steps' \in Nat /\ Len(mappings) \in Nat
    BY <1>1, <1>5, StepIs DEF ContextTyped
<1>7. own' \in [Tasks -> SUBSET Nat] /\ own'[t] = own[t] \cup {steps'}
      /\ \A u \in Tasks : u # t => own'[u] = own[u]
    BY <1>2, <1>5, <1>6 DEF ContextTyped
<1>8. TaskOK(t)'
    <2>1. BoundOK(t)'
        BY <1>2, <1>3, <1>4, <1>5, <1>7, AnewIs DEF BoundOK
    <2>2. BlocksOK(t)'
        BY <1>2, <1>3, <1>5, <1>6, <1>7, AnewIs, BlocksHeld DEF BlocksOK
    <2>3. ambient'[t] # 0
        BY <1>3, <1>5, <1>6, AnewIs
    <2>. QED
        BY <2>1, <2>2, <2>3 DEF TaskOK
<1>. QED
    <2>1. blocks' \in [Tasks -> Seq(Block)] /\ inherited' \in [Tasks -> Mapping]
        BY <1>2, <1>5 DEF ContextTyped
    <2>2. /\ mappings' \in Seq(Mapping) /\ Len(mappings') >= Len(mappings)
          /\ \A j \in 1 .. Len(mappings) : mappings'[j] = mappings[j]
          /\ ambient' \in [Tasks -> Nat] /\ ambient'[t] <= Len(mappings')
          /\ \A u \in Tasks : u # t => ambient'[u] = ambient[u]
        BY <1>3, <1>5, <1>6, AnewIs
    <2>. QED
        BY <1>2, <1>6, <1>7, <1>8, <2>1, <2>2, OneTaskSteps

\* A step after which a task refers to a mapping with less.
LEMMA LessKeeps ==
    ASSUME ContextInv, NEW t \in Tasks, NEW m \in Mapping, Cx!Anew(t, m), Cx!Step, Cx!Alive(t),
           blocks' = blocks, inherited' = inherited, own' = own,
           \A n \in Names : m[n] \in {0, mappings[ambient[t]][n]}
    PROVE  ContextInv'
<1>1. ContextTyped
    BY DEF ContextInv
<1>2. steps' \in Nat /\ Len(mappings) \in Nat
    BY <1>1, StepIs DEF ContextTyped
<1>3. \A n \in Names : m[n] \in {0, inherited[t][n]} \/ m[n] \in own[t]
    BY HereIs DEF Cx!Here
<1>4. TaskOK(t)'
    <2>1. BoundOK(t)'
        BY <1>1, <1>3, AnewIs DEF BoundOK
    <2>2. BlocksOK(t)'
        BY <1>1, <1>2, AnewIs, BlocksHeld DEF BlocksOK
    <2>3. ambient'[t] # 0
        BY <1>1, <1>2, AnewIs
    <2>. QED
        BY <2>1, <2>2, <2>3 DEF TaskOK
<1>5. blocks' \in [Tasks -> Seq(Block)] /\ inherited' \in [Tasks -> Mapping] /\ own' \in [Tasks -> SUBSET Nat]
    BY <1>1 DEF ContextTyped
<1>6. /\ mappings' \in Seq(Mapping) /\ Len(mappings') >= Len(mappings)
      /\ \A j \in 1 .. Len(mappings) : mappings'[j] = mappings[j]
      /\ ambient' \in [Tasks -> Nat] /\ ambient'[t] <= Len(mappings')
      /\ \A u \in Tasks : u # t => ambient'[u] = ambient[u]
    BY <1>1, <1>2, AnewIs
<1>. QED
    BY <1>2, <1>4, <1>5, <1>6, OneTaskSteps

\* A step that leaves all but the steps as it was.
LEMMA NothingBound ==
    ASSUME ContextInv, steps' \in Nat, mappings' = mappings, ambient' = ambient, blocks' = blocks,
           inherited' = inherited, own' = own
    PROVE  ContextInv'
BY DEF ContextInv, ContextTyped, TaskOK, BoundOK, BlocksOK, Cx!Empty

LEMMA UnbindKeeps ==
    ASSUME ContextInv, NEW t \in Tasks, NEW names \in SUBSET Names, Cx!Unbind(t, names)
    PROVE  ContextInv'
<1>. DEFINE some == \E n \in names : Cx!Here(t)[n] # 0
<1>1. Cx!Step /\ Cx!Alive(t) /\ blocks' = blocks /\ inherited' = inherited /\ own' = own
    BY DEF Cx!Unbind
<1>2. CASE ~some
    <2>1. mappings' = mappings /\ ambient' = ambient
        BY <1>2 DEF Cx!Unbind
    <2>. QED
        BY <1>1, <2>1, StepIs, NothingBound
<1>3. CASE some
    <2>. DEFINE less == [n \in Names |-> IF n \in names THEN 0 ELSE Cx!Here(t)[n]]
    <2>1. Cx!Anew(t, less)
        BY <1>3 DEF Cx!Unbind
    <2>2. Cx!Here(t) \in [Names -> Nat]
        BY <1>1, HereIs DEF Mapping
    <2>3. less \in Mapping /\ \A n \in Names : less[n] \in {0, mappings[ambient[t]][n]}
        BY <2>2 DEF Mapping, Cx!Here
    <2>. HIDE DEF less
    <2>4. PICK m \in Mapping : Cx!Anew(t, m) /\ \A n \in Names : m[n] \in {0, mappings[ambient[t]][n]}
        BY <2>1, <2>3
    <2>. QED
        BY <1>1, <2>4, LessKeeps
<1>. QED
    BY <1>2, <1>3

LEMMA ClearKeeps == ASSUME ContextInv, NEW t \in Tasks, Cx!Clear(t) PROVE ContextInv'
<1>1. Cx!Step /\ Cx!Alive(t) /\ Cx!Anew(t, Cx!Empty) /\ blocks' = blocks /\ inherited' = inherited
      /\ own' = own
    BY DEF Cx!Clear
<1>2. PICK m \in Mapping : Cx!Anew(t, m) /\ \A n \in Names : m[n] = 0
    BY <1>1 DEF Mapping, Cx!Empty
<1>. QED
    BY <1>1, <1>2, LessKeeps

LEMMA EnterKeeps ==
    ASSUME ContextInv, NEW t \in Tasks, NEW names \in SUBSET Names, Cx!Enter(t, names)
    PROVE  ContextInv'
<1>1. Cx!Step /\ Cx!Alive(t) /\ Cx!Anew(t, Cx!With(t, names))
    BY DEF Cx!Enter
<1>2. PICK b0 : b0 = [token |-> ambient[t], names |-> names, was |-> Cx!Here(t)]
    OBVIOUS
<1>3. /\ own' = [own EXCEPT ![t] = @ \cup {steps'}] /\ inherited' = inherited
      /\ blocks' = [blocks EXCEPT ![t] = Append(@, b0)]
    BY <1>2 DEF Cx!Enter
<1>4. PICK m \in Mapping : m = Cx!With(t, names) /\ Cx!Anew(t, m)
    BY <1>1, WithIs
<1>5. \A n \in Names : m[n] \in {0, inherited[t][n]} \/ m[n] \in own[t] \cup {steps'}
    BY <1>1, <1>4, WithIs
<1>6. ContextTyped
    BY DEF ContextInv
<1>7. steps' \in Nat /\ Len(mappings) \in Nat
    BY <1>1, <1>6, StepIs DEF ContextTyped
<1>8. own' \in [Tasks -> SUBSET Nat] /\ own'[t] = own[t] \cup {steps'}
      /\ \A u \in Tasks : u # t => own'[u] = own[u]
    BY <1>3, <1>6, <1>7 DEF ContextTyped
<1>9. /\ b0 \in Block /\ b0.token \in 1 .. Len(mappings) /\ mappings[b0.token] = b0.was
      /\ \A n \in Names : b0.was[n] \in {0, inherited[t][n]} \/ b0.was[n] \in own[t]
    BY <1>1, <1>2, HereIs DEF Block, Cx!Here
<1>10. /\ mappings' \in Seq(Mapping) /\ Len(mappings') = Len(mappings) + 1
       /\ \A j \in 1 .. Len(mappings) : mappings'[j] = mappings[j]
       /\ mappings'[Len(mappings')] = m
       /\ ambient' \in [Tasks -> Nat] /\ ambient'[t] = Len(mappings')
       /\ \A u \in Tasks : u # t => ambient'[u] = ambient[u]
    BY <1>4, <1>6, AnewIs
<1>11. blocks \in [Tasks -> Seq(Block)]
    BY <1>6 DEF ContextTyped
<1>12. /\ blocks' \in [Tasks -> Seq(Block)] /\ blocks'[t] = Append(blocks[t], b0)
       /\ \A u \in Tasks : u # t => blocks'[u] = blocks[u]
    BY ONLY <1>3, <1>9, <1>11, t \in Tasks, SMT
<1>13. BlocksOK(t)'
    <2>1. PICK s \in Seq(Block) : s = blocks[t]
        BY <1>11
    <2>2. \A i \in 1 .. Len(s) : /\ s[i].token \in 1 .. Len(mappings')
                                 /\ mappings'[s[i].token] = s[i].was
                                 /\ \A n \in Names : \/ s[i].was[n] \in {0, inherited'[t][n]}
                                                     \/ s[i].was[n] \in own'[t]
        BY <1>3, <1>7, <1>8, <1>10, <2>1, BlocksHeld
    <2>3. /\ b0.token \in 1 .. Len(mappings') /\ mappings'[b0.token] = b0.was
          /\ \A n \in Names : b0.was[n] \in {0, inherited'[t][n]} \/ b0.was[n] \in own'[t]
        BY <1>3, <1>7, <1>8, <1>9, <1>10
    <2>4. blocks'[t] = Append(s, b0) /\ Len(blocks'[t]) = Len(s) + 1 /\ Len(s) \in Nat
        BY <1>9, <1>12, <2>1
    <2>5. \A i \in 1 .. Len(s) + 1 : blocks'[t][i] = IF i = Len(s) + 1 THEN b0 ELSE s[i]
        BY <2>4
    <2>. QED
        BY <2>2, <2>3, <2>4, <2>5 DEF BlocksOK
<1>14. BoundOK(t)'
    BY <1>3, <1>5, <1>8, <1>10 DEF BoundOK
<1>15. TaskOK(t)'
    BY <1>7, <1>10, <1>13, <1>14 DEF TaskOK
<1>. QED
    <2>1. inherited' \in [Tasks -> Mapping] /\ \A u \in Tasks : inherited'[u] = inherited[u]
        BY <1>3, <1>6 DEF ContextTyped
    <2>2. Len(mappings') >= Len(mappings) /\ ambient'[t] <= Len(mappings')
        BY <1>7, <1>10
    <2>. QED
        BY <1>7, <1>8, <1>10, <1>12, <1>15, <2>1, <2>2, OneTaskSteps

\* A part of a sequence.
LEMMA SliceIs ==
    ASSUME NEW S, NEW s \in Seq(S), NEW n \in 0 .. Len(s), NEW m \in 1 .. n + 1
    PROVE  /\ SubSeq(s, m, n) \in Seq(S) /\ Len(SubSeq(s, m, n)) = n - m + 1
           /\ \A j \in 1 .. n - m + 1 : SubSeq(s, m, n)[j] = s[m + j - 1]
<1>1. Len(s) \in Nat /\ m \in Int /\ n \in Int /\ \A j \in 1 .. Len(s) : s[j] \in S
    OBVIOUS
<1>2. \A j \in m .. n : s[j] \in S
    BY <1>1
<1>3. /\ SubSeq(s, m, n) \in Seq(S) /\ Len(SubSeq(s, m, n)) = IF m <= n THEN n - m + 1 ELSE 0
      /\ \A j \in 1 .. n - m + 1 : SubSeq(s, m, n)[j] = s[m + j - 1]
    BY <1>1, <1>2, SubSeqProperties
<1>4. (IF m <= n THEN n - m + 1 ELSE 0) = n - m + 1
    BY <1>1
<1>. QED
    BY <1>3, <1>4, Zenon

\* Two sequences in one.
LEMMA JoinIs ==
    ASSUME NEW S, NEW x \in Seq(S), NEW y \in Seq(S)
    PROVE  /\ x \o y \in Seq(S) /\ Len(x \o y) = Len(x) + Len(y)
           /\ \A j \in 1 .. Len(x) + Len(y) :
                  (x \o y)[j] = IF j <= Len(x) THEN x[j] ELSE y[j - Len(x)]
BY ConcatProperties

\* What is left without one of the blocks.
LEMMA WithoutIs ==
    ASSUME NEW S, NEW s \in Seq(S), NEW i \in 1 .. Len(s)
    PROVE  /\ RemoveAt(s, i) \in Seq(S) /\ Len(RemoveAt(s, i)) = Len(s) - 1
           /\ \A j \in 1 .. Len(s) - 1 : RemoveAt(s, i)[j] = IF j < i THEN s[j] ELSE s[j + 1]
<1>1. PICK n \in Nat : n = Len(s)
    OBVIOUS
<1>2. PICK k \in Nat, l \in Nat : k = i - 1 /\ l = i + 1
    OBVIOUS
<1>3. /\ k \in 0 .. Len(s) /\ 1 \in 1 .. k + 1 /\ n \in 0 .. Len(s) /\ l \in 1 .. n + 1
      /\ k - 1 + 1 = k /\ n - l + 1 = n - i
    BY <1>1, <1>2
<1>4. PICK x : x = SubSeq(s, 1, k)
    OBVIOUS
<1>5. PICK y : y = SubSeq(s, l, n)
    OBVIOUS
<1>6. x \in Seq(S) /\ Len(x) = k /\ \A j \in 1 .. k : x[j] = s[1 + j - 1]
    BY <1>3, <1>4, SliceIs
<1>7. y \in Seq(S) /\ Len(y) = n - i /\ \A j \in 1 .. n - i : y[j] = s[l + j - 1]
    BY <1>3, <1>5, SliceIs
<1>8. PICK z : z = x \o y
    OBVIOUS
<1>9. /\ z \in Seq(S) /\ Len(z) = Len(x) + Len(y)
      /\ \A j \in 1 .. Len(x) + Len(y) : z[j] = IF j <= Len(x) THEN x[j] ELSE y[j - Len(x)]
    BY <1>6, <1>7, <1>8, JoinIs, Zenon
<1>10. Len(x) + Len(y) = n - 1
    BY <1>1, <1>2, <1>6, <1>7
<1>11. ASSUME NEW j \in 1 .. n - 1 PROVE z[j] = IF j < i THEN s[j] ELSE s[j + 1]
    <2>1. z[j] = IF j <= k THEN x[j] ELSE y[j - k]
        BY <1>6, <1>9, <1>10
    <2>2. CASE j < i
        <3>1. j \in 1 .. k /\ j <= k /\ 1 + j - 1 = j
            BY <1>2, <2>2
        <3>. QED
            BY <1>6, <2>1, <2>2, <3>1
    <2>3. CASE ~(j < i)
        <3>1. j - k \in 1 .. n - i /\ l + (j - k) - 1 = j + 1 /\ ~(j <= k)
            BY <1>1, <1>2, <2>3
        <3>. QED
            BY <1>7, <2>1, <2>3, <3>1
    <2>. QED
        BY <2>2, <2>3
<1>12. RemoveAt(s, i) = z
    BY <1>1, <1>2, <1>4, <1>5, <1>8 DEF RemoveAt
<1>. QED
    BY <1>1, <1>9, <1>10, <1>11, <1>12

LEMMA BlockLeaves ==
    ASSUME ContextInv, NEW t \in Tasks, NEW i \in 1 .. MaxSteps, Cx!Leave(t, i)
    PROVE  ContextInv'
<1>1. ContextTyped
    BY DEF ContextInv
<1>2. PICK s \in Seq(Block) : s = blocks[t]
    BY <1>1 DEF ContextTyped
<1>3. Cx!Step /\ i \in 1 .. Len(s) /\ mappings' = mappings /\ ambient' = [ambient EXCEPT ![t] = s[i].token]
      /\ blocks' = [blocks EXCEPT ![t] = RemoveAt(s, i)] /\ inherited' = inherited /\ own' = own
    BY <1>2 DEF Cx!Leave, Cx!Restore, RemoveAt
<1>4. PICK r \in Seq(Block) : /\ r = RemoveAt(s, i) /\ Len(r) = Len(s) - 1
                              /\ \A j \in 1 .. Len(s) - 1 : r[j] = IF j < i THEN s[j] ELSE s[j + 1]
    BY <1>3, WithoutIs
<1>5. blocks \in [Tasks -> Seq(Block)] /\ ambient \in [Tasks -> Nat] /\ Len(mappings) \in Nat
    BY <1>1 DEF ContextTyped
<1>6. \A j \in 1 .. Len(s) : /\ s[j].token \in 1 .. Len(mappings)
                             /\ mappings[s[j].token] = s[j].was
                             /\ \A n \in Names : \/ s[j].was[n] \in {0, inherited[t][n]}
                                                 \/ s[j].was[n] \in own[t]
    BY <1>2 DEF ContextInv, TaskOK, BlocksOK
<1>7. PICK k \in 1 .. Len(mappings) : k = s[i].token
    BY <1>3, <1>6
<1>8. /\ blocks' \in [Tasks -> Seq(Block)] /\ blocks'[t] = r
      /\ \A u \in Tasks : u # t => blocks'[u] = blocks[u]
    BY <1>3, <1>4, <1>5
<1>9. ambient' \in [Tasks -> Nat] /\ ambient'[t] = k /\ \A u \in Tasks : u # t => ambient'[u] = ambient[u]
    BY <1>3, <1>5, <1>7
<1>10. \A n \in Names : mappings[k][n] \in {0, inherited[t][n]} \/ mappings[k][n] \in own[t]
    BY <1>3, <1>6, <1>7
<1>11. BoundOK(t)'
    BY <1>3, <1>9, <1>10 DEF BoundOK
<1>12. BlocksOK(t)'
    <2>1. Len(s) \in Nat
        OBVIOUS
    <2>2. ASSUME NEW j \in 1 .. Len(r) PROVE \E e \in 1 .. Len(s) : r[j] = s[e]
        <3>1. j \in 1 .. Len(s) - 1 /\ j \in 1 .. Len(s) /\ j + 1 \in 1 .. Len(s)
            BY <1>4, <2>1
        <3>2. r[j] = s[j] \/ r[j] = s[j + 1]
            BY <1>4, <3>1
        <3>. QED
            BY <3>1, <3>2
    <2>3. \A j \in 1 .. Len(r) : /\ r[j].token \in 1 .. Len(mappings)
                                 /\ mappings[r[j].token] = r[j].was
                                 /\ \A n \in Names : \/ r[j].was[n] \in {0, inherited[t][n]}
                                                     \/ r[j].was[n] \in own[t]
        BY ONLY <1>6, <2>2
    <2>. QED
        BY <1>3, <1>8, <2>3 DEF BlocksOK
<1>13. TaskOK(t)'
    BY <1>9, <1>11, <1>12 DEF TaskOK
<1>14. steps' \in Nat /\ ambient'[t] <= Len(mappings')
    BY <1>3, <1>5, <1>9, StepIs
<1>15. mappings' \in Seq(Mapping) /\ Len(mappings') >= Len(mappings)
       /\ inherited' \in [Tasks -> Mapping] /\ own' \in [Tasks -> SUBSET Nat]
       /\ \A u \in Tasks : inherited'[u] = inherited[u] /\ own'[u] = own[u]
       /\ \A j \in 1 .. Len(mappings) : mappings'[j] = mappings[j]
    BY <1>1, <1>3, <1>5 DEF ContextTyped
<1>. QED
    BY <1>8, <1>9, <1>13, <1>14, <1>15, OneTaskSteps

LEMMA CreateKeeps ==
    ASSUME ContextInv, NEW t \in Tasks, NEW u \in Tasks, Cx!Create(t, u)
    PROVE  ContextInv'
<1>1. ContextTyped
    BY DEF ContextInv
<1>2. PICK m \in Mapping : m = Cx!Here(t)
    BY HereIs DEF Cx!Create
<1>3. PICK k \in 1 .. Len(mappings) : k = ambient[t] /\ mappings[k] = m
    BY <1>2, HereIs DEF Cx!Create, Cx!Here
<1>4. /\ Cx!Step /\ ambient[u] = 0 /\ ambient' = [ambient EXCEPT ![u] = k]
      /\ inherited' = [inherited EXCEPT ![u] = m]
      /\ mappings' = mappings /\ blocks' = blocks /\ own' = own
    BY <1>2, <1>3 DEF Cx!Create, Cx!Alive
<1>5. blocks \in [Tasks -> Seq(Block)] /\ ambient \in [Tasks -> Nat] /\ Len(mappings) \in Nat
      /\ inherited \in [Tasks -> Mapping] /\ mappings \in Seq(Mapping) /\ own \in [Tasks -> SUBSET Nat]
    BY <1>1 DEF ContextTyped
<1>6. blocks[u] = <<>>
    BY <1>4 DEF ContextInv, TaskOK
<1>7. ambient' \in [Tasks -> Nat] /\ ambient'[u] = k /\ \A v \in Tasks : v # u => ambient'[v] = ambient[v]
    BY <1>4, <1>5
<1>8. inherited' \in [Tasks -> Mapping] /\ inherited'[u] = m
      /\ \A v \in Tasks : v # u => inherited'[v] = inherited[v]
    BY <1>4, <1>5
<1>9. BoundOK(u)'
    BY <1>3, <1>4, <1>7, <1>8 DEF BoundOK
<1>10. BlocksOK(u)'
    BY <1>4, <1>6 DEF BlocksOK
<1>11. TaskOK(u)'
    BY <1>7, <1>9, <1>10 DEF TaskOK
<1>12. steps' \in Nat /\ ambient'[u] <= Len(mappings')
    BY <1>4, <1>5, <1>7, StepIs
<1>. QED
    <2>1. mappings' \in Seq(Mapping) /\ Len(mappings') >= Len(mappings)
          /\ blocks' \in [Tasks -> Seq(Block)] /\ own' \in [Tasks -> SUBSET Nat]
          /\ \A j \in 1 .. Len(mappings) : mappings'[j] = mappings[j]
        BY <1>4, <1>5
    <2>. QED
        BY <1>4, <1>7, <1>8, <1>11, <1>12, <2>1, OneTaskSteps

LEMMA StartKeeps == ASSUME ContextInv, NEW u \in Tasks, Cx!Start(u) PROVE ContextInv'
<1>1. ContextTyped
    BY DEF ContextInv
<1>2. /\ Cx!Step /\ ambient[u] = 0 /\ ambient' = [ambient EXCEPT ![u] = 1]
      /\ mappings' = mappings /\ blocks' = blocks /\ own' = own /\ inherited' = inherited
    BY DEF Cx!Start, Cx!Alive
<1>3. blocks \in [Tasks -> Seq(Block)] /\ ambient \in [Tasks -> Nat] /\ Len(mappings) \in Nat
      /\ inherited \in [Tasks -> Mapping] /\ mappings \in Seq(Mapping) /\ own \in [Tasks -> SUBSET Nat]
      /\ Len(mappings) >= 1
    BY <1>1 DEF ContextTyped
<1>4. blocks[u] = <<>> /\ \A n \in Names : mappings[1][n] = 0
    BY <1>1, <1>2 DEF ContextInv, TaskOK, ContextTyped, Cx!Empty
<1>5. ambient' \in [Tasks -> Nat] /\ ambient'[u] = 1 /\ \A v \in Tasks : v # u => ambient'[v] = ambient[v]
    BY <1>2, <1>3
<1>6. BoundOK(u)'
    BY <1>2, <1>4, <1>5 DEF BoundOK
<1>7. BlocksOK(u)'
    BY <1>2, <1>4 DEF BlocksOK
<1>8. TaskOK(u)'
    BY <1>5, <1>6, <1>7 DEF TaskOK
<1>9. steps' \in Nat /\ ambient'[u] <= Len(mappings')
    BY <1>2, <1>3, <1>5, StepIs
<1>. QED
    <2>0. inherited' \in [Tasks -> Mapping]
        BY <1>2, <1>3
    <2>1. mappings' \in Seq(Mapping) /\ Len(mappings') >= Len(mappings)
          /\ blocks' \in [Tasks -> Seq(Block)] /\ own' \in [Tasks -> SUBSET Nat]
          /\ \A j \in 1 .. Len(mappings) : mappings'[j] = mappings[j]
        BY <1>2, <1>3
    <2>. QED
        BY <1>2, <1>5, <1>8, <1>9, <2>0, <2>1, OneTaskSteps

\* A sequence that is the same without its last member and without another.
LEMMA SameWithout ==
    ASSUME NEW S, NEW s \in Seq(S), NEW i \in 1 .. Len(s), RemoveAt(s, i) = Front(s)
    PROVE  s[i] = s[Len(s)]
<1>1. PICK n \in Nat : n = Len(s)
    OBVIOUS
<1>2. n \in 1 .. Len(s) /\ i \in 1 .. n /\ n >= 1
    BY <1>1
<1>3. PICK r : r = RemoveAt(s, i)
    OBVIOUS
<1>4. \A j \in 1 .. n - 1 : r[j] = IF j < i THEN s[j] ELSE s[j + 1]
    BY <1>1, <1>3, WithoutIs
<1>5. \A j \in 1 .. n - 1 : r[j] = s[j]
    <2>1. n - 1 \in 0 .. Len(s) /\ 1 \in 1 .. (n - 1) + 1 /\ (n - 1) - 1 + 1 = n - 1
        BY <1>1, <1>2
    <2>2. PICK k \in Nat : k = n - 1
        BY <1>2
    <2>3. \A j \in 1 .. k : SubSeq(s, 1, k)[j] = s[1 + j - 1]
        BY <2>1, <2>2, SliceIs
    <2>4. r = SubSeq(s, 1, k)
        BY <1>1, <1>3, <2>2 DEF Front
    <2>5. \A j \in 1 .. k : 1 + j - 1 = j
        BY <2>2
    <2>. QED
        BY <2>2, <2>3, <2>4, <2>5
<1>6. \A j \in i .. n - 1 : s[j + 1] = s[j]
    <2>1. ASSUME NEW j \in i .. n - 1 PROVE s[j + 1] = s[j]
        <3>1. j \in 1 .. n - 1 /\ ~(j < i)
            BY <1>2
        <3>. QED
            BY <1>4, <1>5, <3>1
    <2>. QED
        BY <2>1
<1>. DEFINE I == {d \in Nat : i + d <= n => s[i + d] = s[i]}
<1>7. 0 \in I
    OBVIOUS
<1>8. ASSUME NEW d \in Nat, d \in I PROVE d + 1 \in I
    <2>. SUFFICES ASSUME i + (d + 1) <= n PROVE s[i + (d + 1)] = s[i]
        OBVIOUS
    <2>1. i + d \in i .. n - 1 /\ i + d <= n /\ i + (d + 1) = (i + d) + 1
        BY <1>2
    <2>2. s[i + d] = s[i]
        BY <1>8, <2>1
    <2>. QED
        BY <1>6, <2>1, <2>2
<1>. HIDE DEF I
<1>9. Nat \subseteq I
    BY <1>7, <1>8, NatSetInduction
<1>10. n - i \in Nat /\ i + (n - i) = n
    BY <1>2
<1>. QED
    BY <1>1, <1>2, <1>9, <1>10 DEF I

\* What was bound before a block is bound again once it is left.
LEMMA LeavesPutBack ==
    ASSUME ContextInv, [Cx!Next]_ctxVars, NEW t \in Tasks
    PROVE  Cx!PutsBack(t)
<1>. SUFFICES ASSUME Len(blocks[t]) > 0, blocks'[t] = SubSeq(blocks[t], 1, Len(blocks[t]) - 1)
              PROVE  mappings'[ambient'[t]] = blocks[t][Len(blocks[t])].was
    BY DEF Cx!PutsBack
<1>1. blocks \in [Tasks -> Seq(Block)] /\ ambient \in [Tasks -> Nat]
    BY DEF ContextInv, ContextTyped
<1>2. PICK s \in Seq(Block) : s = blocks[t]
    BY <1>1
<1>3. blocks'[t] = Front(s) /\ blocks'[t] # s /\ Len(blocks'[t]) < Len(s)
    BY <1>2 DEF Front
<1>4. \E i \in 1 .. MaxSteps : Cx!Leave(t, i)
    <2>1. ~(ctxVars' = ctxVars)
        BY <1>2, <1>3 DEF ctxVars
    <2>2. Cx!Next
        BY <2>1
    <2>3. PICK u \in Tasks :
              \/ \E names \in SUBSET Names \ {{}} : Cx!Bind(u, names) \/ Cx!Unbind(u, names) \/ Cx!Enter(u, names)
              \/ Cx!Clear(u) \/ \E i \in 1 .. MaxSteps : Cx!Leave(u, i)
              \/ Cx!Start(u) \/ \E v \in Tasks : Cx!Create(u, v)
        BY <2>2 DEF Cx!Next
    <2>4. ASSUME NEW names \in SUBSET Names PROVE ~Cx!Bind(u, names) /\ ~Cx!Unbind(u, names)
        BY <1>2, <1>3 DEF Cx!Bind, Cx!Unbind
    <2>5. ASSUME NEW names \in SUBSET Names, Cx!Enter(u, names) PROVE FALSE
        <3>1. PICK b0 : blocks' = [blocks EXCEPT ![u] = Append(@, b0)]
            BY <2>5 DEF Cx!Enter
        <3>2. blocks'[t] = s \/ blocks'[t] = Append(s, b0)
            BY <1>1, <1>2, <3>1
        <3>3. Len(Append(s, b0)) = Len(s) + 1
            OBVIOUS
        <3>. QED
            BY <1>3, <3>2, <3>3
    <2>6. ~Cx!Clear(u) /\ ~Cx!Start(u) /\ \A v \in Tasks : ~Cx!Create(u, v)
        BY <1>2, <1>3 DEF Cx!Clear, Cx!Start, Cx!Create
    <2>7. ASSUME NEW i \in 1 .. MaxSteps, Cx!Leave(u, i), u # t PROVE FALSE
        BY <1>1, <1>2, <1>3, <2>7 DEF Cx!Leave
    <2>. QED
        BY <2>3, <2>4, <2>5, <2>6, <2>7
<1>5. PICK i \in 1 .. MaxSteps : Cx!Leave(t, i)
    BY <1>4
<1>6. i \in 1 .. Len(s) /\ mappings' = mappings /\ ambient' = [ambient EXCEPT ![t] = s[i].token]
      /\ blocks' = [blocks EXCEPT ![t] = RemoveAt(s, i)]
    BY <1>2, <1>5 DEF Cx!Leave, Cx!Restore, RemoveAt
<1>7. blocks'[t] = RemoveAt(s, i) /\ ambient'[t] = s[i].token
    BY <1>1, <1>6
<1>8. s[i] = s[Len(s)]
    BY <1>3, <1>6, <1>7, SameWithout
<1>9. mappings[s[i].token] = s[i].was
    BY <1>2, <1>6 DEF ContextInv, TaskOK, BlocksOK
<1>. QED
    BY <1>2, <1>6, <1>7, <1>8, <1>9

\* What the records of a task have is its own, or was inherited.
LEMMA RecordsAreOwn == ContextInv => Cx!Isolated
<1>. SUFFICES ASSUME ContextInv, NEW t \in Tasks, Cx!Alive(t), NEW n \in DOMAIN Cx!Seen(t)
              PROVE  Cx!Seen(t)[n] \in {inherited[t][n]} \cup own[t]
    BY DEF Cx!Isolated
<1>1. n \in Names /\ Cx!Here(t)[n] # 0 /\ Cx!Seen(t)[n] = Cx!Here(t)[n]
    BY DEF Cx!Seen
<1>. QED
    BY <1>1, HereIs

LEMMA ContextSteps == ASSUME ContextInv, [Cx!Next]_ctxVars PROVE ContextInv'
<1>1. CASE ctxVars' = ctxVars
    <2>1. /\ steps' \in Nat /\ mappings' = mappings /\ ambient' = ambient /\ blocks' = blocks
          /\ inherited' = inherited /\ own' = own
        BY <1>1 DEF ctxVars, ContextInv, ContextTyped
    <2>. QED
        BY <2>1, NothingBound
<1>2. CASE Cx!Next
    <2>1. PICK t \in Tasks :
              \/ \E names \in SUBSET Names \ {{}} : Cx!Bind(t, names) \/ Cx!Unbind(t, names) \/ Cx!Enter(t, names)
              \/ Cx!Clear(t) \/ \E i \in 1 .. MaxSteps : Cx!Leave(t, i)
              \/ Cx!Start(t) \/ \E u \in Tasks : Cx!Create(t, u)
        BY <1>2 DEF Cx!Next
    <2>. QED
        BY <2>1, BindKeeps, UnbindKeeps, EnterKeeps, ClearKeeps, BlockLeaves, StartKeeps, CreateKeeps
<1>. QED
    BY <1>1, <1>2

-----------------------------------------------------------------------------
(* The sockets of a syslog handler: the invariant *)

SocketStates == {"none", "shut", "live", "stale"}
Stations == {"idle", "open", "take", "keep", "check", "send", "again", "resend", "shutting", "unset"}
Sending == {"send", "again", "resend"}
Writes == [sent : BOOLEAN, raised : BOOLEAN, calm : BOOLEAN, old : BOOLEAN]

SyslogTyped ==
    /\ service \in Services /\ service.closes \in Nat
    /\ service.kind \in {"udp", "tcp", "unix"}
    /\ up \in BOOLEAN
    /\ sockets \in Seq(SocketStates)
    /\ transport \in Nat /\ transport <= Len(sockets)
    /\ place \in [Senders -> Stations]
    /\ using \in [Senders -> Nat]
    /\ calm \in [Senders -> BOOLEAN]
    /\ shutdowns \in Nat

\* What the sockets may be, by the kind of address; none is closed if nobody closes.
SocketsOK ==
    \A i \in 1 .. Len(sockets) :
        /\ service.kind = "udp" => sockets[i] \in {"none", "live"}
        /\ service.kind = "tcp" => sockets[i] # "shut"
        /\ service.closes = 0 => sockets[i] # "none"

\* A write that nobody disturbs has the socket it looked for.
UndisturbedOK(t) ==
    Sy!Undisturbed =>
        /\ place[t] = "take" => transport # 0
        /\ place[t] = "check" => using[t] # 0
        /\ place[t] \in Sending => sockets[using[t]] # "none"
        /\ place[t] = "resend" /\ calm[t] => sockets[using[t]] = "live"

\* A thread that is alone has no connection but its own.
AloneOK(t) ==
    service.loggers \cup service.closers = {t} =>
        /\ place[t] \in {"open", "keep"} => transport = 0
        /\ place[t] \in {"check"} \cup Sending => using[t] = transport
        /\ place[t] = "unset" => transport # 0 /\ sockets[transport] = "none"
        /\ \A i \in 1 .. Len(sockets) : sockets[i] \in {"live", "stale"} =>
               i = IF place[t] = "keep" THEN using[t] ELSE transport

SenderOK(t) ==
    /\ using[t] <= Len(sockets)
    /\ calm[t] => up
    /\ place[t] \in {"again", "resend"} => service.kind = "unix"
    /\ place[t] \in {"idle", "open", "take", "shutting", "unset"} => using[t] = 0
    /\ place[t] \in {"keep"} \cup Sending => using[t] # 0
    /\ service.closes = 0 => place[t] \notin {"shutting", "unset"}
    /\ place[t] # "idle" => t \in service.loggers \cup service.closers
    /\ UndisturbedOK(t) /\ AloneOK(t)

WritesOK ==
    \A w \in sent :
        /\ w \in Writes /\ w.raised = ~w.sent
        /\ Sy!Undisturbed /\ w.raised /\ w.calm => service.kind = "tcp" /\ w.old

SyslogInv == SyslogTyped /\ SocketsOK /\ WritesOK /\ \A t \in Senders : SenderOK(t)

LEMMA ServiceIs ==
    ASSUME NEW s \in Services PROVE s.kind \in {"udp", "tcp", "unix"} /\ s.closes \in Nat
BY HandlersAssumption DEF Sy!SyslogAssumption

LEMMA SyslogBegins ==
    ASSUME NEW s \in Services, NEW listens \in BOOLEAN, Sy!Begins(s, listens) PROVE SyslogInv
<1>1. /\ service = s /\ up = listens /\ transport = 0 /\ sockets = <<>> /\ shutdowns = 0 /\ sent = {}
      /\ place = [t \in Senders |-> "idle"] /\ using = [t \in Senders |-> 0]
      /\ calm = [t \in Senders |-> FALSE]
    BY DEF Sy!Begins, Sy!None
<1>2. SyslogTyped
    BY <1>1, ServiceIs DEF SyslogTyped, Stations
<1>3. SocketsOK /\ WritesOK
    BY <1>1 DEF SocketsOK, WritesOK
<1>4. ASSUME NEW t \in Senders PROVE SenderOK(t)
    <2>1. place[t] = "idle" /\ using[t] = 0 /\ calm[t] = FALSE /\ Len(sockets) = 0
        BY <1>1
    <2>2. UndisturbedOK(t) /\ AloneOK(t)
        BY <2>1 DEF UndisturbedOK, AloneOK, Sending
    <2>. QED
        BY <2>1, <2>2 DEF SenderOK, Sending
<1>. QED
    BY <1>2, <1>3, <1>4 DEF SyslogInv

\* A thread that looks on while another does something.
LEMMA SenderHeld ==
    ASSUME SyslogInv, SocketsOK', NEW t \in Senders, NEW u \in Senders, u # t,
           t \in service.loggers \cup service.closers,
           service' = service, up' = up, place'[u] = place[u], using'[u] = using[u], calm'[u] = calm[u],
           Len(sockets') \in Nat, Len(sockets') >= Len(sockets),
           service.closes = 0 /\ transport # 0 => transport' # 0,
           service.closes = 0 /\ up => \A i \in 1 .. Len(sockets) : sockets[i] = "live" => sockets'[i] = "live"
    PROVE  SenderOK(u)'
<1>1. SyslogTyped /\ SenderOK(u)
    BY DEF SyslogInv
<1>2. place[u] # "idle" => service.loggers \cup service.closers # {u} /\ ~Sy!Alone
    BY <1>1 DEF SenderOK, Sy!Alone
<1>3. service.loggers \cup service.closers # {u}
    OBVIOUS
<1>4. AloneOK(u)'
    BY <1>3 DEF AloneOK
<1>5. UndisturbedOK(u)'
    <2>1. CASE place[u] = "idle"
        BY <2>1 DEF UndisturbedOK, Sending
    <2>2. CASE place[u] # "idle" /\ service.closes # 0
        BY <1>2, <2>2 DEF UndisturbedOK, Sy!Undisturbed, Sy!Alone
    <2>3. CASE service.closes = 0
        <3>1. PICK k \in Nat : k = using[u]
            BY <1>1 DEF SyslogTyped
        <3>2. k <= Len(sockets) /\ Len(sockets) \in Nat /\ (place[u] \in Sending => k # 0)
            BY <1>1, <3>1 DEF SenderOK, SyslogTyped
        <3>3. place[u] \in Sending => k \in 1 .. Len(sockets) /\ k \in 1 .. Len(sockets')
            BY <3>2
        <3>4. place[u] \in Sending => sockets'[k] # "none"
            BY <2>3, <3>3 DEF SocketsOK
        <3>5. place[u] = "resend" => place[u] \in Sending
            BY DEF Sending
        <3>6. Sy!Undisturbed
            BY <2>3 DEF Sy!Undisturbed
        <3>7. /\ place[u] = "take" => transport # 0
              /\ place[u] = "check" => k # 0
              /\ place[u] = "resend" /\ calm[u] => sockets[k] = "live" /\ up
            BY <1>1, <3>1, <3>6 DEF SenderOK, UndisturbedOK
        <3>8. place[u] = "resend" /\ calm[u] => sockets'[k] = "live"
            BY <2>3, <3>3, <3>5, <3>7
        <3>. QED
            BY <2>3, <3>1, <3>4, <3>7, <3>8 DEF UndisturbedOK
    <2>. QED
        BY <2>1, <2>2, <2>3
<1>6. using'[u] <= Len(sockets')
    <2>1. using[u] \in Nat /\ using[u] <= Len(sockets) /\ Len(sockets) \in Nat
        BY <1>1 DEF SyslogTyped, SenderOK
    <2>. QED
        BY <2>1
<1>. QED
    BY <1>1, <1>4, <1>5, <1>6 DEF SenderOK, Sending

\* A step of one thread.
LEMMA OneSenderSteps ==
    ASSUME SyslogInv, SyslogTyped', SocketsOK', WritesOK', NEW t \in Senders, SenderOK(t)',
           t \in service.loggers \cup service.closers,
           service' = service, up' = up, Len(sockets') >= Len(sockets),
           \A u \in Senders : u # t => /\ place'[u] = place[u] /\ using'[u] = using[u]
                                       /\ calm'[u] = calm[u],
           service.closes = 0 /\ transport # 0 => transport' # 0,
           service.closes = 0 /\ up => \A i \in 1 .. Len(sockets) : sockets[i] = "live" => sockets'[i] = "live"
    PROVE  SyslogInv'
<1>1. Len(sockets') \in Nat
    BY DEF SyslogTyped
<1>2. ASSUME NEW u \in Senders, u # t PROVE SenderOK(u)'
    BY <1>1, <1>2, SenderHeld
<1>. QED
    BY <1>2 DEF SyslogInv

\* A step that goes elsewhere.
LEMMA GoIs ==
    ASSUME SyslogTyped, NEW t \in Senders, NEW there \in Stations, Sy!Go(t, there)
    PROVE  /\ place' \in [Senders -> Stations] /\ place'[t] = there
           /\ \A u \in Senders : u # t => place'[u] = place[u]
BY DEF Sy!Go, SyslogTyped

\* A write is over.
LEMMA EndedIs ==
    ASSUME SyslogInv, NEW t \in Senders, NEW took \in BOOLEAN, NEW raised \in BOOLEAN,
           Sy!Ended(t, took, raised), service' = service, raised = ~took,
           Sy!Undisturbed /\ raised /\ calm[t] =>
               service.kind = "tcp" /\ using[t] # 0 /\ sockets[using[t]] = "stale"
    PROVE  /\ WritesOK'
           /\ place' \in [Senders -> Stations] /\ place'[t] = "idle"
           /\ \A u \in Senders : u # t => place'[u] = place[u]
           /\ using' \in [Senders -> Nat] /\ using'[t] = 0
           /\ \A u \in Senders : u # t => using'[u] = using[u]
<1>1. SyslogTyped
    BY DEF SyslogInv
<1>2. Sy!Go(t, "idle") /\ using' = [using EXCEPT ![t] = 0]
    BY DEF Sy!Ended, Sy!None
<1>3. /\ place' \in [Senders -> Stations] /\ place'[t] = "idle"
      /\ \A u \in Senders : u # t => place'[u] = place[u]
    BY <1>1, <1>2, GoIs DEF Stations
<1>4. /\ using' \in [Senders -> Nat] /\ using'[t] = 0
      /\ \A u \in Senders : u # t => using'[u] = using[u]
    BY <1>1, <1>2 DEF SyslogTyped
<1>5. PICK x : x = [sent |-> took, raised |-> raised, calm |-> calm[t],
                    old |-> using[t] # 0 /\ sockets[using[t]] = "stale"]
    OBVIOUS
<1>6. sent' = sent \cup {x}
    BY <1>5 DEF Sy!Ended, Sy!None, Sy!SocketOf
<1>7. calm[t] \in BOOLEAN
    BY <1>1 DEF SyslogTyped
<1>8. x \in Writes /\ x.raised = raised /\ x.sent = took /\ x.calm = calm[t]
      /\ x.old = (using[t] # 0 /\ sockets[using[t]] = "stale")
    BY <1>5, <1>7 DEF Writes
<1>9. /\ x.raised = ~x.sent
      /\ Sy!Undisturbed /\ x.raised /\ x.calm => service.kind = "tcp" /\ x.old
    BY <1>8
<1>10. Sy!Undisturbed' = Sy!Undisturbed
    BY DEF Sy!Undisturbed, Sy!Alone
<1>11. WritesOK
    BY DEF SyslogInv
<1>12. WritesOK'
    BY <1>6, <1>8, <1>9, <1>10, <1>11, Zenon DEF WritesOK
<1>. QED
    BY <1>3, <1>4, <1>12

\* What did not change is as it should be.
LEMMA Unwritten ==
    ASSUME SyslogInv, sent' = sent, service' = service PROVE WritesOK'
<1>1. Sy!Undisturbed' = Sy!Undisturbed
    BY DEF Sy!Undisturbed, Sy!Alone
<1>. QED
    BY <1>1 DEF SyslogInv, WritesOK

LEMMA SameSockets ==
    ASSUME SyslogInv, sockets' = sockets, service' = service
    PROVE  SocketsOK' /\ Len(sockets') >= Len(sockets) /\ Len(sockets) \in Nat
BY DEF SyslogInv, SocketsOK, SyslogTyped

\* Who is somewhere logs or closes.
LEMMA WhoIsThere ==
    ASSUME SyslogInv, NEW t \in Senders, place[t] # "idle"
    PROVE  t \in service.loggers \cup service.closers
BY DEF SyslogInv, SenderOK

LEMMA BeginWriteKeeps == ASSUME SyslogInv, NEW t \in Senders, Sy!BeginWrite(t) PROVE SyslogInv'
<1>1. SyslogTyped /\ SenderOK(t)
    BY DEF SyslogInv
<1>2. PICK there \in Stations : Sy!Go(t, there) /\ there = IF transport = 0 THEN "open" ELSE "take"
    BY DEF Sy!BeginWrite, Sy!None, Stations
<1>3. /\ place[t] = "idle" /\ t \in service.loggers /\ calm' = [calm EXCEPT ![t] = up]
      /\ service' = service /\ up' = up /\ transport' = transport /\ sockets' = sockets
      /\ using' = using /\ shutdowns' = shutdowns /\ sent' = sent
    BY DEF Sy!BeginWrite
<1>4. /\ place' \in [Senders -> Stations] /\ place'[t] = there
      /\ \A u \in Senders : u # t => place'[u] = place[u]
    BY <1>1, <1>2, GoIs
<1>5. calm' \in [Senders -> BOOLEAN] /\ calm'[t] = up /\ \A u \in Senders : u # t => calm'[u] = calm[u]
    BY <1>1, <1>3 DEF SyslogTyped
<1>6. SyslogTyped'
    BY <1>1, <1>3, <1>4, <1>5 DEF SyslogTyped
<1>7. UndisturbedOK(t)'
    BY <1>2, <1>3, <1>4 DEF UndisturbedOK, Sending
<1>8. AloneOK(t)'
    BY <1>1, <1>2, <1>3, <1>4 DEF AloneOK, SenderOK, Sending
<1>9. SenderOK(t)'
    BY <1>1, <1>2, <1>3, <1>4, <1>5, <1>7, <1>8 DEF SenderOK, Sending
<1>. QED
    BY <1>3, <1>4, <1>5, <1>6, <1>9, SameSockets, Unwritten, OneSenderSteps

LEMMA TakeKeeps == ASSUME SyslogInv, NEW t \in Senders, Sy!Take(t) PROVE SyslogInv'
<1>1. SyslogTyped /\ SenderOK(t)
    BY DEF SyslogInv
<1>2. /\ place[t] = "take" /\ Sy!Go(t, "check") /\ using' = [using EXCEPT ![t] = transport]
      /\ service' = service /\ up' = up /\ transport' = transport /\ sockets' = sockets
      /\ calm' = calm /\ shutdowns' = shutdowns /\ sent' = sent
    BY DEF Sy!Take
<1>3. /\ place' \in [Senders -> Stations] /\ place'[t] = "check"
      /\ \A u \in Senders : u # t => place'[u] = place[u]
    BY <1>1, <1>2, GoIs DEF Stations
<1>4. using' \in [Senders -> Nat] /\ using'[t] = transport /\ \A u \in Senders : u # t => using'[u] = using[u]
    BY <1>1, <1>2 DEF SyslogTyped
<1>5. SyslogTyped'
    BY <1>1, <1>2, <1>3, <1>4 DEF SyslogTyped
<1>6. UndisturbedOK(t)'
    BY <1>1, <1>2, <1>3, <1>4 DEF SenderOK, UndisturbedOK, Sy!Undisturbed, Sy!Alone, Sending
<1>7. AloneOK(t)'
    BY <1>1, <1>2, <1>3, <1>4 DEF AloneOK, SenderOK, Sending
<1>8. SenderOK(t)'
    BY <1>1, <1>2, <1>3, <1>4, <1>6, <1>7 DEF SenderOK, Sending, SyslogTyped
<1>. QED
    BY <1>2, <1>3, <1>4, <1>5, <1>8, SameSockets, Unwritten, WhoIsThere, OneSenderSteps

LEMMA KeepKeeps == ASSUME SyslogInv, NEW t \in Senders, Sy!Keep(t) PROVE SyslogInv'
<1>1. SyslogTyped /\ SenderOK(t)
    BY DEF SyslogInv
<1>2. /\ place[t] = "keep" /\ Sy!Go(t, "check") /\ transport' = using[t]
      /\ service' = service /\ up' = up /\ using' = using /\ sockets' = sockets
      /\ calm' = calm /\ shutdowns' = shutdowns /\ sent' = sent
    BY DEF Sy!Keep
<1>3. /\ place' \in [Senders -> Stations] /\ place'[t] = "check"
      /\ \A u \in Senders : u # t => place'[u] = place[u]
    BY <1>1, <1>2, GoIs DEF Stations
<1>4. using[t] # 0 /\ using[t] \in Nat /\ using[t] <= Len(sockets)
    BY <1>1, <1>2 DEF SenderOK, SyslogTyped
<1>5. SyslogTyped'
    BY <1>1, <1>2, <1>3, <1>4 DEF SyslogTyped
<1>6. UndisturbedOK(t)'
    BY <1>2, <1>3, <1>4 DEF UndisturbedOK, Sending
<1>7. AloneOK(t)'
    BY <1>1, <1>2, <1>3, <1>4 DEF AloneOK, SenderOK, Sending
<1>8. SenderOK(t)'
    BY <1>1, <1>2, <1>3, <1>4, <1>6, <1>7 DEF SenderOK, Sending
<1>. QED
    BY <1>2, <1>3, <1>4, <1>5, <1>8, SameSockets, Unwritten, WhoIsThere, OneSenderSteps

\* What is left when a write is over: the thread is idle and holds nothing.
LEMMA EndKeeps ==
    ASSUME SyslogInv, NEW t \in Senders, place[t] \in {"open", "check"} \cup Sending,
           service' = service, up' = up, transport' = transport, calm' = calm, shutdowns' = shutdowns,
           place' \in [Senders -> Stations], place'[t] = "idle",
           using' \in [Senders -> Nat], using'[t] = 0,
           \A u \in Senders : u # t => place'[u] = place[u] /\ using'[u] = using[u],
           sockets' \in Seq(SocketStates), Len(sockets') = Len(sockets), SocketsOK', WritesOK',
           service.closes = 0 /\ up => \A i \in 1 .. Len(sockets) : sockets[i] = "live" => sockets'[i] = "live",
           \A i \in 1 .. Len(sockets) : sockets'[i] \in {"live", "stale"} => sockets[i] \in {"live", "stale"}
    PROVE  SyslogInv'
<1>1. SyslogTyped /\ SenderOK(t)
    BY DEF SyslogInv
<1>2. SyslogTyped' /\ Len(sockets) \in Nat
    BY <1>1 DEF SyslogTyped
<1>3. place[t] # "idle" /\ place[t] # "keep"
    BY DEF Sending
<1>4. UndisturbedOK(t)'
    BY DEF UndisturbedOK, Sending
<1>5. AloneOK(t)'
    BY <1>1, <1>2, <1>3 DEF AloneOK, SenderOK, Sending
<1>6. SenderOK(t)'
    BY <1>1, <1>2, <1>4, <1>5 DEF SenderOK, Sending
<1>. QED
    BY <1>2, <1>3, <1>6, WhoIsThere, OneSenderSteps

LEMMA OpenKeeps == ASSUME SyslogInv, NEW t \in Senders, Sy!Open(t) PROVE SyslogInv'
<1>1. SyslogTyped /\ SenderOK(t) /\ SocketsOK
    BY DEF SyslogInv
<1>2. /\ place[t] = "open" /\ service' = service /\ up' = up /\ transport' = transport
      /\ calm' = calm /\ shutdowns' = shutdowns
    BY DEF Sy!Open
<1>3. CASE Sy!Refused
    <2>1. Sy!Ended(t, FALSE, TRUE) /\ sockets' = sockets
        BY <1>3 DEF Sy!Open
    <2>2. ~calm[t]
        BY <1>1, <1>3 DEF SenderOK, Sy!Refused
    <2>3. /\ WritesOK' /\ place' \in [Senders -> Stations] /\ place'[t] = "idle"
          /\ \A u \in Senders : u # t => place'[u] = place[u]
          /\ using' \in [Senders -> Nat] /\ using'[t] = 0
          /\ \A u \in Senders : u # t => using'[u] = using[u]
        BY <1>2, <2>1, <2>2, EndedIs
    <2>4. sockets \in Seq(SocketStates) /\ SocketsOK'
        BY <1>1, <1>2, <2>1, SameSockets DEF SyslogTyped
    <2>. QED
        BY <1>2, <2>1, <2>3, <2>4, EndKeeps
<1>4. CASE ~Sy!Refused
    <2>1. PICK x \in SocketStates : x = Sy!Connected
        BY DEF Sy!Connected, SocketStates
    <2>2. PICK l \in Nat, m \in Nat : l = Len(sockets) /\ m = l + 1
        BY <1>1 DEF SyslogTyped
    <2>3. /\ sockets' = Append(sockets, x) /\ using' = [using EXCEPT ![t] = Len(sockets')]
          /\ Sy!Go(t, "keep") /\ sent' = sent
        BY <1>4, <2>1 DEF Sy!Open
    <2>4. sockets \in Seq(SocketStates)
        BY <1>1 DEF SyslogTyped
    <2>5. /\ sockets' \in Seq(SocketStates) /\ Len(sockets') = m
          /\ sockets'[m] = x /\ \A i \in 1 .. l : sockets'[i] = sockets[i]
        BY ONLY <2>2, <2>3, <2>4, x \in SocketStates, SMT
    <2>6. /\ place' \in [Senders -> Stations] /\ place'[t] = "keep"
          /\ \A u \in Senders : u # t => place'[u] = place[u]
        BY <1>1, <2>3, GoIs DEF Stations
    <2>7. using' \in [Senders -> Nat] /\ using'[t] = m /\ \A u \in Senders : u # t => using'[u] = using[u]
        BY <1>1, <2>3, <2>5 DEF SyslogTyped
    <2>8. SyslogTyped'
        <3>1. transport \in Nat /\ transport <= Len(sockets')
            BY <1>1, <2>2, <2>5 DEF SyslogTyped
        <3>. QED
            BY <1>1, <1>2, <2>5, <2>6, <2>7, <3>1 DEF SyslogTyped
    <2>9. x # "none" /\ (service.kind # "unix" => x = "live")
        BY <1>1, <2>1 DEF Sy!Connected, Sy!Kind
    <2>10. SocketsOK'
        <3>1. ASSUME NEW i \in 1 .. m
              PROVE  /\ service.kind = "udp" => sockets'[i] \in {"none", "live"}
                     /\ service.kind = "tcp" => sockets'[i] # "shut"
                     /\ service.closes = 0 => sockets'[i] # "none"
            <4>1. CASE i = m
                BY <2>5, <2>9, <4>1
            <4>2. CASE i \in 1 .. l
                BY <1>1, <2>2, <2>5, <4>2 DEF SocketsOK
            <4>. QED
                BY <2>2, <4>1, <4>2
        <3>. QED
            BY <1>2, <2>5, <3>1 DEF SocketsOK
    <2>11. UndisturbedOK(t)'
        BY <2>6 DEF UndisturbedOK, Sending
    <2>12. AloneOK(t)'
        <3>. SUFFICES ASSUME service.loggers \cup service.closers = {t}
                      PROVE  /\ transport = 0
                             /\ \A i \in 1 .. m : sockets'[i] \in {"live", "stale"} => i = m
            BY <1>2, <2>5, <2>6, <2>7 DEF AloneOK, Sending
        <3>1. transport = 0 /\ \A i \in 1 .. l : sockets[i] \notin {"live", "stale"}
            BY <1>1, <1>2, <2>2 DEF SenderOK, AloneOK
        <3>. QED
            BY <2>2, <2>5, <3>1
    <2>13. SenderOK(t)'
        BY <1>1, <1>2, <2>2, <2>5, <2>6, <2>7, <2>11, <2>12 DEF SenderOK, Sending
    <2>. QED
        BY <1>2, <2>2, <2>3, <2>5, <2>6, <2>7, <2>8, <2>10, <2>13, Unwritten, WhoIsThere, OneSenderSteps
<1>. QED
    BY <1>3, <1>4

\* The socket of a thread becomes another one.
LEMMA BecomesIs ==
    ASSUME SyslogInv, NEW t \in Senders, using[t] # 0, NEW x \in SocketStates, Sy!Becomes(t, x),
           service' = service,
           service.kind # "unix" => x = "live", service.closes = 0 => x # "none"
    PROVE  /\ sockets' \in Seq(SocketStates) /\ Len(sockets') = Len(sockets) /\ Len(sockets) \in Nat
           /\ using[t] \in 1 .. Len(sockets) /\ sockets'[using[t]] = x
           /\ \A i \in 1 .. Len(sockets) : i # using[t] => sockets'[i] = sockets[i]
           /\ SocketsOK'
<1>1. SyslogTyped /\ SenderOK(t) /\ SocketsOK
    BY DEF SyslogInv
<1>2. PICK l \in Nat : l = Len(sockets)
    BY <1>1 DEF SyslogTyped
<1>3. PICK k \in 1 .. l : k = using[t]
    BY <1>1, <1>2 DEF SyslogTyped, SenderOK
<1>4. sockets' = [sockets EXCEPT ![k] = x]
    BY <1>3 DEF Sy!Becomes
<1>5. sockets \in Seq(SocketStates)
    BY <1>1 DEF SyslogTyped
<1>6. /\ sockets' \in Seq(SocketStates) /\ Len(sockets') = l /\ sockets'[k] = x
      /\ \A i \in 1 .. l : i # k => sockets'[i] = sockets[i]
    BY ONLY <1>2, <1>4, <1>5, k \in 1 .. l, x \in SocketStates, SMT
<1>7. SocketsOK'
    <2>1. ASSUME NEW i \in 1 .. l
          PROVE  /\ service.kind = "udp" => sockets'[i] \in {"none", "live"}
                 /\ service.kind = "tcp" => sockets'[i] # "shut"
                 /\ service.closes = 0 => sockets'[i] # "none"
        <3>1. CASE i = k
            BY <1>6, <3>1
        <3>2. CASE i # k
            BY <1>1, <1>2, <1>6, <3>2 DEF SocketsOK
        <3>. QED
            BY <3>1, <3>2
    <2>. QED
        BY <1>6, <2>1 DEF SocketsOK
<1>. QED
    BY <1>2, <1>3, <1>6, <1>7

\* A thread that goes on with the socket it has, which may be another one now.
LEMMA SendingKeeps ==
    ASSUME SyslogInv, NEW t \in Senders, place[t] \in {"check"} \cup Sending, using[t] # 0,
           NEW there \in Sending, Sy!Go(t, there), there # "send" => service.kind = "unix",
           service' = service, up' = up, transport' = transport, calm' = calm, shutdowns' = shutdowns,
           using' = using, sent' = sent,
           sockets' \in Seq(SocketStates), Len(sockets') = Len(sockets), SocketsOK',
           \A i \in 1 .. Len(sockets) : i # using[t] => sockets'[i] = sockets[i],
           Sy!Undisturbed => sockets'[using[t]] # "none",
           there = "resend" => sockets'[using[t]] = "live",
           service.closes = 0 /\ up /\ sockets[using[t]] = "live" => sockets'[using[t]] = "live"
    PROVE  SyslogInv'
<1>1. SyslogTyped /\ SenderOK(t)
    BY DEF SyslogInv
<1>2. /\ place' \in [Senders -> Stations] /\ place'[t] = there
      /\ \A u \in Senders : u # t => place'[u] = place[u]
    BY <1>1, GoIs DEF Stations, Sending
<1>3. PICK l \in Nat : l = Len(sockets)
    BY <1>1 DEF SyslogTyped
<1>4. PICK k \in 1 .. l : k = using[t]
    BY <1>1, <1>3 DEF SyslogTyped, SenderOK
<1>5. SyslogTyped'
    BY <1>1, <1>2 DEF SyslogTyped
<1>6. Sy!Undisturbed' = Sy!Undisturbed
    BY DEF Sy!Undisturbed, Sy!Alone
<1>7. UndisturbedOK(t)'
    BY <1>2, <1>6 DEF UndisturbedOK, Sending
<1>8. AloneOK(t)'
    <2>. SUFFICES ASSUME service.loggers \cup service.closers = {t}
                  PROVE  /\ k = transport
                         /\ \A i \in 1 .. l : sockets'[i] \in {"live", "stale"} => i = transport
        BY <1>2, <1>3, <1>4 DEF AloneOK, Sending
    <2>1. k = transport /\ \A i \in 1 .. l : sockets[i] \in {"live", "stale"} => i = transport
        BY <1>1, <1>3, <1>4 DEF SenderOK, AloneOK, Sending
    <2>. QED
        BY <1>3, <1>4, <2>1
<1>9. SenderOK(t)'
    BY <1>1, <1>2, <1>7, <1>8 DEF SenderOK, Sending
<1>10. service.closes = 0 /\ up => \A i \in 1 .. Len(sockets) : sockets[i] = "live" => sockets'[i] = "live"
    BY <1>3, <1>4
<1>11. Len(sockets') >= Len(sockets) /\ place[t] # "idle"
    BY <1>3 DEF Sending
<1>. QED
    BY <1>2, <1>5, <1>9, <1>10, <1>11, Unwritten, WhoIsThere, OneSenderSteps

\* A write that ends where it found the sockets.
LEMMA EndsHere ==
    ASSUME SyslogInv, NEW t \in Senders, place[t] \in {"open", "check"} \cup Sending,
           NEW took \in BOOLEAN, NEW raised \in BOOLEAN, Sy!Ended(t, took, raised), raised = ~took,
           service' = service, up' = up, transport' = transport, calm' = calm, shutdowns' = shutdowns,
           sockets' = sockets,
           Sy!Undisturbed /\ raised /\ calm[t] =>
               service.kind = "tcp" /\ using[t] # 0 /\ sockets[using[t]] = "stale"
    PROVE  SyslogInv'
<1>1. /\ WritesOK' /\ place' \in [Senders -> Stations] /\ place'[t] = "idle"
      /\ \A u \in Senders : u # t => place'[u] = place[u]
      /\ using' \in [Senders -> Nat] /\ using'[t] = 0
      /\ \A u \in Senders : u # t => using'[u] = using[u]
    BY EndedIs
<1>2. sockets \in Seq(SocketStates) /\ SocketsOK'
    BY SameSockets DEF SyslogInv, SyslogTyped
<1>. QED
    BY <1>1, <1>2, EndKeeps

LEMMA CheckKeeps == ASSUME SyslogInv, NEW t \in Senders, Sy!Check(t) PROVE SyslogInv'
<1>1. SyslogTyped /\ SenderOK(t) /\ SocketsOK
    BY DEF SyslogInv
<1>2. /\ place[t] = "check" /\ service' = service /\ up' = up /\ transport' = transport
      /\ calm' = calm /\ shutdowns' = shutdowns
    BY DEF Sy!Check
<1>3. CASE using[t] = 0 \/ (sockets[using[t]] = "none" /\ Sy!Refused)
    <2>1. Sy!Ended(t, FALSE, TRUE) /\ sockets' = sockets
        BY <1>3 DEF Sy!Check, Sy!None, Sy!SocketOf, Sy!Surfaces
    <2>2. Sy!Undisturbed => ~calm[t]
        BY <1>1, <1>2, <1>3 DEF SenderOK, UndisturbedOK, Sy!Refused
    <2>. QED
        BY <1>2, <2>1, <2>2, EndsHere
<1>4. CASE using[t] # 0 /\ ~(sockets[using[t]] = "none" /\ Sy!Refused)
    <2>1. Sy!Go(t, "send") /\ using' = using /\ sent' = sent
        BY <1>4 DEF Sy!Check, Sy!None, Sy!SocketOf
    <2>2. CASE sockets[using[t]] = "none"
        <3>1. PICK x \in SocketStates : x = Sy!Connected
            BY DEF Sy!Connected, SocketStates
        <3>2. Sy!Becomes(t, x)
            BY <1>4, <2>2, <3>1 DEF Sy!Check, Sy!None, Sy!SocketOf
        <3>3. x # "none" /\ (service.kind # "unix" => x = "live")
            BY <3>1 DEF Sy!Connected, Sy!Kind
        <3>4. /\ sockets' \in Seq(SocketStates) /\ Len(sockets') = Len(sockets)
              /\ sockets'[using[t]] = x
              /\ \A i \in 1 .. Len(sockets) : i # using[t] => sockets'[i] = sockets[i]
              /\ SocketsOK'
            BY <1>2, <1>4, <3>2, <3>3, BecomesIs
        <3>. QED
            BY <1>2, <1>4, <2>1, <2>2, <3>3, <3>4, SendingKeeps DEF Sending
    <2>3. CASE sockets[using[t]] # "none"
        <3>1. sockets' = sockets
            BY <1>4, <2>3 DEF Sy!Check, Sy!None, Sy!SocketOf
        <3>2. sockets \in Seq(SocketStates) /\ SocketsOK'
            BY <1>1, <1>2, <3>1, SameSockets DEF SyslogTyped
        <3>. QED
            BY <1>2, <1>4, <2>1, <2>3, <3>1, <3>2, SendingKeeps DEF Sending
    <2>. QED
        BY <2>2, <2>3
<1>. QED
    BY <1>3, <1>4

LEMMA SendKeeps == ASSUME SyslogInv, NEW t \in Senders, Sy!Send(t) PROVE SyslogInv'
<1>1. SyslogTyped /\ SenderOK(t) /\ SocketsOK
    BY DEF SyslogInv
<1>2. /\ place[t] = "send" /\ service' = service /\ up' = up /\ transport' = transport
      /\ calm' = calm /\ shutdowns' = shutdowns /\ sockets' = sockets /\ using[t] # 0
    BY <1>1 DEF Sy!Send, SenderOK, Sending
<1>3. PICK k \in 1 .. Len(sockets) : k = using[t]
    BY <1>1, <1>2 DEF SyslogTyped, SenderOK
<1>4. CASE Sy!Ended(t, TRUE, FALSE)
    BY <1>2, <1>4, EndsHere DEF Sending
<1>5. CASE Sy!Broken(t) /\ service.kind = "unix" /\ sockets[k] # "none"
           /\ Sy!Go(t, "again") /\ using' = using /\ sent' = sent
    <2>1. sockets \in Seq(SocketStates) /\ SocketsOK'
        BY <1>1, <1>2, SameSockets DEF SyslogTyped
    <2>. QED
        BY <1>2, <1>3, <1>5, <2>1, SendingKeeps DEF Sending
<1>6. CASE Sy!Broken(t) /\ ~(service.kind = "unix" /\ sockets[k] # "none") /\ Sy!Ended(t, FALSE, TRUE)
    <2>1. sockets[k] # "live" /\ sockets[k] \in SocketStates
        BY <1>1, <1>3, <1>6 DEF Sy!Broken, Sy!SocketOf, SyslogTyped
    <2>2. Sy!Undisturbed => sockets[k] # "none"
        BY <1>1, <1>2, <1>3 DEF SenderOK, UndisturbedOK, Sending
    <2>3. Sy!Undisturbed => service.kind = "tcp" /\ sockets[k] = "stale"
        BY <1>1, <1>6, <2>1, <2>2 DEF SocketsOK, SyslogTyped, SocketStates
    <2>. QED
        BY <1>2, <1>3, <1>6, <2>3, EndsHere DEF Sending
<1>. QED
    BY <1>3, <1>4, <1>5, <1>6 DEF Sy!Send, Sy!Surfaces, Sy!SocketOf, Sy!Kind

LEMMA ReconnectKeeps == ASSUME SyslogInv, NEW t \in Senders, Sy!Reconnect(t) PROVE SyslogInv'
<1>1. SyslogTyped /\ SenderOK(t) /\ SocketsOK
    BY DEF SyslogInv
<1>2. /\ place[t] = "again" /\ service' = service /\ up' = up /\ transport' = transport
      /\ calm' = calm /\ shutdowns' = shutdowns /\ using[t] # 0 /\ service.kind = "unix"
    BY <1>1 DEF Sy!Reconnect, SenderOK, Sending
<1>3. PICK k \in 1 .. Len(sockets) : k = using[t]
    BY <1>1, <1>2 DEF SyslogTyped, SenderOK
<1>4. Sy!Undisturbed => sockets[k] # "none"
    BY <1>1, <1>2, <1>3 DEF SenderOK, UndisturbedOK, Sending
<1>5. CASE sockets[k] = "none"
    <2>1. Sy!Ended(t, FALSE, TRUE) /\ sockets' = sockets
        BY <1>3, <1>5 DEF Sy!Reconnect, Sy!SocketOf, Sy!Surfaces
    <2>. QED
        BY <1>2, <1>4, <1>5, <2>1, EndsHere DEF Sending
<1>6. CASE sockets[k] # "none" /\ ~up
    <2>1. Sy!Ended(t, FALSE, TRUE) /\ Sy!Becomes(t, "shut")
        BY <1>3, <1>6 DEF Sy!Reconnect, Sy!SocketOf, Sy!Surfaces
    <2>2. ~calm[t]
        BY <1>1, <1>6 DEF SenderOK
    <2>3. /\ WritesOK' /\ place' \in [Senders -> Stations] /\ place'[t] = "idle"
          /\ \A u \in Senders : u # t => place'[u] = place[u]
          /\ using' \in [Senders -> Nat] /\ using'[t] = 0
          /\ \A u \in Senders : u # t => using'[u] = using[u]
        BY <1>2, <2>1, <2>2, EndedIs
    <2>4. /\ sockets' \in Seq(SocketStates) /\ Len(sockets') = Len(sockets)
          /\ sockets'[k] = "shut"
          /\ \A i \in 1 .. Len(sockets) : i # k => sockets'[i] = sockets[i]
          /\ SocketsOK'
        BY <1>2, <1>3, <2>1, BecomesIs DEF SocketStates
    <2>5. \A i \in 1 .. Len(sockets) : sockets'[i] \in {"live", "stale"} => sockets[i] \in {"live", "stale"}
        BY <2>4
    <2>. QED
        BY <1>2, <1>6, <2>3, <2>4, <2>5, EndKeeps DEF Sending
<1>7. CASE sockets[k] # "none" /\ up
    <2>1. Sy!Becomes(t, "live") /\ Sy!Go(t, "resend") /\ using' = using /\ sent' = sent
        BY <1>3, <1>7 DEF Sy!Reconnect, Sy!SocketOf
    <2>2. /\ sockets' \in Seq(SocketStates) /\ Len(sockets') = Len(sockets)
          /\ sockets'[k] = "live"
          /\ \A i \in 1 .. Len(sockets) : i # k => sockets'[i] = sockets[i]
          /\ SocketsOK'
        BY <1>2, <1>3, <2>1, BecomesIs DEF SocketStates
    <2>. QED
        BY <1>2, <1>3, <2>1, <2>2, SendingKeeps DEF Sending
<1>. QED
    BY <1>1, <1>5, <1>6, <1>7

LEMMA ResendKeeps == ASSUME SyslogInv, NEW t \in Senders, Sy!Resend(t) PROVE SyslogInv'
<1>1. SyslogTyped /\ SenderOK(t)
    BY DEF SyslogInv
<1>2. /\ place[t] = "resend" /\ service' = service /\ up' = up /\ transport' = transport
      /\ calm' = calm /\ shutdowns' = shutdowns /\ sockets' = sockets
    BY DEF Sy!Resend
<1>3. CASE Sy!Ended(t, TRUE, FALSE)
    BY <1>2, <1>3, EndsHere DEF Sending
<1>4. CASE sockets[using[t]] # "live" /\ Sy!Ended(t, FALSE, TRUE)
    <2>1. Sy!Undisturbed => ~calm[t]
        BY <1>1, <1>2, <1>4 DEF SenderOK, UndisturbedOK
    <2>. QED
        BY <1>2, <1>4, <2>1, EndsHere DEF Sending
<1>. QED
    BY <1>3, <1>4 DEF Sy!Resend, Sy!Surfaces, Sy!SocketOf

LEMMA BeginCloseKeeps == ASSUME SyslogInv, NEW t \in Senders, Sy!BeginClose(t) PROVE SyslogInv'
<1>1. SyslogTyped /\ SenderOK(t)
    BY DEF SyslogInv
<1>2. PICK there \in Stations : Sy!Go(t, there) /\ there = IF transport = 0 THEN "idle" ELSE "shutting"
    BY DEF Sy!BeginClose, Sy!None, Stations
<1>3. /\ place[t] = "idle" /\ t \in service.closers /\ shutdowns < service.closes
      /\ shutdowns' = shutdowns + 1 /\ calm' = calm
      /\ service' = service /\ up' = up /\ transport' = transport /\ sockets' = sockets
      /\ using' = using /\ sent' = sent
    BY DEF Sy!BeginClose
<1>4. /\ place' \in [Senders -> Stations] /\ place'[t] = there
      /\ \A u \in Senders : u # t => place'[u] = place[u]
    BY <1>1, <1>2, GoIs
<1>5. SyslogTyped' /\ service.closes # 0
    BY <1>1, <1>3, <1>4 DEF SyslogTyped
<1>6. UndisturbedOK(t)'
    BY <1>2, <1>4 DEF UndisturbedOK, Sending
<1>7. AloneOK(t)'
    BY <1>1, <1>2, <1>3, <1>4 DEF AloneOK, SenderOK, Sending
<1>8. SenderOK(t)'
    BY <1>1, <1>2, <1>3, <1>4, <1>5, <1>6, <1>7 DEF SenderOK, Sending
<1>. QED
    BY <1>3, <1>4, <1>5, <1>8, SameSockets, Unwritten, OneSenderSteps

LEMMA ShutTransportKeeps == ASSUME SyslogInv, NEW t \in Senders, Sy!ShutTransport(t) PROVE SyslogInv'
<1>1. SyslogTyped /\ SenderOK(t) /\ SocketsOK
    BY DEF SyslogInv
<1>2. /\ place[t] = "shutting" /\ service' = service /\ up' = up /\ transport' = transport
      /\ using' = using /\ calm' = calm /\ shutdowns' = shutdowns /\ sent' = sent
    BY DEF Sy!ShutTransport
<1>3. service.closes # 0
    BY <1>1, <1>2 DEF SenderOK
<1>4. PICK there \in {"idle", "unset"} :
          /\ Sy!Go(t, there) /\ (there = "idle" <=> transport = 0)
          /\ transport = 0 => sockets' = sockets
          /\ transport # 0 => sockets' = [sockets EXCEPT ![transport] = "none"]
    BY DEF Sy!ShutTransport, Sy!None, Sy!Shut
<1>5. /\ place' \in [Senders -> Stations] /\ place'[t] = there
      /\ \A u \in Senders : u # t => place'[u] = place[u]
    BY <1>1, <1>4, GoIs DEF Stations
<1>6. PICK l \in Nat : l = Len(sockets)
    BY <1>1 DEF SyslogTyped
<1>7. PICK k \in 0 .. l : k = transport
    BY <1>1, <1>6 DEF SyslogTyped
<1>8. sockets \in Seq(SocketStates)
    BY <1>1 DEF SyslogTyped
<1>9. /\ sockets' \in Seq(SocketStates) /\ Len(sockets') = l
      /\ k # 0 => sockets'[k] = "none"
      /\ \A i \in 1 .. l : i # k => sockets'[i] = sockets[i]
    <2>1. CASE k = 0
        BY <1>4, <1>6, <1>7, <1>8, <2>1
    <2>2. CASE k # 0
        <3>1. sockets' = [sockets EXCEPT ![k] = "none"] /\ k \in 1 .. l /\ "none" \in SocketStates
            BY <1>4, <1>7, <2>2 DEF SocketStates
        <3>. QED
            BY ONLY <1>6, <1>8, <3>1, SMT
    <2>. QED
        BY <2>1, <2>2
<1>10. SyslogTyped'
    BY <1>1, <1>2, <1>5, <1>6, <1>9 DEF SyslogTyped
<1>11. SocketsOK'
    <2>1. ASSUME NEW i \in 1 .. l
          PROVE  /\ service.kind = "udp" => sockets'[i] \in {"none", "live"}
                 /\ service.kind = "tcp" => sockets'[i] # "shut"
        <3>1. CASE i = k
            BY <1>9, <3>1
        <3>2. CASE i # k
            BY <1>1, <1>6, <1>9, <3>2 DEF SocketsOK
        <3>. QED
            BY <3>1, <3>2
    <2>. QED
        BY <1>2, <1>3, <1>9, <2>1 DEF SocketsOK
<1>12. UndisturbedOK(t)'
    BY <1>4, <1>5 DEF UndisturbedOK, Sending
<1>13. AloneOK(t)'
    <2>. SUFFICES ASSUME service.loggers \cup service.closers = {t}
                  PROVE  /\ there = "unset" => k # 0 /\ sockets'[k] = "none"
                         /\ \A i \in 1 .. l : sockets'[i] \in {"live", "stale"} => i = k
        BY <1>2, <1>5, <1>7, <1>9 DEF AloneOK, Sending
    <2>1. \A i \in 1 .. l : sockets[i] \in {"live", "stale"} => i = k
        BY <1>1, <1>2, <1>6, <1>7 DEF SenderOK, AloneOK
    <2>. QED
        BY <1>4, <1>7, <1>9, <2>1
<1>14. SenderOK(t)'
    BY <1>1, <1>2, <1>3, <1>5, <1>6, <1>9, <1>12, <1>13 DEF SenderOK, Sending
<1>15. t \in service.loggers \cup service.closers /\ Len(sockets') >= Len(sockets)
    BY <1>2, <1>6, <1>9, WhoIsThere
<1>. QED
    BY <1>2, <1>3, <1>5, <1>10, <1>11, <1>14, <1>15, Unwritten, OneSenderSteps

LEMMA ForgetTransportKeeps == ASSUME SyslogInv, NEW t \in Senders, Sy!ForgetTransport(t) PROVE SyslogInv'
<1>1. SyslogTyped /\ SenderOK(t)
    BY DEF SyslogInv
<1>2. /\ place[t] = "unset" /\ Sy!Go(t, "idle") /\ transport' = 0 /\ service' = service /\ up' = up
      /\ sockets' = sockets /\ using' = using /\ calm' = calm /\ shutdowns' = shutdowns /\ sent' = sent
    BY DEF Sy!ForgetTransport, Sy!None
<1>3. service.closes # 0
    BY <1>1, <1>2 DEF SenderOK
<1>4. /\ place' \in [Senders -> Stations] /\ place'[t] = "idle"
      /\ \A u \in Senders : u # t => place'[u] = place[u]
    BY <1>1, <1>2, GoIs DEF Stations
<1>5. SyslogTyped'
    BY <1>1, <1>2, <1>4 DEF SyslogTyped
<1>6. UndisturbedOK(t)'
    BY <1>4 DEF UndisturbedOK, Sending
<1>7. AloneOK(t)'
    <2>. SUFFICES ASSUME service.loggers \cup service.closers = {t}
                  PROVE  \A i \in 1 .. Len(sockets) : sockets[i] \notin {"live", "stale"}
        BY <1>2, <1>4 DEF AloneOK, Sending
    <2>1. /\ sockets[transport] = "none"
          /\ \A i \in 1 .. Len(sockets) : sockets[i] \in {"live", "stale"} => i = transport
        BY <1>1, <1>2 DEF SenderOK, AloneOK
    <2>. QED
        BY <2>1
<1>8. SenderOK(t)'
    BY <1>1, <1>2, <1>4, <1>6, <1>7 DEF SenderOK, Sending
<1>. QED
    BY <1>2, <1>3, <1>4, <1>5, <1>8, SameSockets, Unwritten, WhoIsThere, OneSenderSteps

LEMMA StopKeeps == ASSUME SyslogInv, Sy!Stop PROVE SyslogInv'
<1>1. SyslogTyped /\ SocketsOK
    BY DEF SyslogInv
<1>2. /\ up' = FALSE /\ calm' = [t \in Senders |-> FALSE] /\ service' = service
      /\ transport' = transport /\ place' = place /\ using' = using /\ shutdowns' = shutdowns /\ sent' = sent
    BY DEF Sy!Stop
<1>3. PICK l \in Nat : l = Len(sockets)
    BY <1>1 DEF SyslogTyped
<1>4. sockets \in Seq(SocketStates) /\ DOMAIN sockets = 1 .. l
    BY <1>1, <1>3 DEF SyslogTyped
<1>5. sockets' = [i \in 1 .. l |-> IF service.kind # "udp" /\ sockets[i] = "live" THEN "stale" ELSE sockets[i]]
    BY <1>4 DEF Sy!Stop, Sy!Kind
<1>6. \A i \in 1 .. l : sockets[i] \in SocketStates
    BY <1>3, <1>4
<1>7. /\ sockets' \in Seq(SocketStates) /\ Len(sockets') = l
      /\ \A i \in 1 .. l : \/ sockets'[i] = sockets[i]
                           \/ service.kind # "udp" /\ sockets[i] = "live" /\ sockets'[i] = "stale"
    BY <1>5, <1>6 DEF SocketStates
<1>8. SyslogTyped'
    BY <1>1, <1>2, <1>3, <1>7 DEF SyslogTyped
<1>9. SocketsOK'
    BY <1>1, <1>2, <1>3, <1>7 DEF SocketsOK
<1>10. Sy!Undisturbed' = Sy!Undisturbed
    BY <1>2 DEF Sy!Undisturbed, Sy!Alone
<1>11. ASSUME NEW t \in Senders PROVE SenderOK(t)'
    <2>1. SenderOK(t)
        BY DEF SyslogInv
    <2>2. PICK k \in 0 .. l : k = using[t] /\ (place[t] \in Sending => k # 0)
        BY <1>1, <1>3, <2>1 DEF SyslogTyped, SenderOK
    <2>3. UndisturbedOK(t)'
        <3>. SUFFICES ASSUME Sy!Undisturbed, place[t] \in Sending PROVE sockets'[k] # "none"
            BY <1>2, <1>10, <2>1, <2>2 DEF UndisturbedOK, SenderOK
        <3>1. sockets[k] # "none" /\ k \in 1 .. l
            BY <2>1, <2>2 DEF SenderOK, UndisturbedOK
        <3>. QED
            BY <1>7, <3>1
    <2>4. AloneOK(t)'
        <3>. SUFFICES ASSUME service.loggers \cup service.closers = {t}
                      PROVE  /\ place[t] = "unset" => transport # 0 /\ sockets'[transport] = "none"
                             /\ \A i \in 1 .. l : sockets'[i] \in {"live", "stale"} =>
                                    i = IF place[t] = "keep" THEN using[t] ELSE transport
            BY <1>2, <1>7, <2>1 DEF AloneOK, SenderOK
        <3>1. /\ place[t] = "unset" => transport # 0 /\ sockets[transport] = "none"
              /\ \A i \in 1 .. l : sockets[i] \in {"live", "stale"} =>
                     i = IF place[t] = "keep" THEN using[t] ELSE transport
            BY <1>3, <2>1 DEF SenderOK, AloneOK
        <3>2. transport # 0 => transport \in 1 .. l
            BY <1>1, <1>3 DEF SyslogTyped
        <3>. QED
            BY <1>7, <3>1, <3>2
    <2>5. ~calm'[t]
        BY <1>2
    <2>. QED
        BY <1>2, <1>3, <1>7, <2>1, <2>3, <2>4, <2>5 DEF SenderOK
<1>. QED
    BY <1>2, <1>8, <1>9, <1>11, Unwritten DEF SyslogInv

LEMMA RestartKeeps == ASSUME SyslogInv, Sy!Restart PROVE SyslogInv'
<1>1. /\ up' = TRUE /\ calm' = calm /\ service' = service /\ sockets' = sockets
      /\ transport' = transport /\ place' = place /\ using' = using /\ shutdowns' = shutdowns /\ sent' = sent
    BY DEF Sy!Restart
<1>2. SyslogTyped'
    BY <1>1 DEF SyslogInv, SyslogTyped
<1>3. ASSUME NEW t \in Senders PROVE SenderOK(t)'
    <2>1. SenderOK(t)
        BY DEF SyslogInv
    <2>2. UndisturbedOK(t)' /\ AloneOK(t)'
        BY <1>1, <2>1 DEF SenderOK, UndisturbedOK, AloneOK, Sy!Undisturbed, Sy!Alone
    <2>. QED
        BY <1>1, <2>1, <2>2 DEF SenderOK
<1>. QED
    BY <1>1, <1>2, <1>3, SameSockets, Unwritten DEF SyslogInv

LEMMA SyslogSteps == ASSUME SyslogInv, [Sy!Next]_sysVars PROVE SyslogInv'
<1>1. CASE sysVars' = sysVars
    <2>1. /\ up' = up /\ calm' = calm /\ service' = service /\ sockets' = sockets
          /\ transport' = transport /\ place' = place /\ using' = using /\ shutdowns' = shutdowns /\ sent' = sent
        BY <1>1 DEF sysVars
    <2>2. SyslogTyped'
        BY <2>1 DEF SyslogInv, SyslogTyped
    <2>3. ASSUME NEW t \in Senders PROVE SenderOK(t)'
        <3>1. SenderOK(t)
            BY DEF SyslogInv
        <3>2. UndisturbedOK(t)' /\ AloneOK(t)'
            BY <2>1, <3>1 DEF SenderOK, UndisturbedOK, AloneOK, Sy!Undisturbed, Sy!Alone
        <3>. QED
            BY <2>1, <3>1, <3>2 DEF SenderOK
    <2>. QED
        BY <2>1, <2>2, <2>3, SameSockets, Unwritten DEF SyslogInv
<1>2. CASE Sy!Next
    BY <1>2, BeginWriteKeeps, TakeKeeps, OpenKeeps, KeepKeeps, CheckKeeps, SendKeeps, ReconnectKeeps,
       ResendKeeps, BeginCloseKeeps, ShutTransportKeeps, ForgetTransportKeeps, StopKeeps, RestartKeeps
       DEF Sy!Next
<1>. QED
    BY <1>1, <1>2

\* What the invariant says of the records, and of the connections of one thread.
LEMMA SentFollows == SyslogInv => SentOrRaised
<1>. SUFFICES ASSUME SyslogInv PROVE SentOrRaised
    OBVIOUS
<1>1. SyslogTyped /\ WritesOK
    BY DEF SyslogInv
<1>2. Sy!TakenOrRaised
    BY <1>1 DEF WritesOK, Sy!TakenOrRaised
<1>3. Sy!ComesBack
    BY <1>1 DEF WritesOK, Sy!ComesBack, Sy!Kind
<1>4. Sy!OneConnection
    <2>. SUFFICES ASSUME NEW t \in Senders, service.loggers \cup service.closers = {t},
                         NEW i \in DOMAIN sockets, sockets[i] \in {"live", "stale"}
                  PROVE  i = transport \/ \E u \in Senders : i = using[u]
        BY DEF Sy!OneConnection, Sy!Alone
    <2>1. SenderOK(t) /\ DOMAIN sockets = 1 .. Len(sockets)
        BY <1>1 DEF SyslogInv, SyslogTyped
    <2>. QED
        BY <2>1 DEF SenderOK, AloneOK
<1>. QED
    BY <1>2, <1>3, <1>4 DEF SentOrRaised

-----------------------------------------------------------------------------
(* A wrapped handler: the invariant *)

Points == {"look", "call", "building", "install", "forget", "give"}
Early == {"look", "call", "building"}
PathFrame == [at : Points, id : Nat, found : Nat, echoed : BOOLEAN]

LazyTyped ==
    /\ use \in Uses /\ use.echoes \in BOOLEAN
    /\ wrapped \in Nat /\ wrapped <= Len(holds)
    /\ factory \in BOOLEAN
    /\ path \in [Users -> Seq(PathFrame)]
    /\ holds \in Seq(SUBSET Nat)
    /\ needed \in Seq(Severities)
    /\ done \subseteq Nat
    /\ thrown \subseteq [id : Nat, why : {"none", "factory"}]

PathOK(t) ==
    /\ Len(path[t]) <= 2
    /\ path[t] # <<>> => t \in use.threads
    /\ Len(path[t]) = 2 =>
           /\ path[t][1].echoed /\ path[t][2].echoed /\ use.echoes
           /\ path[t][2].at = "building" /\ path[t][1].id # path[t][2].id
    /\ \A i \in 1 .. Len(path[t]) :
           /\ path[t][i].id \in 1 .. Len(needed)
           /\ path[t][i].at \in {"install", "forget", "give"} => path[t][i].found \in 1 .. Len(holds)
           /\ path[t][i].at = "forget" => wrapped # 0

Apart(t, u) ==
    \A i \in 1 .. Len(path[t]), j \in 1 .. Len(path[u]) : path[t][i].id # path[u][j].id

\* Each record has one handler built at most: the others are still to have theirs.
Accounted ==
    \E P \in SUBSET (1 .. Len(needed)) :
        /\ Cardinality(P) + Len(holds) <= Len(needed)
        /\ \A t \in Users : \A i \in 1 .. Len(path[t]) : path[t][i].at \in Early => path[t][i].id \in P

\* Record n is with the handler, left it, was raised at or is on its way.
PlacedBy(t, n) ==
    \/ n \in done
    \/ wrapped # 0 /\ n \in holds[wrapped]
    \/ \E x \in thrown : x.id = n
    \/ Len(path[t]) = 1 /\ path[t][1].id = n

SingleOK(t) ==
    use.threads = {t} =>
        /\ \A i \in 1 .. Len(path[t]) : path[t][i].at = "call" => factory
        /\ \A x \in thrown : x.why = "factory"
        /\ ~use.echoes =>
               /\ Len(path[t]) <= 1 /\ Len(holds) <= 1
               /\ Len(path[t]) = 1 /\ path[t][1].at = "install" => wrapped = 0 /\ Len(holds) = 1
               /\ ~(Len(path[t]) = 1 /\ path[t][1].at = "install") => wrapped = Len(holds)
               /\ Len(path[t]) = 1 /\ path[t][1].at \in {"call", "building"} => wrapped = 0
               /\ \A n \in 1 .. Len(needed) : PlacedBy(t, n)

LazyInv ==
    /\ LazyTyped /\ Accounted
    /\ ~factory => wrapped # 0
    /\ \A t \in Users : PathOK(t) /\ SingleOK(t)
    /\ \A t, u \in Users : t # u => Apart(t, u)

LEMMA UseIs == ASSUME NEW u \in Uses PROVE u.echoes \in BOOLEAN
BY HandlersAssumption DEF La!LazyAssumption

LEMMA LazyBegins == ASSUME La!Init PROVE LazyInv
<1>1. /\ use \in Uses /\ wrapped = 0 /\ factory = TRUE /\ path = [t \in Users |-> <<>>]
      /\ holds = <<>> /\ needed = <<>> /\ thrown = {} /\ done = {}
    BY DEF La!Init, La!None
<1>2. LazyTyped
    BY <1>1, UseIs DEF LazyTyped
<1>3. \A t \in Users : path[t] = <<>> /\ Len(path[t]) = 0
    BY <1>1
<1>4. Accounted
    <2>1. {} \in SUBSET (1 .. Len(needed)) /\ Cardinality({}) = 0 /\ Len(holds) = 0 /\ Len(needed) = 0
        BY <1>1, FS_EmptySet
    <2>2. \A t \in Users : \A i \in 1 .. Len(path[t]) : path[t][i].id \in {}
        BY <1>3
    <2>. QED
        BY <2>1, <2>2 DEF Accounted
<1>5. ASSUME NEW t \in Users PROVE PathOK(t) /\ SingleOK(t)
    BY <1>1, <1>3 DEF PathOK, SingleOK
<1>6. ASSUME NEW t \in Users, NEW u \in Users PROVE Apart(t, u)
    BY <1>3 DEF Apart
<1>. QED
    BY <1>1, <1>2, <1>4, <1>5, <1>6 DEF LazyInv

\* A path whose innermost frame is another one.
LEMMA TopAnew ==
    ASSUME NEW q \in Seq(PathFrame), q # <<>>, NEW f \in PathFrame
    PROVE  /\ <<f>> \o Tail(q) \in Seq(PathFrame) /\ Len(<<f>> \o Tail(q)) = Len(q)
           /\ Len(q) \in Nat /\ Len(q) >= 1
           /\ (<<f>> \o Tail(q))[1] = f
           /\ \A i \in 2 .. Len(q) : (<<f>> \o Tail(q))[i] = q[i]
<1>1. /\ Tail(q) \in Seq(PathFrame) /\ Len(Tail(q)) = Len(q) - 1
      /\ \A i \in 1 .. Len(Tail(q)) : Tail(q)[i] = q[i + 1]
    BY HeadTailProperties
<1>2. Len(q) \in Nat /\ Len(q) >= 1
    OBVIOUS
<1>3. <<f>> \in Seq(PathFrame) /\ Len(<<f>>) = 1 /\ <<f>>[1] = f
    OBVIOUS
<1>4. PICK a0, b0 : a0 = <<f>> /\ b0 = Tail(q)
    OBVIOUS
<1>5. /\ a0 \o b0 \in Seq(PathFrame) /\ Len(a0 \o b0) = Len(a0) + Len(b0)
      /\ \A j \in 1 .. Len(a0) + Len(b0) :
             (a0 \o b0)[j] = IF j <= Len(a0) THEN a0[j] ELSE b0[j - Len(a0)]
    BY <1>1, <1>3, <1>4, ConcatProperties
<1>6. PICK c0 : c0 = a0 \o b0
    OBVIOUS
<1>7. Len(a0) = 1 /\ a0[1] = f /\ Len(b0) = Len(q) - 1 /\ \A i \in 1 .. Len(q) - 1 : b0[i] = q[i + 1]
    BY <1>1, <1>3, <1>4
<1>8. c0 \in Seq(PathFrame) /\ Len(c0) = Len(q) /\ c0[1] = f
    BY <1>2, <1>5, <1>6, <1>7
<1>9. ASSUME NEW i \in 2 .. Len(q) PROVE c0[i] = q[i]
    <2>1. i \in 1 .. 1 + (Len(q) - 1) /\ ~(i <= 1) /\ i - 1 \in 1 .. Len(q) - 1 /\ (i - 1) + 1 = i
        BY <1>2
    <2>. QED
        BY <1>5, <1>6, <1>7, <2>1
<1>. QED
    BY <1>2, <1>4, <1>6, <1>8, <1>9

\* The innermost frame.
LEMMA InnerIs ==
    ASSUME LazyInv, NEW t \in Users, path[t] # <<>>
    PROVE  /\ path[t] \in Seq(PathFrame) /\ La!Inner(t) \in PathFrame /\ La!Inner(t) = path[t][1]
           /\ Len(path[t]) \in {1, 2} /\ t \in use.threads
           /\ La!Inner(t).id \in 1 .. Len(needed)
<1>1. path[t] \in Seq(PathFrame) /\ PathOK(t)
    BY DEF LazyInv, LazyTyped
<1>2. Head(path[t]) = path[t][1] /\ Head(path[t]) \in PathFrame /\ Len(path[t]) \in Nat /\ Len(path[t]) >= 1
    BY <1>1
<1>3. PICK l \in Nat : l = Len(path[t])
    BY <1>2
<1>4. l <= 2 /\ l >= 1 /\ t \in use.threads
    BY <1>1, <1>2, <1>3 DEF PathOK
<1>5. l \in {1, 2}
    BY <1>4
<1>6. \A i \in 1 .. l : path[t][i].id \in 1 .. Len(needed)
    BY <1>1, <1>3 DEF PathOK
<1>7. path[t][1].id \in 1 .. Len(needed)
    BY <1>4, <1>6
<1>. QED
    BY <1>1, <1>2, <1>3, <1>4, <1>5, <1>7 DEF La!Inner

\* A thread whose innermost frame goes on: of its path, and of the others'.
LEMMA SetIs ==
    ASSUME LazyInv, NEW t \in Users, path[t] # <<>>, NEW f \in PathFrame, La!Set(t, f)
    PROVE  /\ path' \in [Users -> Seq(PathFrame)]
           /\ \A u \in Users : u # t => path'[u] = path[u]
           /\ Len(path'[t]) = Len(path[t]) /\ path'[t][1] = f
           /\ \A i \in 2 .. Len(path[t]) : path'[t][i] = path[t][i]
<1>1. path \in [Users -> Seq(PathFrame)] /\ path' = [path EXCEPT ![t] = <<f>> \o Tail(@)]
    BY DEF LazyInv, LazyTyped, La!Set
<1>2. PICK q \in Seq(PathFrame) : q = path[t]
    BY <1>1
<1>3. PICK r \in Seq(PathFrame) :
          /\ r = <<f>> \o Tail(q) /\ Len(r) = Len(q) /\ r[1] = f /\ \A i \in 2 .. Len(q) : r[i] = q[i]
    <2>1. q # <<>>
        BY <1>2
    <2>2. PICK r \in Seq(PathFrame) : r = <<f>> \o Tail(q)
        BY <2>1, TopAnew
    <2>. QED
        BY <2>1, <2>2, TopAnew
<1>4. path' = [path EXCEPT ![t] = r]
    BY <1>1, <1>2, <1>3
<1>5. path' \in [Users -> Seq(PathFrame)] /\ path'[t] = r /\ \A u \in Users : u # t => path'[u] = path[u]
    BY <1>1, <1>4
<1>. QED
    BY <1>2, <1>3, <1>5

\* A thread whose innermost frame is gone.
LEMMA GoneIs ==
    ASSUME LazyInv, NEW t \in Users, path[t] # <<>>, path' = [path EXCEPT ![t] = Tail(@)]
    PROVE  /\ path' \in [Users -> Seq(PathFrame)]
           /\ \A u \in Users : u # t => path'[u] = path[u]
           /\ Len(path'[t]) = Len(path[t]) - 1
           /\ Len(path[t]) = 2 => path'[t][1] = path[t][2]
<1>1. path \in [Users -> Seq(PathFrame)] /\ PathOK(t)
    BY DEF LazyInv, LazyTyped
<1>2. PICK q \in Seq(PathFrame) : q = path[t]
    BY <1>1
<1>3. PICK r \in Seq(PathFrame) :
          /\ r = Tail(q) /\ Len(r) = Len(q) - 1 /\ \A i \in 1 .. Len(r) : r[i] = q[i + 1]
    <2>1. q # <<>>
        BY <1>2
    <2>2. /\ Tail(q) \in Seq(PathFrame) /\ Len(Tail(q)) = Len(q) - 1
          /\ \A i \in 1 .. Len(Tail(q)) : Tail(q)[i] = q[i + 1]
        BY ONLY <2>1, q \in Seq(PathFrame), HeadTailProperties
    <2>. QED
        BY ONLY <2>2
<1>4. path' \in [Users -> Seq(PathFrame)] /\ path'[t] = r /\ \A u \in Users : u # t => path'[u] = path[u]
    BY <1>1, <1>2, <1>3
<1>. QED
    BY <1>2, <1>3, <1>4

\* The others are as they were.
LEMMA LookerOn ==
    ASSUME LazyInv, NEW t \in Users, NEW u \in Users, u # t, t \in use.threads, use' = use,
           path'[u] = path[u], Len(needed') \in Nat, Len(needed') >= Len(needed),
           Len(holds') \in Nat, Len(holds') >= Len(holds), wrapped # 0 => wrapped' # 0
    PROVE  PathOK(u)' /\ SingleOK(u)'
<1>1. PathOK(u) /\ LazyTyped
    BY DEF LazyInv
<1>2. use.threads # {u}
    OBVIOUS
<1>3. SingleOK(u)'
    BY <1>2 DEF SingleOK
<1>4. PICK l \in Nat, m \in Nat : l = Len(needed) /\ m = Len(holds)
    BY <1>1 DEF LazyTyped
<1>5. PathOK(u)'
    <2>1. ASSUME NEW i \in 1 .. Len(path[u])
          PROVE  /\ path[u][i].id \in 1 .. Len(needed')
                 /\ path[u][i].at \in {"install", "forget", "give"} => path[u][i].found \in 1 .. Len(holds')
                 /\ path[u][i].at = "forget" => wrapped' # 0
        BY <1>1, <1>4 DEF PathOK
    <2>. QED
        BY <1>1, <2>1 DEF PathOK
<1>. QED
    BY <1>3, <1>5

\* A step of one thread.
LEMMA OneUserSteps ==
    ASSUME LazyInv, LazyTyped', Accounted', NEW t \in Users, t \in use.threads, use' = use,
           \A u \in Users : u # t => path'[u] = path[u],
           Len(needed') >= Len(needed), Len(holds') >= Len(holds),
           wrapped # 0 => wrapped' # 0, ~factory' => wrapped' # 0,
           PathOK(t)', SingleOK(t)',
           \A i \in 1 .. Len(path'[t]) : path'[t][i].id \in 1 .. Len(needed) =>
               \E j \in 1 .. Len(path[t]) : path'[t][i].id = path[t][j].id
    PROVE  LazyInv'
<1>1. Len(needed') \in Nat /\ Len(holds') \in Nat
    BY DEF LazyTyped
<1>2. ASSUME NEW u \in Users, u # t PROVE PathOK(u)' /\ SingleOK(u)'
    BY <1>1, <1>2, LookerOn
<1>3. ASSUME NEW u \in Users, u # t, NEW i \in 1 .. Len(path'[t]), NEW j \in 1 .. Len(path[u])
      PROVE  path'[t][i].id # path[u][j].id
    <2>1. PathOK(u) /\ Apart(t, u)
        BY <1>3 DEF LazyInv
    <2>2. path[u][j].id \in 1 .. Len(needed)
        BY <2>1 DEF PathOK
    <2>3. \A k \in 1 .. Len(path[t]) : path[t][k].id # path[u][j].id
        BY <2>1 DEF Apart
    <2>. QED
        BY <2>2, <2>3
<1>4. ASSUME NEW u \in Users, NEW v \in Users, u # v PROVE Apart(u, v)'
    <2>1. CASE u = t
        BY <1>3, <1>4, <2>1 DEF Apart
    <2>2. CASE v = t
        BY <1>3, <1>4, <2>2 DEF Apart
    <2>3. CASE u # t /\ v # t
        <3>1. Apart(u, v)
            BY <1>4 DEF LazyInv
        <3>2. path'[u] = path[u] /\ path'[v] = path[v]
            BY <2>3
        <3>. QED
            BY ONLY <3>1, <3>2 DEF Apart
    <2>. QED
        BY <2>1, <2>2, <2>3
<1>. QED
    BY <1>2, <1>4 DEF LazyInv

\* Nothing is built, and no record comes: the account stays.
LEMMA AccountHeld ==
    ASSUME LazyInv, NEW t \in Users, \A u \in Users : u # t => path'[u] = path[u],
           Len(needed') = Len(needed), Len(holds') = Len(holds),
           \A i \in 1 .. Len(path'[t]) : path'[t][i].at \in Early =>
               \E j \in 1 .. Len(path[t]) : path[t][j].at \in Early /\ path'[t][i].id = path[t][j].id
    PROVE  Accounted'
<1>1. PICK P \in SUBSET (1 .. Len(needed)) :
          /\ Cardinality(P) + Len(holds) <= Len(needed)
          /\ \A u \in Users : \A i \in 1 .. Len(path[u]) : path[u][i].at \in Early => path[u][i].id \in P
    BY DEF LazyInv, Accounted
<1>2. ASSUME NEW u \in Users, NEW i \in 1 .. Len(path'[u]), path'[u][i].at \in Early
      PROVE  path'[u][i].id \in P
    <2>1. CASE u = t
        BY <1>1, <1>2, <2>1
    <2>2. CASE u # t
        BY <1>1, <1>2, <2>2
    <2>. QED
        BY <2>1, <2>2
<1>3. P \in SUBSET (1 .. Len(needed')) /\ Cardinality(P) + Len(holds') <= Len(needed')
    BY <1>1
<1>. QED
    BY <1>2, <1>3 DEF Accounted

Goes(t, there, n) == La!Set(t, [La!Inner(t) EXCEPT !.at = there, !.found = n])

\* A frame that has another place and another handler.
LEMMA FrameGoes ==
    ASSUME LazyInv, NEW t \in Users, path[t] # <<>>, NEW there \in Points, NEW n \in Nat,
           Goes(t, there, n)
    PROVE  \E f \in PathFrame : /\ La!Set(t, f) /\ f.at = there /\ f.found = n
                                /\ f.id = path[t][1].id /\ f.echoed = path[t][1].echoed
<1>1. path[t][1] \in PathFrame /\ La!Inner(t) = path[t][1]
    BY InnerIs
<1>2. PICK x \in PathFrame : x = path[t][1]
    BY <1>1
<1>3. PICK f : f = [x EXCEPT !.at = there, !.found = n]
    OBVIOUS
<1>4. x \in PathFrame /\ there \in Points /\ n \in Nat
    OBVIOUS
<1>5. f \in PathFrame
    BY ONLY <1>3, <1>4 DEF PathFrame
<1>6. f.at = there /\ f.found = n /\ f.id = x.id
    BY ONLY <1>3, <1>4 DEF PathFrame
<1>7. f.echoed = x.echoed
    BY ONLY <1>3, <1>4 DEF PathFrame
<1>8. La!Set(t, f)
    BY <1>1, <1>2, <1>3 DEF Goes
<1>. QED
    BY <1>2, <1>5, <1>6, <1>7, <1>8

\* A frame that has another place.
LEMMA FrameMoves ==
    ASSUME LazyInv, NEW t \in Users, path[t] # <<>>, NEW there \in Points, La!Move(t, there)
    PROVE  \E f \in PathFrame : /\ La!Set(t, f) /\ f.at = there /\ f.found = path[t][1].found
                                /\ f.id = path[t][1].id /\ f.echoed = path[t][1].echoed
<1>1. path[t][1] \in PathFrame /\ La!Inner(t) = path[t][1]
    BY InnerIs
<1>2. PICK x \in PathFrame : x = path[t][1]
    BY <1>1
<1>3. PICK f : f = [x EXCEPT !.at = there]
    OBVIOUS
<1>4. x \in PathFrame /\ there \in Points
    OBVIOUS
<1>5. f \in PathFrame
    BY ONLY <1>3, <1>4 DEF PathFrame
<1>6. f.at = there /\ f.found = x.found /\ f.id = x.id
    BY ONLY <1>3, <1>4 DEF PathFrame
<1>7. f.echoed = x.echoed
    BY ONLY <1>3, <1>4 DEF PathFrame
<1>8. La!Set(t, f)
    BY <1>1, <1>2, <1>3 DEF La!Move
<1>. QED
    BY <1>2, <1>5, <1>6, <1>7, <1>8

\* A record that is placed stays so.
LEMMA PlacedStays ==
    ASSUME NEW t \in Users, NEW n, PlacedBy(t, n), done \subseteq done', thrown \subseteq thrown',
           wrapped # 0 /\ n \in holds[wrapped] => n \in done' \/ (wrapped' # 0 /\ n \in holds'[wrapped']),
           Len(path[t]) = 1 /\ path[t][1].id = n =>
               \/ Len(path'[t]) = 1 /\ path'[t][1].id = n
               \/ \E x \in thrown' : x.id = n
               \/ wrapped' # 0 /\ n \in holds'[wrapped']
    PROVE  PlacedBy(t, n)'
BY DEF PlacedBy

\* A record goes on: the frame has another place, or another handler.
LEMMA GoesOn ==
    ASSUME LazyInv, NEW t \in Users, path[t] # <<>>, NEW f \in PathFrame, La!Set(t, f),
           f.id = path[t][1].id, f.echoed = path[t][1].echoed,
           use' = use, needed' = needed, done' = done, thrown' = thrown,
           wrapped' \in Nat, wrapped' <= Len(holds'), factory' \in BOOLEAN, holds' \in Seq(SUBSET Nat),
           Len(holds') >= Len(holds), wrapped # 0 => wrapped' # 0, ~factory' => wrapped' # 0,
           f.at \in {"install", "forget", "give"} => f.found \in 1 .. Len(holds'),
           f.at = "forget" => wrapped' # 0,
           f.at = "call" => factory',
           use.threads = {t} /\ ~use.echoes =>
               /\ Len(holds') <= 1
               /\ f.at = "install" => wrapped' = 0 /\ Len(holds') = 1
               /\ f.at # "install" => wrapped' = Len(holds')
               /\ f.at \in {"call", "building"} => wrapped' = 0
               /\ wrapped # 0 => wrapped' # 0 /\ holds[wrapped] \subseteq holds'[wrapped'],
           Accounted'
    PROVE  LazyInv'
<1>1. LazyTyped /\ PathOK(t) /\ SingleOK(t)
    BY DEF LazyInv
<1>2. Len(path[t]) \in {1, 2} /\ t \in use.threads
    BY InnerIs
<1>3. /\ path' \in [Users -> Seq(PathFrame)] /\ \A u \in Users : u # t => path'[u] = path[u]
      /\ Len(path'[t]) = Len(path[t]) /\ path'[t][1] = f
      /\ \A i \in 2 .. Len(path[t]) : path'[t][i] = path[t][i]
    BY SetIs
<1>4. LazyTyped'
    BY <1>1, <1>3 DEF LazyTyped
<1>5. ASSUME NEW i \in 1 .. Len(path'[t])
      PROVE  /\ path'[t][i].id = path[t][i].id /\ i \in 1 .. Len(path[t])
             /\ i = 1 \/ (i = 2 /\ Len(path[t]) = 2 /\ path'[t][i].at = "building")
    <2>1. CASE i = 1
        BY <1>2, <1>3, <2>1
    <2>2. CASE i # 1
        <3>1. i = 2 /\ Len(path[t]) = 2 /\ path'[t][i] = path[t][2]
            BY <1>2, <1>3, <2>2
        <3>. QED
            BY <1>1, <3>1 DEF PathOK
    <2>. QED
        BY <2>1, <2>2
<1>6. PathOK(t)'
    <2>1. ASSUME NEW i \in 1 .. Len(path'[t])
          PROVE  /\ path'[t][i].id \in 1 .. Len(needed')
                 /\ path'[t][i].at \in {"install", "forget", "give"} => path'[t][i].found \in 1 .. Len(holds')
                 /\ path'[t][i].at = "forget" => wrapped' # 0
        <3>1. path'[t][i].id \in 1 .. Len(needed')
            BY <1>1, <1>5 DEF PathOK
        <3>2. CASE i = 1
            BY <1>3, <3>1, <3>2
        <3>3. CASE path'[t][i].at = "building"
            BY <3>1, <3>3
        <3>. QED
            BY <1>5, <3>2, <3>3
    <2>2. Len(path'[t]) = 2 => path'[t][2] = path[t][2] /\ Len(path[t]) = 2
        BY <1>3
    <2>3. path'[t] # <<>> => t \in use'.threads
        BY <1>2
    <2>. QED
        BY <1>1, <1>2, <1>3, <2>1, <2>2, <2>3 DEF PathOK
<1>7. SingleOK(t)'
    <2>. SUFFICES ASSUME use.threads = {t} PROVE SingleOK(t)'
        BY DEF SingleOK
    <2>1. ASSUME NEW i \in 1 .. Len(path'[t]), path'[t][i].at = "call" PROVE factory'
        <3>1. path'[t][i] = f
            BY <1>3, <1>5, <2>1
        <3>. QED
            BY <2>1, <3>1
    <2>2. \A x \in thrown' : x.why = "factory"
        BY <1>1 DEF SingleOK
    <2>3. ASSUME ~use.echoes PROVE Len(path[t]) = 1 /\ \A n \in 1 .. Len(needed) : PlacedBy(t, n)
        BY <1>1, <1>2, <2>3 DEF SingleOK
    <2>4. ASSUME ~use.echoes, NEW n \in 1 .. Len(needed) PROVE PlacedBy(t, n)'
        <3>1. PlacedBy(t, n)
            BY <2>3, <2>4
        <3>2. wrapped # 0 /\ n \in holds[wrapped] => wrapped' # 0 /\ n \in holds'[wrapped']
            BY <2>4
        <3>3. Len(path'[t]) = 1 /\ path'[t][1].id = path[t][1].id
            BY <1>3, <2>3, <2>4
        <3>. QED
            BY <3>1, <3>2, <3>3, PlacedStays
    <2>5. ASSUME ~use.echoes
          PROVE  /\ Len(path'[t]) = 1 /\ Len(holds') <= 1
                 /\ path'[t][1].at = "install" => wrapped' = 0 /\ Len(holds') = 1
                 /\ path'[t][1].at # "install" => wrapped' = Len(holds')
                 /\ path'[t][1].at \in {"call", "building"} => wrapped' = 0
        BY <1>3, <2>3, <2>5
    <2>6. ASSUME ~use.echoes PROVE ~(Len(path'[t]) = 1 /\ path'[t][1].at = "install") => wrapped' = Len(holds')
        BY <2>5, <2>6
    <2>7. ASSUME ~use.echoes PROVE Len(path'[t]) <= 1
        <3>1. Len(path'[t]) = 1 /\ 1 <= 1
            BY <2>5, <2>7
        <3>. QED
            BY ONLY <3>1
    <2>. QED
        BY <2>1, <2>2, <2>4, <2>5, <2>6, <2>7 DEF SingleOK
<1>8. Len(needed') >= Len(needed)
    BY <1>1 DEF LazyTyped
<1>. QED
    BY <1>2, <1>3, <1>4, <1>5, <1>6, <1>7, <1>8, OneUserSteps

\* The account of a record that goes on without a handler being built.
LEMMA GoesOnAccount ==
    ASSUME LazyInv, NEW t \in Users, path[t] # <<>>, NEW f \in PathFrame, La!Set(t, f),
           f.id = path[t][1].id, f.at \in Early => path[t][1].at \in Early,
           needed' = needed, Len(holds') = Len(holds)
    PROVE  Accounted'
<1>1. Len(path[t]) \in {1, 2}
    BY InnerIs
<1>2. /\ \A u \in Users : u # t => path'[u] = path[u]
      /\ Len(path'[t]) = Len(path[t]) /\ path'[t][1] = f
      /\ \A i \in 2 .. Len(path[t]) : path'[t][i] = path[t][i]
    BY SetIs
<1>3. ASSUME NEW i \in 1 .. Len(path'[t]), path'[t][i].at \in Early
      PROVE  \E j \in 1 .. Len(path[t]) : path[t][j].at \in Early /\ path'[t][i].id = path[t][j].id
    <2>1. CASE i = 1
        BY <1>1, <1>2, <1>3, <2>1
    <2>2. CASE i # 1
        BY <1>1, <1>2, <1>3, <2>2
    <2>. QED
        BY <2>1, <2>2
<1>. QED
    BY <1>2, <1>3, AccountHeld

\* What is known of a single thread whose path is one frame.
LEMMA SingleIs ==
    ASSUME LazyInv, NEW t \in Users, path[t] # <<>>, use.threads = {t}, ~use.echoes
    PROVE  /\ Len(holds) <= 1
           /\ path[t][1].at = "install" => wrapped = 0 /\ Len(holds) = 1
           /\ path[t][1].at # "install" => wrapped = Len(holds)
           /\ path[t][1].at \in {"call", "building"} => wrapped = 0
<1>1. Len(path[t]) \in {1, 2}
    BY InnerIs
<1>2. SingleOK(t)
    BY DEF LazyInv
<1>. QED
    BY <1>1, <1>2 DEF SingleOK

LEMMA LookKeeps == ASSUME LazyInv, NEW t \in Users, La!Look(t) PROVE LazyInv'
<1>1. LazyTyped /\ (~factory => wrapped # 0) /\ SingleOK(t)
    BY DEF LazyInv
<1>2. /\ path[t] # <<>> /\ La!Inner(t).at = "look"
      /\ La!Set(t, [La!Inner(t) EXCEPT !.at = IF wrapped = 0 THEN "call" ELSE "give", !.found = wrapped])
      /\ use' = use /\ wrapped' = wrapped /\ factory' = factory /\ holds' = holds /\ done' = done
      /\ needed' = needed /\ thrown' = thrown
    BY DEF La!Look, La!At, La!None
<1>3. path[t][1] \in PathFrame /\ La!Inner(t) = path[t][1]
    BY <1>2, InnerIs
<1>4. wrapped \in Nat /\ wrapped <= Len(holds) /\ Len(holds) \in Nat
    BY <1>1 DEF LazyTyped
<1>5. PICK there \in Points : there = IF wrapped = 0 THEN "call" ELSE "give"
    BY DEF Points
<1>6. PICK f \in PathFrame : /\ La!Set(t, f) /\ f.at = there /\ f.found = wrapped
                             /\ f.id = path[t][1].id /\ f.echoed = path[t][1].echoed
    <2>1. PICK n \in Nat : n = wrapped
        BY <1>4
    <2>2. Goes(t, there, n)
        <3>1. PICK f : f = [La!Inner(t) EXCEPT !.at = there, !.found = n]
            OBVIOUS
        <3>2. f = [La!Inner(t) EXCEPT !.at = IF wrapped = 0 THEN "call" ELSE "give", !.found = wrapped]
            BY ONLY <1>5, <2>1, <3>1
        <3>3. La!Set(t, f)
            BY ONLY <1>2, <3>2, Zenon
        <3>. QED
            BY ONLY <3>1, <3>3, Zenon DEF Goes
    <2>3. PICK f \in PathFrame : /\ La!Set(t, f) /\ f.at = there /\ f.found = n
                                 /\ f.id = path[t][1].id /\ f.echoed = path[t][1].echoed
        BY <1>2, <2>2, FrameGoes
    <2>. QED
        BY <2>1, <2>3
<1>7. Accounted'
    BY <1>2, <1>3, <1>6, GoesOnAccount DEF Early
<1>8. use.threads = {t} /\ ~use.echoes => Len(holds) <= 1 /\ wrapped = Len(holds)
    BY <1>2, <1>3, SingleIs
<1>9. /\ f.at # "install" /\ f.at # "forget" /\ f.at # "building" /\ (f.at = "call" => factory /\ wrapped = 0)
      /\ f.at = "give" => f.found \in 1 .. Len(holds)
    BY <1>1, <1>4, <1>5, <1>6
<1>10. holds \in Seq(SUBSET Nat) /\ factory \in BOOLEAN
    BY <1>1 DEF LazyTyped
<1>. QED
    BY <1>1, <1>2, <1>4, <1>6, <1>7, <1>8, <1>9, <1>10, GoesOn

\* A record that is on its way no more: it was raised at, or a handler has it.
LEMMA Leaves ==
    ASSUME LazyInv, NEW t \in Users, path[t] # <<>>, path' = [path EXCEPT ![t] = Tail(@)],
           use' = use, wrapped' = wrapped, factory' = factory, needed' = needed, done' = done,
           holds' \in Seq(SUBSET Nat), Len(holds') = Len(holds),
           thrown' \subseteq [id : Nat, why : {"none", "factory"}], thrown \subseteq thrown',
           use.threads = {t} => \A x \in thrown' : x.why = "factory",
           use.threads = {t} /\ ~use.echoes =>
               /\ path[t][1].at # "install"
               /\ \/ \E x \in thrown' : x.id = path[t][1].id
                  \/ wrapped # 0 /\ path[t][1].id \in holds'[wrapped]
               /\ wrapped # 0 => holds[wrapped] \subseteq holds'[wrapped]
    PROVE  LazyInv'
<1>1. LazyTyped /\ PathOK(t) /\ SingleOK(t) /\ (~factory => wrapped # 0)
    BY DEF LazyInv
<1>2. Len(path[t]) \in {1, 2} /\ t \in use.threads /\ path[t] \in Seq(PathFrame)
    BY InnerIs
<1>3. /\ path' \in [Users -> Seq(PathFrame)] /\ \A u \in Users : u # t => path'[u] = path[u]
      /\ Len(path'[t]) = Len(path[t]) - 1 /\ (Len(path[t]) = 2 => path'[t][1] = path[t][2])
    BY GoneIs
<1>4. LazyTyped'
    BY <1>1, <1>3 DEF LazyTyped
<1>5. ASSUME NEW i \in 1 .. Len(path'[t])
      PROVE  i = 1 /\ Len(path[t]) = 2 /\ path'[t][i] = path[t][2] /\ path'[t][i].at = "building"
    <2>1. ASSUME Len(path[t]) = 1 PROVE FALSE
        <3>1. Len(path'[t]) = 0
            BY <1>3, <2>1
        <3>2. i \in 1 .. 0
            BY <3>1
        <3>. QED
            BY ONLY <3>2
    <2>2. ASSUME Len(path[t]) = 2 PROVE i = 1
        <3>1. Len(path'[t]) = 1
            BY <1>3, <2>2
        <3>2. i \in 1 .. 1
            BY <3>1
        <3>. QED
            BY ONLY <3>2
    <2>4. i = 1 /\ Len(path[t]) = 2
        BY <1>2, <2>1, <2>2
    <2>. QED
        BY <1>1, <1>3, <2>4 DEF PathOK
<1>6. PathOK(t)'
    <2>1. ASSUME NEW i \in 1 .. Len(path'[t])
          PROVE  path'[t][i].id \in 1 .. Len(needed') /\ path'[t][i].at = "building"
        <3>1. 2 \in 1 .. Len(path[t])
            BY <1>5
        <3>2. path[t][2].id \in 1 .. Len(needed)
            BY <1>1, <3>1 DEF PathOK
        <3>. QED
            BY <1>5, <3>2
    <2>2. Len(path'[t]) \in {0, 1}
        BY <1>2, <1>3
    <2>3. Len(path'[t]) <= 2 /\ Len(path'[t]) # 2
        <3>1. PICK m \in {0, 1} : m = Len(path'[t])
            BY <2>2
        <3>2. m <= 2 /\ m # 2
            BY ONLY m \in {0, 1}
        <3>. QED
            BY <3>1, <3>2
    <2>4. path'[t] # <<>> => t \in use'.threads
        BY <1>2
    <2>. QED
        BY <2>1, <2>3, <2>4 DEF PathOK
<1>7. Accounted'
    <2>1. ASSUME NEW i \in 1 .. Len(path'[t]), path'[t][i].at \in Early
          PROVE  \E j \in 1 .. Len(path[t]) : path[t][j].at \in Early /\ path'[t][i].id = path[t][j].id
        <3>1. 2 \in 1 .. Len(path[t]) /\ path'[t][i] = path[t][2]
            BY <1>5
        <3>. QED
            BY <2>1, <3>1
    <2>. QED
        BY <1>3, <2>1, AccountHeld
<1>8. SingleOK(t)'
    <2>. SUFFICES ASSUME use.threads = {t} PROVE SingleOK(t)'
        BY DEF SingleOK
    <2>1. \A i \in 1 .. Len(path'[t]) : path'[t][i].at # "call"
        BY <1>5
    <2>2. ASSUME ~use.echoes
          PROVE  /\ Len(path[t]) = 1 /\ \A n \in 1 .. Len(needed) : PlacedBy(t, n)
                 /\ Len(holds) <= 1 /\ wrapped = Len(holds)
        BY <1>1, <1>2, <2>2 DEF SingleOK
    <2>3. ASSUME ~use.echoes PROVE Len(path'[t]) = 0 /\ Len(path'[t]) <= 1 /\ Len(path'[t]) # 1
        <3>1. Len(path'[t]) = 0
            BY <1>3, <2>2, <2>3
        <3>. QED
            BY ONLY <3>1
    <2>4. ASSUME ~use.echoes, NEW n \in 1 .. Len(needed) PROVE PlacedBy(t, n)'
        <3>1. PlacedBy(t, n)
            BY <2>2, <2>4
        <3>2. wrapped # 0 /\ n \in holds[wrapped] => wrapped' # 0 /\ n \in holds'[wrapped']
            BY <2>4
        <3>3. path[t][1].id = n => (\E x \in thrown' : x.id = n) \/ (wrapped' # 0 /\ n \in holds'[wrapped'])
            BY <2>4
        <3>. QED
            BY <3>1, <3>2, <3>3, PlacedStays
    <2>5. ASSUME ~use.echoes PROVE Len(holds') <= 1 /\ wrapped' = Len(holds')
        BY <2>2, <2>5
    <2>. QED
        BY <2>1, <2>3, <2>4, <2>5 DEF SingleOK
<1>9. Len(needed') >= Len(needed) /\ Len(holds') >= Len(holds)
    BY <1>1 DEF LazyTyped
<1>10. \A i \in 1 .. Len(path'[t]) : \E j \in 1 .. Len(path[t]) : path'[t][i].id = path[t][j].id
    <2>1. ASSUME NEW i \in 1 .. Len(path'[t]) PROVE \E j \in 1 .. Len(path[t]) : path'[t][i].id = path[t][j].id
        <3>1. 2 \in 1 .. Len(path[t]) /\ path'[t][i] = path[t][2]
            BY <1>5
        <3>. QED
            BY <3>1
    <2>. QED
        BY <2>1
<1>. QED
    BY <1>1, <1>2, <1>3, <1>4, <1>6, <1>7, <1>8, <1>9, <1>10, OneUserSteps

\* What is thrown is a record's number, and why.
LEMMA ThrownIs ==
    ASSUME LazyInv, NEW t \in Users, path[t] # <<>>, NEW why \in {"none", "factory"}, La!Raised(t, why)
    PROVE  /\ path' = [path EXCEPT ![t] = Tail(@)]
           /\ thrown' \subseteq [id : Nat, why : {"none", "factory"}] /\ thrown \subseteq thrown'
           /\ \E x \in thrown' : x.id = path[t][1].id
           /\ \A x \in thrown' : x \in thrown \/ x.why = why
<1>1. La!Inner(t) \in PathFrame /\ La!Inner(t) = path[t][1]
    BY InnerIs
<1>2. PICK r : r = [id |-> La!Inner(t).id, why |-> why]
    OBVIOUS
<1>3. r \in [id : Nat, why : {"none", "factory"}] /\ r.id = path[t][1].id /\ r.why = why
    BY <1>1, <1>2 DEF PathFrame
<1>4. path' = [path EXCEPT ![t] = Tail(@)] /\ thrown' = thrown \cup {r}
    BY <1>2 DEF La!Raised
<1>5. thrown \subseteq [id : Nat, why : {"none", "factory"}]
    BY DEF LazyInv, LazyTyped
<1>. QED
    BY <1>3, <1>4, <1>5

LEMMA CallFactoryKeeps == ASSUME LazyInv, NEW t \in Users, La!CallFactory(t) PROVE LazyInv'
<1>1. LazyTyped /\ SingleOK(t) /\ (~factory => wrapped # 0)
    BY DEF LazyInv
<1>2. /\ path[t] # <<>> /\ La!Inner(t).at = "call"
      /\ IF factory THEN La!Move(t, "building") /\ thrown' = thrown ELSE La!Raised(t, "none")
      /\ use' = use /\ wrapped' = wrapped /\ factory' = factory /\ holds' = holds /\ done' = done
      /\ needed' = needed
    BY DEF La!CallFactory, La!At, La!AsItWas
<1>3. path[t][1] \in PathFrame /\ La!Inner(t) = path[t][1] /\ Len(path[t]) \in {1, 2}
    BY <1>2, InnerIs
<1>4. /\ wrapped \in Nat /\ wrapped <= Len(holds) /\ Len(holds) \in Nat /\ Len(holds) >= Len(holds)
      /\ holds \in Seq(SUBSET Nat) /\ factory \in BOOLEAN
    BY <1>1 DEF LazyTyped
<1>5. CASE factory
    <2>1. PICK f \in PathFrame : /\ La!Set(t, f) /\ f.at = "building"
                                 /\ f.id = path[t][1].id /\ f.echoed = path[t][1].echoed
        BY <1>2, <1>5, FrameMoves DEF Points
    <2>2. Accounted'
        BY <1>2, <1>3, <2>1, GoesOnAccount DEF Early
    <2>3. use.threads = {t} /\ ~use.echoes => Len(holds) <= 1 /\ wrapped = Len(holds) /\ wrapped = 0
        BY <1>2, <1>3, SingleIs
    <2>. QED
        BY <1>1, <1>2, <1>4, <1>5, <2>1, <2>2, <2>3, GoesOn
<1>6. CASE ~factory
    <2>1. use.threads # {t}
        <3>1. 1 \in 1 .. Len(path[t]) /\ path[t][1].at = "call"
            BY <1>2, <1>3
        <3>. QED
            BY <1>1, <1>6, <3>1 DEF SingleOK
    <2>2. La!Raised(t, "none")
        BY <1>2, <1>6
    <2>3. /\ path' = [path EXCEPT ![t] = Tail(@)]
          /\ thrown' \subseteq [id : Nat, why : {"none", "factory"}] /\ thrown \subseteq thrown'
        BY <1>2, <2>2, ThrownIs
    <2>. QED
        BY <1>2, <1>4, <2>1, <2>3, Leaves
<1>. QED
    BY <1>5, <1>6

LEMMA FactoryFailsKeeps == ASSUME LazyInv, NEW t \in Users, La!FactoryFails(t) PROVE LazyInv'
<1>1. LazyTyped /\ SingleOK(t)
    BY DEF LazyInv
<1>2. /\ path[t] # <<>> /\ La!Inner(t).at = "building" /\ La!Raised(t, "factory")
      /\ use' = use /\ wrapped' = wrapped /\ factory' = factory /\ holds' = holds /\ done' = done
      /\ needed' = needed
    BY DEF La!FactoryFails, La!At
<1>3. path[t][1] \in PathFrame /\ path[t][1].at # "install"
    BY <1>2, InnerIs
<1>4. holds \in Seq(SUBSET Nat)
    BY <1>1 DEF LazyTyped
<1>5. /\ path' = [path EXCEPT ![t] = Tail(@)]
      /\ thrown' \subseteq [id : Nat, why : {"none", "factory"}] /\ thrown \subseteq thrown'
      /\ \E x \in thrown' : x.id = path[t][1].id
      /\ \A x \in thrown' : x \in thrown \/ x.why = "factory"
    BY <1>2, ThrownIs
<1>6. use.threads = {t} => \A x \in thrown' : x.why = "factory"
    BY <1>1, <1>5 DEF SingleOK
<1>. QED
    BY <1>2, <1>3, <1>4, <1>5, <1>6, Leaves

LEMMA GiveKeeps == ASSUME LazyInv, NEW t \in Users, La!Give(t) PROVE LazyInv'
<1>1. LazyTyped /\ SingleOK(t) /\ PathOK(t)
    BY DEF LazyInv
<1>2. /\ path[t] # <<>> /\ La!Inner(t).at = "give"
      /\ holds' = [holds EXCEPT ![La!Inner(t).found] = @ \cup {La!Inner(t).id}]
      /\ path' = [path EXCEPT ![t] = Tail(@)]
      /\ use' = use /\ wrapped' = wrapped /\ factory' = factory /\ done' = done
      /\ needed' = needed /\ thrown' = thrown
    BY DEF La!Give, La!At
<1>3. /\ path[t][1] \in PathFrame /\ La!Inner(t) = path[t][1] /\ path[t][1].at = "give"
      /\ Len(path[t]) \in {1, 2}
    BY <1>2, InnerIs
<1>4. PICK k, n \in Nat : k = path[t][1].found /\ n = path[t][1].id
    BY <1>3 DEF PathFrame
<1>5. k \in 1 .. Len(holds)
    <2>1. 1 \in 1 .. Len(path[t])
        BY <1>3
    <2>. QED
        BY <1>1, <1>3, <1>4, <2>1 DEF PathOK
<1>6. holds \in Seq(SUBSET Nat) /\ thrown \subseteq [id : Nat, why : {"none", "factory"}]
    BY <1>1 DEF LazyTyped
<1>7. holds' = [holds EXCEPT ![k] = holds[k] \cup {n}]
    BY <1>2, <1>3, <1>4
<1>8. /\ holds' \in Seq(SUBSET Nat) /\ Len(holds') = Len(holds)
      /\ holds'[k] = holds[k] \cup {n} /\ \A i \in 1 .. Len(holds) : i # k => holds'[i] = holds[i]
    <2>1. holds[k] \cup {n} \in SUBSET Nat
        BY <1>5, <1>6
    <2>. QED
        BY <1>5, <1>6, <1>7, <2>1
<1>9. use.threads = {t} /\ ~use.echoes => wrapped = Len(holds) /\ Len(holds) <= 1
    BY <1>2, <1>3, SingleIs
<1>10. use.threads = {t} /\ ~use.echoes =>
           wrapped # 0 /\ n \in holds'[wrapped] /\ holds[wrapped] \subseteq holds'[wrapped]
    <2>. SUFFICES ASSUME use.threads = {t}, ~use.echoes
                  PROVE  wrapped # 0 /\ n \in holds'[wrapped] /\ holds[wrapped] \subseteq holds'[wrapped]
        OBVIOUS
    <2>1. Len(holds) \in Nat
        BY <1>6
    <2>2. wrapped = k /\ k # 0
        BY <1>5, <1>9, <2>1
    <2>. QED
        BY <1>8, <2>2
<1>11. use.threads = {t} => \A x \in thrown' : x.why = "factory"
    BY <1>1, <1>2 DEF SingleOK
<1>12. thrown \subseteq thrown'
    BY <1>2
<1>. QED
    BY <1>2, <1>3, <1>4, <1>6, <1>8, <1>10, <1>11, <1>12, Leaves
\* A handler is built: it is accounted for by the record that needed it.
LEMMA BuiltAccount ==
    ASSUME LazyInv, NEW t \in Users, path[t] # <<>>, NEW f \in PathFrame, La!Set(t, f),
           f.at = "install", path[t][1].at = "building",
           needed' = needed, Len(holds') = Len(holds) + 1
    PROVE  Accounted'
<1>1. PICK P \in SUBSET (1 .. Len(needed)) :
          /\ Cardinality(P) + Len(holds) <= Len(needed)
          /\ \A u \in Users : \A i \in 1 .. Len(path[u]) : path[u][i].at \in Early => path[u][i].id \in P
    BY DEF LazyInv, Accounted
<1>2. Len(path[t]) \in {1, 2} /\ 1 \in 1 .. Len(path[t]) /\ path[t][1].id \in 1 .. Len(needed)
    BY InnerIs
<1>3. PICK n \in 1 .. Len(needed) : n = path[t][1].id
    BY <1>2
<1>4. n \in P
    BY <1>1, <1>2, <1>3 DEF Early
<1>5. /\ \A u \in Users : u # t => path'[u] = path[u]
      /\ Len(path'[t]) = Len(path[t]) /\ path'[t][1] = f
      /\ \A i \in 2 .. Len(path[t]) : path'[t][i] = path[t][i]
    BY SetIs
<1>6. Cardinality(P \ {n}) + Len(holds') <= Len(needed')
    <2>1. Len(needed) \in Nat /\ Len(holds) \in Nat
        BY DEF LazyInv, LazyTyped
    <2>2. IsFiniteSet(P)
        <3>1. IsFiniteSet(1 .. Len(needed))
            BY <2>1, FS_Interval
        <3>. QED
            BY <3>1, FS_Subset
    <2>3. Cardinality(P \ {n}) = Cardinality(P) - 1 /\ Cardinality(P) \in Nat
        BY <1>4, <2>2, FS_RemoveElement, FS_CardinalityType
    <2>. QED
        BY <1>1, <2>1, <2>3
<1>7. ASSUME NEW u \in Users, NEW i \in 1 .. Len(path'[u]), path'[u][i].at \in Early
      PROVE  path'[u][i].id \in P \ {n}
    <2>1. CASE u # t
        <3>1. path'[u] = path[u] /\ path[u][i].id \in P
            BY <1>1, <1>5, <1>7, <2>1
        <3>2. Apart(t, u)
            BY <2>1 DEF LazyInv
        <3>3. path[u][i].id # n
            BY <1>2, <1>3, <1>7, <3>1, <3>2 DEF Apart
        <3>. QED
            BY <3>1, <3>3
    <2>2. CASE u = t
        <3>1. i # 1
            BY <1>5, <1>7, <2>2 DEF Early
        <3>2. i = 2 /\ Len(path[t]) = 2
            BY <1>2, <1>5, <2>2, <3>1
        <3>3. path'[u][i] = path[t][2] /\ 2 \in 1 .. Len(path[t])
            BY <1>5, <2>2, <3>2
        <3>4. path[t][1].id # path[t][2].id
            BY <3>2 DEF LazyInv, PathOK
        <3>. QED
            BY <1>1, <1>3, <1>7, <3>3, <3>4
    <2>. QED
        BY <2>1, <2>2
<1>8. P \ {n} \in SUBSET (1 .. Len(needed'))
    OBVIOUS
<1>. QED
    BY <1>6, <1>7, <1>8 DEF Accounted

LEMMA FactoryReturnsKeeps == ASSUME LazyInv, NEW t \in Users, La!FactoryReturns(t) PROVE LazyInv'
<1>1. LazyTyped /\ (~factory => wrapped # 0)
    BY DEF LazyInv
<1>2. /\ path[t] # <<>> /\ La!Inner(t).at = "building" /\ holds' = Append(holds, {})
      /\ La!Set(t, [La!Inner(t) EXCEPT !.at = "install", !.found = Len(holds')])
      /\ use' = use /\ wrapped' = wrapped /\ factory' = factory /\ done' = done
      /\ needed' = needed /\ thrown' = thrown
    BY DEF La!FactoryReturns, La!At
<1>3. path[t][1] \in PathFrame /\ La!Inner(t) = path[t][1] /\ path[t][1].at = "building"
    BY <1>2, InnerIs
<1>4. /\ wrapped \in Nat /\ wrapped <= Len(holds) /\ Len(holds) \in Nat
      /\ holds \in Seq(SUBSET Nat) /\ factory \in BOOLEAN
    BY <1>1 DEF LazyTyped
<1>5. holds' \in Seq(SUBSET Nat) /\ Len(holds') = Len(holds) + 1
    BY <1>2, <1>4
<1>6. PICK n \in Nat : n = Len(holds')
    BY <1>4, <1>5
<1>7. Goes(t, "install", n)
    BY <1>2, <1>6 DEF Goes
<1>8. PICK f \in PathFrame : /\ La!Set(t, f) /\ f.at = "install" /\ f.found = n
                             /\ f.id = path[t][1].id /\ f.echoed = path[t][1].echoed
    BY <1>2, <1>7, FrameGoes DEF Points
<1>9. Accounted'
    BY <1>2, <1>3, <1>5, <1>8, BuiltAccount
<1>10. use.threads = {t} /\ ~use.echoes => Len(holds) <= 1 /\ wrapped = Len(holds) /\ wrapped = 0
    BY <1>2, <1>3, SingleIs
<1>11. use.threads = {t} /\ ~use.echoes => Len(holds') <= 1 /\ wrapped' = 0 /\ Len(holds') = 1
    BY <1>2, <1>4, <1>5, <1>10
<1>12. f.found \in 1 .. Len(holds') /\ wrapped' <= Len(holds') /\ Len(holds') >= Len(holds)
    BY <1>2, <1>4, <1>5, <1>6, <1>8
<1>. QED
    BY <1>1, <1>2, <1>4, <1>5, <1>8, <1>9, <1>10, <1>11, <1>12, GoesOn

LEMMA InstallKeeps == ASSUME LazyInv, NEW t \in Users, La!Install(t) PROVE LazyInv'
<1>1. LazyTyped /\ PathOK(t)
    BY DEF LazyInv
<1>2. /\ path[t] # <<>> /\ La!Inner(t).at = "install" /\ La!Move(t, "forget")
      /\ wrapped' = La!Inner(t).found
      /\ use' = use /\ factory' = factory /\ holds' = holds /\ done' = done
      /\ needed' = needed /\ thrown' = thrown
    BY DEF La!Install, La!At, La!Kept
<1>3. /\ path[t][1] \in PathFrame /\ La!Inner(t) = path[t][1] /\ path[t][1].at = "install"
      /\ 1 \in 1 .. Len(path[t])
    BY <1>2, InnerIs
<1>4. Len(holds) \in Nat /\ holds \in Seq(SUBSET Nat) /\ factory \in BOOLEAN
    BY <1>1 DEF LazyTyped
<1>5. wrapped' \in 1 .. Len(holds)
    BY <1>1, <1>2, <1>3 DEF PathOK
<1>6. wrapped' \in Nat /\ wrapped' # 0 /\ wrapped' <= Len(holds) /\ Len(holds') >= Len(holds)
    BY <1>2, <1>4, <1>5
<1>7. PICK f \in PathFrame : /\ La!Set(t, f) /\ f.at = "forget"
                             /\ f.id = path[t][1].id /\ f.echoed = path[t][1].echoed
                             /\ f.found = path[t][1].found
    BY <1>2, FrameMoves DEF Points
<1>8. Accounted'
    BY <1>2, <1>3, <1>7, GoesOnAccount DEF Early
<1>9. use.threads = {t} /\ ~use.echoes => Len(holds) <= 1 /\ wrapped = 0 /\ Len(holds) = 1
    BY <1>2, <1>3, SingleIs
<1>10. use.threads = {t} /\ ~use.echoes => wrapped' = Len(holds')
    BY <1>2, <1>5, <1>9
<1>11. f.found \in 1 .. Len(holds')
    BY <1>2, <1>3, <1>5, <1>7
<1>. QED
    BY <1>1, <1>2, <1>4, <1>6, <1>7, <1>8, <1>9, <1>10, <1>11, GoesOn

LEMMA ForgetKeeps == ASSUME LazyInv, NEW t \in Users, La!Forget(t) PROVE LazyInv'
<1>1. LazyTyped /\ PathOK(t)
    BY DEF LazyInv
<1>2. /\ path[t] # <<>> /\ La!Inner(t).at = "forget" /\ La!Move(t, "give")
      /\ factory' = FALSE
      /\ use' = use /\ wrapped' = wrapped /\ holds' = holds /\ done' = done
      /\ needed' = needed /\ thrown' = thrown
    BY DEF La!Forget, La!At
<1>3. /\ path[t][1] \in PathFrame /\ La!Inner(t) = path[t][1] /\ path[t][1].at = "forget"
      /\ 1 \in 1 .. Len(path[t])
    BY <1>2, InnerIs
<1>4. /\ Len(holds) \in Nat /\ holds \in Seq(SUBSET Nat) /\ Len(holds) >= Len(holds)
      /\ wrapped \in Nat /\ wrapped <= Len(holds)
    BY <1>1 DEF LazyTyped
<1>5. wrapped # 0 /\ path[t][1].found \in 1 .. Len(holds)
    BY <1>1, <1>3 DEF PathOK
<1>6. PICK f \in PathFrame : /\ La!Set(t, f) /\ f.at = "give"
                             /\ f.id = path[t][1].id /\ f.echoed = path[t][1].echoed
                             /\ f.found = path[t][1].found
    BY <1>2, FrameMoves DEF Points
<1>7. Accounted'
    BY <1>2, <1>3, <1>6, GoesOnAccount DEF Early
<1>8. use.threads = {t} /\ ~use.echoes => Len(holds) <= 1 /\ wrapped = Len(holds)
    BY <1>2, <1>3, SingleIs
<1>. QED
    BY <1>1, <1>2, <1>4, <1>5, <1>6, <1>7, <1>8, GoesOn
\* A record comes: it is accounted for.
LEMMA ComesAccount ==
    ASSUME LazyInv, NEW t \in Users, \A u \in Users : u # t => path'[u] = path[u],
           Len(needed') = Len(needed) + 1, Len(holds') = Len(holds),
           \A i \in 1 .. Len(path'[t]) :
               \/ path'[t][i].id = Len(needed) + 1
               \/ \E j \in 1 .. Len(path[t]) : path[t][j].at \in Early /\ path'[t][i].id = path[t][j].id
    PROVE  Accounted'
<1>1. PICK P \in SUBSET (1 .. Len(needed)) :
          /\ Cardinality(P) + Len(holds) <= Len(needed)
          /\ \A u \in Users : \A i \in 1 .. Len(path[u]) : path[u][i].at \in Early => path[u][i].id \in P
    BY DEF LazyInv, Accounted
<1>2. Len(needed) \in Nat /\ Len(holds) \in Nat
    BY DEF LazyInv, LazyTyped
<1>3. PICK n \in Nat : n = Len(needed) + 1
    BY <1>2
<1>4. Cardinality(P \cup {n}) + Len(holds') <= Len(needed')
    <2>1. IsFiniteSet(P)
        <3>1. IsFiniteSet(1 .. Len(needed))
            BY <1>2, FS_Interval
        <3>. QED
            BY <3>1, FS_Subset
    <2>2. n \notin P
        BY <1>2, <1>3
    <2>3. Cardinality(P \cup {n}) = Cardinality(P) + 1 /\ Cardinality(P) \in Nat
        BY <2>1, <2>2, FS_AddElement, FS_CardinalityType
    <2>. QED
        BY <1>1, <1>2, <2>3
<1>5. ASSUME NEW u \in Users, NEW i \in 1 .. Len(path'[u]), path'[u][i].at \in Early
      PROVE  path'[u][i].id \in P \cup {n}
    <2>1. CASE u # t
        BY <1>1, <1>5, <2>1
    <2>2. CASE u = t
        BY <1>1, <1>3, <1>5, <2>2
    <2>. QED
        BY <2>1, <2>2
<1>6. P \cup {n} \in SUBSET (1 .. Len(needed'))
    <2>1. PICK l \in Nat : l = Len(needed)
        BY <1>2
    <2>2. \A p \in P \cup {n} : p \in 1 .. l + 1
        BY <1>3, <2>1
    <2>3. Len(needed') = l + 1
        BY <2>1
    <2>. QED
        BY <2>2, <2>3
<1>. QED
    BY <1>4, <1>5, <1>6 DEF Accounted

\* A record comes, by itself or from the factory that another one needed.
LEMMA Comes ==
    ASSUME LazyInv, NEW t \in Users, t \in use.threads, NEW level \in Severities,
           needed' = Append(needed, level),
           path' \in [Users -> Seq(PathFrame)], \A u \in Users : u # t => path'[u] = path[u],
           path'[t][1].at = "look", path'[t][1].id = Len(needed) + 1,
           \/ Len(path[t]) = 0 /\ Len(path'[t]) = 1
           \/ /\ use.echoes /\ Len(path[t]) = 1 /\ Len(path'[t]) = 2
              /\ path'[t][1].echoed /\ path'[t][2].echoed
              /\ path[t][1].at = "building" /\ path'[t][2].at = "building"
              /\ path'[t][2].id = path[t][1].id,
           use' = use, wrapped' = wrapped, factory' = factory, holds' = holds, done' = done, thrown' = thrown
    PROVE  LazyInv'
<1>1. LazyTyped /\ PathOK(t) /\ SingleOK(t) /\ (~factory => wrapped # 0)
    BY DEF LazyInv
<1>2. needed \in Seq(Severities) /\ Len(needed) \in Nat /\ Len(holds) \in Nat
    BY <1>1 DEF LazyTyped
<1>3. needed' \in Seq(Severities) /\ Len(needed') = Len(needed) + 1
    BY <1>2
<1>4. LazyTyped'
    BY <1>1, <1>3 DEF LazyTyped
<1>5. Len(path[t]) = 0 \/ Len(path[t]) = 1
    OBVIOUS
<1>6. ASSUME Len(path[t]) = 1 PROVE path[t][1].id \in 1 .. Len(needed) /\ 1 \in 1 .. Len(path[t])
    BY <1>1, <1>6 DEF PathOK
<1>7. ASSUME NEW i \in 1 .. Len(path'[t])
      PROVE  /\ path'[t][i].id \in 1 .. Len(needed') /\ path'[t][i].at \in {"look", "building"}
             /\ \/ path'[t][i].id = Len(needed) + 1
                \/ Len(path[t]) = 1 /\ path[t][1].at = "building" /\ path'[t][i].id = path[t][1].id
    <2>1. CASE i = 1
        BY <1>2, <1>3, <2>1
    <2>2. CASE i # 1
        <3>1. i = 2 /\ Len(path'[t]) = 2
            <4>1. PICK m \in {1, 2} : m = Len(path'[t])
                OBVIOUS
            <4>2. i \in 1 .. m
                BY <4>1
            <4>3. i = 2 /\ m = 2
                BY ONLY <2>2, <4>2, m \in {1, 2}
            <4>. QED
                BY <4>1, <4>3
        <3>2. Len(path[t]) = 1 /\ path'[t][2].id = path[t][1].id
            BY <3>1
        <3>. QED
            BY <1>2, <1>3, <1>6, <3>1, <3>2
    <2>. QED
        BY <2>1, <2>2
<1>8. PathOK(t)'
    <2>1. Len(path'[t]) <= 2
        <3>1. Len(path'[t]) \in {1, 2}
            OBVIOUS
        <3>2. PICK m \in {1, 2} : m = Len(path'[t])
            BY <3>1
        <3>3. m <= 2
            BY ONLY m \in {1, 2}
        <3>. QED
            BY <3>2, <3>3
    <2>2. ASSUME Len(path'[t]) = 2
          PROVE  /\ path'[t][1].echoed /\ path'[t][2].echoed /\ use'.echoes
                 /\ path'[t][2].at = "building" /\ path'[t][1].id # path'[t][2].id
        <3>1. /\ path'[t][1].echoed /\ path'[t][2].echoed /\ use.echoes /\ path'[t][2].at = "building"
              /\ Len(path[t]) = 1 /\ path'[t][2].id = path[t][1].id
            BY <2>2
        <3>2. path'[t][2].id # Len(needed) + 1
            BY <1>2, <1>6, <3>1
        <3>. QED
            BY <3>1, <3>2
    <2>. QED
        BY <1>7, <2>1, <2>2 DEF PathOK
<1>9. Accounted'
    <2>1. ASSUME NEW i \in 1 .. Len(path'[t])
          PROVE  \/ path'[t][i].id = Len(needed) + 1
                 \/ \E j \in 1 .. Len(path[t]) : path[t][j].at \in Early /\ path'[t][i].id = path[t][j].id
        BY <1>6, <1>7 DEF Early
    <2>2. Len(holds') = Len(holds)
        OBVIOUS
    <2>. QED
        BY <1>3, <2>1, <2>2, ComesAccount
<1>10. SingleOK(t)'
    <2>. SUFFICES ASSUME use.threads = {t} PROVE SingleOK(t)'
        BY DEF SingleOK
    <2>1. \A i \in 1 .. Len(path'[t]) : path'[t][i].at # "call"
        BY <1>7
    <2>2. \A x \in thrown' : x.why = "factory"
        BY <1>1 DEF SingleOK
    <2>3. ASSUME ~use.echoes
          PROVE  /\ Len(path[t]) = 0 /\ Len(path'[t]) = 1 /\ Len(holds) <= 1
                 /\ \A n \in 1 .. Len(needed) : PlacedBy(t, n)
        BY <1>1, <2>3 DEF SingleOK
    <2>4. ASSUME ~use.echoes PROVE wrapped = Len(holds)
        <3>1. Len(path[t]) # 1
            BY <2>3, <2>4
        <3>. QED
            BY <1>1, <2>4, <3>1 DEF SingleOK
    <2>5. ASSUME ~use.echoes, NEW n \in 1 .. Len(needed') PROVE PlacedBy(t, n)'
        <3>1. CASE n = Len(needed) + 1
            BY <2>3, <2>5, <3>1 DEF PlacedBy
        <3>2. CASE n # Len(needed) + 1
            <4>1. n \in 1 .. Len(needed)
                BY <1>2, <1>3, <2>5, <3>2
            <4>2. PlacedBy(t, n) /\ Len(path[t]) # 1
                BY <2>3, <2>5, <4>1
            <4>. QED
                BY <4>2 DEF PlacedBy
        <3>. QED
            BY <3>1, <3>2
    <2>6. ASSUME ~use.echoes PROVE Len(path'[t]) <= 1
        <3>1. Len(path'[t]) = 1 /\ 1 <= 1
            BY <2>3, <2>6
        <3>. QED
            BY ONLY <3>1
    <2>7. ASSUME ~use'.echoes
          PROVE  /\ Len(path'[t]) <= 1 /\ Len(holds') <= 1 /\ wrapped' = Len(holds')
                 /\ ~(Len(path'[t]) = 1 /\ path'[t][1].at \in {"install", "call", "building"})
                 /\ \A n \in 1 .. Len(needed') : PlacedBy(t, n)'
        <3>1. ~use.echoes /\ Len(holds') = Len(holds) /\ wrapped' = wrapped /\ path'[t][1].at = "look"
            BY <2>7
        <3>. QED
            BY <2>3, <2>4, <2>5, <2>6, <3>1
    <2>. QED
        BY <2>1, <2>2, <2>7 DEF SingleOK
<1>11. \A i \in 1 .. Len(path'[t]) : path'[t][i].id \in 1 .. Len(needed) =>
           \E j \in 1 .. Len(path[t]) : path'[t][i].id = path[t][j].id
    BY <1>2, <1>6, <1>7
<1>12. Len(needed') >= Len(needed) /\ Len(holds') >= Len(holds)
    BY <1>2, <1>3
<1>. QED
    BY <1>1, <1>4, <1>8, <1>9, <1>10, <1>11, <1>12, OneUserSteps
\* One frame, alone or before another one.
LEMMA OneAlone ==
    ASSUME NEW r \in PathFrame
    PROVE  <<r>> \o <<>> \in Seq(PathFrame) /\ Len(<<r>> \o <<>>) = 1 /\ (<<r>> \o <<>>)[1] = r
<1>1. PICK a0, b0 : a0 = <<r>> /\ b0 = <<>>
    OBVIOUS
<1>2. a0 \in Seq(PathFrame) /\ b0 \in Seq(PathFrame) /\ Len(a0) = 1 /\ a0[1] = r /\ Len(b0) = 0
    BY <1>1
<1>3. /\ a0 \o b0 \in Seq(PathFrame) /\ Len(a0 \o b0) = Len(a0) + Len(b0)
      /\ \A j \in 1 .. Len(a0) + Len(b0) :
             (a0 \o b0)[j] = IF j <= Len(a0) THEN a0[j] ELSE b0[j - Len(a0)]
    BY <1>2, ConcatProperties
<1>. QED
    BY <1>1, <1>2, <1>3

LEMMA TwoTogether ==
    ASSUME NEW r \in PathFrame, NEW f \in PathFrame
    PROVE  /\ <<r>> \o <<f>> \in Seq(PathFrame) /\ Len(<<r>> \o <<f>>) = 2
           /\ (<<r>> \o <<f>>)[1] = r /\ (<<r>> \o <<f>>)[2] = f
<1>1. PICK a0, b0 : a0 = <<r>> /\ b0 = <<f>>
    OBVIOUS
<1>2. /\ a0 \in Seq(PathFrame) /\ b0 \in Seq(PathFrame) /\ Len(a0) = 1 /\ a0[1] = r
      /\ Len(b0) = 1 /\ b0[1] = f
    BY <1>1
<1>3. /\ a0 \o b0 \in Seq(PathFrame) /\ Len(a0 \o b0) = Len(a0) + Len(b0)
      /\ \A j \in 1 .. Len(a0) + Len(b0) :
             (a0 \o b0)[j] = IF j <= Len(a0) THEN a0[j] ELSE b0[j - Len(a0)]
    BY <1>2, ConcatProperties
<1>4. Len(a0 \o b0) = 2
    BY <1>2, <1>3
<1>5. (a0 \o b0)[1] = r /\ (a0 \o b0)[2] = f
    BY <1>2, <1>3
<1>. QED
    BY <1>1, <1>3, <1>4, <1>5

\* The frame of a record that comes.
LEMMA FrameComes ==
    ASSUME NEW n \in Nat, NEW e \in BOOLEAN, NEW r,
           r = [at |-> "look", id |-> n, found |-> 0, echoed |-> e]
    PROVE  r \in PathFrame /\ r.at = "look" /\ r.id = n /\ r.echoed = e
BY DEF PathFrame, Points

LEMMA LazyLogKeeps == ASSUME LazyInv, NEW t \in Users, NEW level \in Severities, La!Log(t, level) PROVE LazyInv'
<1>1. LazyTyped
    BY DEF LazyInv
<1>2. /\ t \in use.threads /\ path[t] = <<>> /\ needed' = Append(needed, level)
      /\ path' = [path EXCEPT ![t] = <<[at |-> "look", id |-> Len(needed'), found |-> 0,
                                        echoed |-> <<>> # <<>>]>> \o <<>>]
      /\ use' = use /\ wrapped' = wrapped /\ factory' = factory /\ holds' = holds /\ done' = done
      /\ thrown' = thrown
    BY DEF La!Log, La!Enter, La!None
<1>3. Len(needed) \in Nat /\ Len(needed') = Len(needed) + 1 /\ path \in [Users -> Seq(PathFrame)]
    BY <1>1, <1>2 DEF LazyTyped
<1>4. PICK n \in Nat : n = Len(needed') /\ n = Len(needed) + 1
    BY <1>3
<1>5. PICK e \in BOOLEAN : e = (<<>> # <<>>)
    OBVIOUS
<1>6. PICK r : r = [at |-> "look", id |-> n, found |-> 0, echoed |-> e]
    OBVIOUS
<1>7. r \in PathFrame /\ r.at = "look" /\ r.id = n
    BY <1>6, FrameComes
<1>8. path' = [path EXCEPT ![t] = <<r>> \o <<>>]
    BY <1>2, <1>4, <1>5, <1>6
<1>9. PICK q \in Seq(PathFrame) : q = <<r>> \o <<>> /\ Len(q) = 1 /\ q[1] = r
    BY <1>7, OneAlone
<1>10. path' \in [Users -> Seq(PathFrame)] /\ path'[t] = q /\ \A u \in Users : u # t => path'[u] = path[u]
    BY <1>3, <1>8, <1>9
<1>11. Len(path[t]) = 0 /\ Len(path'[t]) = 1 /\ path'[t][1].at = "look" /\ path'[t][1].id = Len(needed) + 1
    BY <1>2, <1>4, <1>7, <1>9, <1>10
<1>. QED
    BY <1>2, <1>10, <1>11, Comes

LEMMA EchoKeeps == ASSUME LazyInv, NEW t \in Users, NEW level \in Severities, La!Echo(t, level) PROVE LazyInv'
<1>1. LazyTyped /\ PathOK(t)
    BY DEF LazyInv
<1>2. /\ path[t] # <<>> /\ La!Inner(t).at = "building" /\ use.echoes /\ ~La!Inner(t).echoed
      /\ needed' = Append(needed, level)
      /\ path' = [path EXCEPT ![t] = <<[at |-> "look", id |-> Len(needed'), found |-> 0,
                                        echoed |-> <<[La!Inner(t) EXCEPT !.echoed = TRUE]>> # <<>>]>>
                                     \o <<[La!Inner(t) EXCEPT !.echoed = TRUE]>>]
      /\ use' = use /\ wrapped' = wrapped /\ factory' = factory /\ holds' = holds /\ done' = done
      /\ thrown' = thrown
    BY DEF La!Echo, La!Enter, La!None, La!At
<1>3. Len(needed) \in Nat /\ Len(needed') = Len(needed) + 1 /\ path \in [Users -> Seq(PathFrame)]
    BY <1>1, <1>2 DEF LazyTyped
<1>4. /\ path[t][1] \in PathFrame /\ La!Inner(t) = path[t][1] /\ Len(path[t]) \in {1, 2}
      /\ t \in use.threads
    BY <1>2, InnerIs
<1>5. Len(path[t]) = 1
    BY <1>1, <1>2, <1>4 DEF PathOK
<1>6. PICK x \in PathFrame : x = path[t][1]
    BY <1>4
<1>7. PICK f : f = [x EXCEPT !.echoed = TRUE]
    OBVIOUS
<1>8. f \in PathFrame
    BY ONLY <1>7, x \in PathFrame DEF PathFrame
<1>9. f.at = x.at /\ f.id = x.id
    BY ONLY <1>7, x \in PathFrame DEF PathFrame
<1>10. f.echoed = TRUE
    BY ONLY <1>7, x \in PathFrame DEF PathFrame
<1>11. PICK n \in Nat : n = Len(needed') /\ n = Len(needed) + 1
    BY <1>3
<1>12. PICK r : r = [at |-> "look", id |-> n, found |-> 0, echoed |-> TRUE]
    OBVIOUS
<1>13. r \in PathFrame /\ r.at = "look" /\ r.id = n /\ r.echoed = TRUE
    <2>1. TRUE \in BOOLEAN
        OBVIOUS
    <2>. QED
        BY <1>12, <2>1, FrameComes
<1>14. path' = [path EXCEPT ![t] = <<r>> \o <<f>>]
    <2>1. (<<[La!Inner(t) EXCEPT !.echoed = TRUE]>> # <<>>) = TRUE
        OBVIOUS
    <2>2. <<[La!Inner(t) EXCEPT !.echoed = TRUE]>> = <<f>>
        BY <1>4, <1>6, <1>7
    <2>. QED
        BY <1>2, <1>11, <1>12, <2>1, <2>2
<1>15. PICK q \in Seq(PathFrame) : q = <<r>> \o <<f>> /\ Len(q) = 2 /\ q[1] = r /\ q[2] = f
    <2>1. r \in PathFrame /\ f \in PathFrame
        BY <1>8, <1>13
    <2>2. /\ <<r>> \o <<f>> \in Seq(PathFrame) /\ Len(<<r>> \o <<f>>) = 2
          /\ (<<r>> \o <<f>>)[1] = r /\ (<<r>> \o <<f>>)[2] = f
        BY ONLY <2>1, TwoTogether, Zenon
    <2>3. PICK q : q = <<r>> \o <<f>>
        OBVIOUS
    <2>4. q \in Seq(PathFrame) /\ Len(q) = 2 /\ q[1] = r /\ q[2] = f
        BY ONLY <2>2, <2>3, Zenon
    <2>. QED
        BY ONLY <2>3, <2>4, Zenon
<1>16. path' \in [Users -> Seq(PathFrame)] /\ path'[t] = q /\ \A u \in Users : u # t => path'[u] = path[u]
    BY <1>3, <1>14, <1>15
<1>17. /\ Len(path'[t]) = 2 /\ path'[t][1].at = "look" /\ path'[t][1].id = Len(needed) + 1
       /\ path'[t][1].echoed
    BY <1>11, <1>13, <1>15, <1>16
<1>18. /\ path[t][1].at = "building" /\ path'[t][2].at = "building" /\ path'[t][2].echoed
       /\ path'[t][2].id = path[t][1].id
    BY <1>2, <1>4, <1>6, <1>9, <1>10, <1>15, <1>16
<1>. QED
    BY <1>2, <1>4, <1>5, <1>16, <1>17, <1>18, Comes

\* Nothing that matters here happens.
LEMMA LazyStays ==
    ASSUME LazyInv, use' = use, wrapped' = wrapped, factory' = factory, path' = path, holds' = holds,
           done' = done, needed' = needed, thrown' = thrown
    PROVE  LazyInv'
<1>1. LazyTyped' /\ Accounted' /\ (~factory' => wrapped' # 0)
    BY DEF LazyInv, LazyTyped, Accounted
<1>2. ASSUME NEW t \in Users PROVE PathOK(t)' /\ SingleOK(t)'
    BY DEF LazyInv, PathOK, SingleOK, PlacedBy
<1>3. ASSUME NEW t \in Users, NEW u \in Users, t # u PROVE Apart(t, u)'
    BY <1>3 DEF LazyInv, Apart
<1>. QED
    BY <1>1, <1>2, <1>3 DEF LazyInv

LEMMA AcceptKeeps ==
    ASSUME LazyInv, NEW t \in Users, NEW levels \in SUBSET Severities, La!SetAcceptedLevels(t, levels)
    PROVE  LazyInv'
<1>1. /\ use' = use /\ wrapped' = wrapped /\ factory' = factory /\ path' = path /\ holds' = holds
      /\ done' = done /\ needed' = needed /\ thrown' = thrown
    BY DEF La!SetAcceptedLevels
<1>. QED
    BY <1>1, LazyStays

LEMMA SettleKeeps == ASSUME LazyInv, NEW t \in Users, La!Settle(t) PROVE LazyInv'
<1>1. LazyTyped /\ PathOK(t) /\ SingleOK(t) /\ (~factory => wrapped # 0)
    BY DEF LazyInv
<1>2. /\ t \in use.threads /\ path[t] = <<>> /\ wrapped' = wrapped
      /\ IF wrapped = 0 THEN holds' = holds /\ done' = done
         ELSE /\ holds' = [holds EXCEPT ![wrapped] = {}]
              /\ done' = done \cup holds[wrapped]
      /\ use' = use /\ factory' = factory /\ path' = path /\ needed' = needed /\ thrown' = thrown
    BY DEF La!Settle, La!Idle, La!Wrapping, La!AsBuilt, La!None
<1>3. CASE wrapped = 0
    <2>1. holds' = holds /\ done' = done
        BY <1>2, <1>3
    <2>. QED
        BY <1>2, <2>1, LazyStays
<1>4. CASE wrapped # 0
    <2>1. /\ holds \in Seq(SUBSET Nat) /\ Len(holds) \in Nat /\ wrapped \in 1 .. Len(holds)
          /\ done \subseteq Nat /\ Len(needed) \in Nat
        BY <1>1, <1>4 DEF LazyTyped
    <2>2. holds' = [holds EXCEPT ![wrapped] = {}] /\ done' = done \cup holds[wrapped]
        BY <1>2, <1>4
    <2>3. holds' \in Seq(SUBSET Nat) /\ Len(holds') = Len(holds)
        <3>1. PICK k \in 1 .. Len(holds) : k = wrapped
            BY <2>1
        <3>2. {} \in SUBSET Nat
            OBVIOUS
        <3>. QED
            BY <2>1, <2>2, <3>1, <3>2
    <2>4. holds[wrapped] \subseteq Nat
        BY <2>1
    <2>5. LazyTyped'
        BY <1>1, <1>2, <2>2, <2>3, <2>4 DEF LazyTyped
    <2>6. Accounted'
        BY <1>2, <2>3 DEF LazyInv, Accounted
    <2>7. PathOK(t)'
        BY <1>1, <1>2, <2>3 DEF PathOK
    <2>8. SingleOK(t)'
        <3>1. Len(path[t]) = 0
            BY <1>2
        <3>2. ASSUME use.threads = {t}, ~use.echoes, NEW n \in 1 .. Len(needed) PROVE PlacedBy(t, n)'
            <4>1. PlacedBy(t, n)
                BY <1>1, <3>2 DEF SingleOK
            <4>2. Len(path[t]) # 1
                BY <3>1
            <4>. QED
                BY <1>2, <2>2, <4>1, <4>2 DEF PlacedBy
        <3>. QED
            BY <1>1, <1>2, <2>3, <3>1, <3>2 DEF SingleOK
    <2>9. Len(needed') >= Len(needed) /\ Len(holds') >= Len(holds)
        BY <1>2, <2>1, <2>3
    <2>10. /\ \A u \in Users : u # t => path'[u] = path[u]
           /\ \A i \in 1 .. Len(path'[t]) : \E j \in 1 .. Len(path[t]) : path'[t][i].id = path[t][j].id
        BY <1>2
    <2>11. t \in use.threads /\ use' = use /\ (wrapped # 0 => wrapped' # 0) /\ (~factory' => wrapped' # 0)
        BY <1>1, <1>2
    <2>. QED
        BY <2>5, <2>6, <2>7, <2>8, <2>9, <2>10, <2>11, OneUserSteps
<1>. QED
    BY <1>3, <1>4

LEMMA LazySteps == ASSUME LazyInv, [La!Next]_lazVars PROVE LazyInv'
<1>1. CASE lazVars' = lazVars
    <2>1. /\ use' = use /\ wrapped' = wrapped /\ factory' = factory /\ path' = path /\ holds' = holds
          /\ done' = done /\ needed' = needed /\ thrown' = thrown
        BY <1>1 DEF lazVars
    <2>. QED
        BY <2>1, LazyStays
<1>2. CASE La!Next
    <2>1. PICK t \in Users :
              \/ \E level \in Severities : La!Log(t, level) \/ La!Echo(t, level)
              \/ La!Look(t) \/ La!CallFactory(t) \/ La!FactoryFails(t) \/ La!FactoryReturns(t)
              \/ La!Install(t) \/ La!Forget(t) \/ La!Give(t)
              \/ La!Settle(t) \/ \E levels \in SUBSET Severities : La!SetAcceptedLevels(t, levels)
        BY <1>2 DEF La!Next
    <2>. QED
        BY <2>1, LazyLogKeeps, EchoKeeps, LookKeeps, CallFactoryKeeps, FactoryFailsKeeps, FactoryReturnsKeeps,
           InstallKeeps, ForgetKeeps, GiveKeeps, SettleKeeps, AcceptKeeps
<1>. QED
    BY <1>1, <1>2

\* What is not needed is not built.
LEMMA QuietFollows == LazyInv => La!QuietCostsNothing
<1>. SUFFICES ASSUME LazyInv PROVE La!QuietCostsNothing
    OBVIOUS
<1>1. Len(needed) \in Nat /\ Len(holds) \in Nat
    BY DEF LazyInv, LazyTyped
<1>2. PICK P \in SUBSET (1 .. Len(needed)) : Cardinality(P) + Len(holds) <= Len(needed)
    BY DEF LazyInv, Accounted
<1>3. IsFiniteSet(P)
    <2>1. IsFiniteSet(1 .. Len(needed))
        BY <1>1, FS_Interval
    <2>. QED
        BY <2>1, FS_Subset
<1>4. Cardinality(P) \in Nat
    BY <1>3, FS_CardinalityType
<1>. QED
    BY <1>1, <1>2, <1>4 DEF La!QuietCostsNothing

\* In one thread only the factory fails, and no record is with a handler that is not wrapped.
LEMMA SingleFollows == LazyInv => La!OnlyTheFactoryFails /\ La!NothingOrphaned
<1>. SUFFICES ASSUME LazyInv PROVE La!OnlyTheFactoryFails /\ La!NothingOrphaned
    OBVIOUS
<1>1. ASSUME La!Alone PROVE \E t \in Users : use.threads = {t} /\ SingleOK(t)
    BY <1>1 DEF La!Alone, LazyInv
<1>2. La!OnlyTheFactoryFails
    BY <1>1 DEF La!OnlyTheFactoryFails, SingleOK
<1>3. La!NothingOrphaned
    <2>. SUFFICES ASSUME La!Alone, ~use.echoes
                  PROVE  /\ Len(holds) <= 1
                         /\ \A i \in DOMAIN needed :
                                \/ i \in done
                                \/ wrapped # 0 /\ i \in holds[wrapped]
                                \/ \E x \in thrown : x.id = i
                                \/ \E t \in Users, j \in 1 .. 3 : j \in DOMAIN path[t] /\ path[t][j].id = i
        BY DEF La!NothingOrphaned, La!None
    <2>1. PICK t \in Users : use.threads = {t} /\ SingleOK(t)
        BY <1>1
    <2>2. Len(holds) <= 1 /\ \A n \in 1 .. Len(needed) : PlacedBy(t, n)
        BY <2>1 DEF SingleOK
    <2>3. needed \in Seq(Severities) /\ path[t] \in Seq(PathFrame)
        BY DEF LazyInv, LazyTyped
    <2>4. ASSUME NEW i \in DOMAIN needed
          PROVE  \/ i \in done
                 \/ wrapped # 0 /\ i \in holds[wrapped]
                 \/ \E x \in thrown : x.id = i
                 \/ \E u \in Users, j \in 1 .. 3 : j \in DOMAIN path[u] /\ path[u][j].id = i
        <3>1. i \in 1 .. Len(needed)
            BY <2>3
        <3>2. PlacedBy(t, i)
            BY <2>2, <3>1
        <3>3. ASSUME Len(path[t]) = 1, path[t][1].id = i
              PROVE  \E u \in Users, j \in 1 .. 3 : j \in DOMAIN path[u] /\ path[u][j].id = i
            <4>1. 1 \in 1 .. 3 /\ 1 \in DOMAIN path[t]
                BY <2>3, <3>3
            <4>. QED
                BY <3>3, <4>1
        <3>. QED
            BY <3>2, <3>3 DEF PlacedBy
    <2>. QED
        BY <2>2, <2>4
<1>. QED
    BY <1>2, <1>3

\* What is wrapped changes only when something built is installed, and then
\* somebody was about to.
LEMMA InstallsOnly == ASSUME LazyInv, [La!Next]_lazVars PROVE La!Stays
<1>. SUFFICES ASSUME La!Settled PROVE wrapped' = wrapped
    BY DEF La!Stays
<1>1. CASE lazVars' = lazVars
    BY <1>1 DEF lazVars
<1>2. CASE La!Next
    <2>1. PICK t \in Users :
              \/ \E level \in Severities : La!Log(t, level) \/ La!Echo(t, level)
              \/ La!Look(t) \/ La!CallFactory(t) \/ La!FactoryFails(t) \/ La!FactoryReturns(t)
              \/ La!Install(t) \/ La!Forget(t) \/ La!Give(t)
              \/ La!Settle(t) \/ \E levels \in SUBSET Severities : La!SetAcceptedLevels(t, levels)
        BY <1>2 DEF La!Next
    <2>2. ~La!Install(t)
        <3>. SUFFICES ASSUME La!Install(t) PROVE FALSE
            OBVIOUS
        <3>1. path[t] # <<>> /\ La!Inner(t).at = "install"
            BY DEF La!Install, La!At
        <3>2. path[t] \in Seq(PathFrame) /\ La!Inner(t) = path[t][1]
            BY <3>1, InnerIs
        <3>3. 1 \in DOMAIN path[t]
            BY <3>1, <3>2
        <3>. QED
            BY <3>1, <3>2, <3>3 DEF La!Settled
    <2>3. \/ \E level \in Severities : La!Log(t, level) \/ La!Echo(t, level)
          \/ La!Look(t) \/ La!CallFactory(t) \/ La!FactoryFails(t) \/ La!FactoryReturns(t)
          \/ La!Forget(t) \/ La!Give(t)
          \/ La!Settle(t) \/ \E levels \in SUBSET Severities : La!SetAcceptedLevels(t, levels)
        BY <2>1, <2>2
    <2>. QED
        BY <2>3 DEF La!Log, La!Echo, La!Enter, La!Look, La!CallFactory, La!FactoryFails, La!FactoryReturns,
           La!Forget, La!Give, La!Settle, La!Wrapping, La!SetAcceptedLevels
<1>. QED
    BY <1>1, <1>2

-----------------------------------------------------------------------------
(* The files of a rotating handler: the invariant *)

\* d is not among the newest dates that h ever had a file for.
TooOld(h, d) ==
    rotation.maxFiles > 0 /\ Cardinality({e \in dated[h] : e > d}) >= rotation.maxFiles

\* Record r is in the file of its date.
Filed(r) ==
    <<r.by, r.date>> \in DOMAIN directory /\
    \E j \in 1 .. Len(directory[<<r.by, r.date>>]) : directory[<<r.by, r.date>>][j] = r

RotTyped ==
    /\ rotation \in Rotations
    /\ current \in [Rotators -> Dates \cup {0}]
    /\ stream \in [Rotators -> {"closed", "open", "unlinked"}]
    /\ DOMAIN directory \subseteq Rotators \X Dates /\ IsFiniteSet(DOMAIN directory)
    /\ directory \in [DOMAIN directory -> Seq(Ro!Sighted)]
    /\ batch \in [Rotators -> Seq(Ro!Sighted)]
    /\ dated \in [Rotators -> SUBSET Dates] /\ \A h \in Rotators : IsFiniteSet(dated[h])
    /\ written \in Seq(Ro!Sighted) /\ came \in Nat

\* A file has records of its handler and its date, which the handler had a file for.
DirectoryOK ==
    \A f \in DOMAIN directory :
        /\ f[2] \in dated[f[1]]
        /\ \A i \in 1 .. Len(directory[f]) : directory[f][i].by = f[1] /\ directory[f][i].date = f[2]

OwnFiles(h) == {f \in DOMAIN directory : f[1] = h /\ f[2] # current[h]}

HandlerOK(h) ==
    /\ stream[h] = "open" => <<h, current[h]>> \in DOMAIN directory
    /\ \A i \in 1 .. Len(batch[h]) : batch[h][i].by = h
    /\ \A d \in Dates : Ro!Alone(h) /\ stream[h] = "unlinked" /\ current[h] = d => TooOld(h, d)
    /\ rotation.maxFiles > 0 /\ ~rotation.frail /\ current[h] # 0 => Cardinality(OwnFiles(h)) <= rotation.maxFiles

WrittenOK ==
    \A r \in {written[i] : i \in 1 .. Len(written)} :
        Ro!Alone(r.by) => TooOld(r.by, r.date) \/ Filed(r)

RotInv == RotTyped /\ DirectoryOK /\ WrittenOK /\ \A h \in Rotators : HandlerOK(h)

\* The sets of the library, as RotatingFileHandler has them.
LEMMA SameCount == \A s : Ro!Cardinality(s) = Cardinality(s)
BY Zenon DEF Ro!Cardinality, Cardinality

LEMMA SameFinite == \A s : Ro!IsFiniteSet(s) = IsFiniteSet(s)
BY Zenon DEF Ro!IsFiniteSet, IsFiniteSet

LEMMA RotationIs ==
    ASSUME NEW s \in Rotations
    PROVE  /\ s.handlers \subseteq Rotators /\ s.maxFiles \in Nat /\ s.frail \in BOOLEAN
           /\ s.matching \in [Rotators -> SUBSET Rotators] /\ \A h \in Rotators : h \in s.matching[h]
           /\ s.leftover \subseteq Rotators \X Dates /\ IsFiniteSet(s.leftover)
           /\ s.batches \subseteq Seq(Dates) /\ s.writes \in Nat
BY HandlersAssumption, SameFinite DEF Ro!RotatingAssumption

LEMMA DatesAre == Dates \subseteq Nat /\ 0 \notin Dates
BY HandlersAssumption DEF Ro!RotatingAssumption

\* Files of one handler are as many as their dates.
LEMMA FilesAreDates ==
    ASSUME NEW h, NEW F, NEW Ds, IsFiniteSet(Ds),
           \A f \in F : f = <<h, f[2]>> /\ f[2] \in Ds
    PROVE  IsFiniteSet(F) /\ Cardinality(F) <= Cardinality(Ds)
<1>1. PICK m : m = [f \in F |-> f[2]]
    OBVIOUS
<1>2. m \in [F -> Ds]
    BY <1>1
<1>3. ASSUME NEW f \in F, NEW g \in F, m[f] = m[g] PROVE f = g
    <2>1. f[2] = g[2]
        BY <1>1, <1>3
    <2>2. f = <<h, f[2]>> /\ g = <<h, g[2]>>
        OBVIOUS
    <2>. QED
        BY ONLY <2>1, <2>2
<1>4. m \in Injection(F, Ds)
    BY <1>2, <1>3 DEF Injection, IsInjective
<1>. QED
    BY <1>4, FS_Injection

\* More dates: what is too old stays so.
LEMMA OldStays ==
    ASSUME RotTyped, NEW h \in Rotators, NEW d \in Nat, rotation' = rotation,
           dated'[h] \subseteq Dates, IsFiniteSet(dated'[h]), dated[h] \subseteq dated'[h], TooOld(h, d)
    PROVE  TooOld(h, d)'
<1>1. PICK Ds, E : Ds = {e \in dated[h] : e > d} /\ E = {e \in dated'[h] : e > d}
    OBVIOUS
<1>2. Ds \in SUBSET E
    BY <1>1
<1>3. IsFiniteSet(E)
    BY <1>1, FS_Subset
<1>4. Cardinality(Ds) <= Cardinality(E) /\ IsFiniteSet(Ds)
    BY <1>2, <1>3, FS_Subset
<1>5. Cardinality(Ds) \in Nat /\ Cardinality(E) \in Nat
    BY <1>3, <1>4, FS_CardinalityType
<1>6. rotation.maxFiles \in Nat
    BY RotationIs DEF RotTyped
<1>7. rotation.maxFiles > 0 /\ Cardinality(Ds) >= rotation.maxFiles
    BY <1>1 DEF TooOld
<1>8. Cardinality(E) >= rotation.maxFiles
    BY <1>4, <1>5, <1>6, <1>7
<1>. QED
    BY <1>1, <1>7, <1>8 DEF TooOld

\* What the sweep of h deletes is matched by its pattern, and if it is its own
\* file, too old.
LEMMA StaleIs ==
    ASSUME NEW h \in Rotators, rotation \in Rotations, NEW F, F \subseteq Rotators \X Dates,
           NEW Ds, IsFiniteSet(Ds), Ds \subseteq Dates, \A f \in F : f[1] = h => f[2] \in Ds,
           NEW f \in Ro!Stale(h, F)
    PROVE  /\ f \in F /\ f[1] \in rotation.matching[h]
           /\ f[1] = h => Cardinality({e \in Ds : e > f[2]}) >= rotation.maxFiles
<1>1. PICK N : N = {g \in {g \in F : g[1] \in rotation.matching[h]} : Ro!Newer(h, g, f)}
    OBVIOUS
<1>2. /\ f \in F /\ f[1] \in rotation.matching[h]
      /\ Cardinality(N) >= rotation.maxFiles
    BY <1>1, SameCount DEF Ro!Stale
<1>3. ASSUME f[1] = h PROVE Cardinality({e \in Ds : e > f[2]}) >= rotation.maxFiles
    <2>1. PICK E : E = {e \in Ds : e > f[2]}
        OBVIOUS
    <2>2. f[2] \in Dates /\ f[2] \in Nat /\ f[2] # 0
        BY <1>2, DatesAre
    <2>3. ASSUME NEW g \in N PROVE g = <<h, g[2]>> /\ g[2] \in E
        <3>1. g \in F /\ Ro!Newer(h, g, f)
            BY <1>1
        <3>5. g \in Rotators \X Dates
            BY <3>1
        <3>6. g = <<g[1], g[2]>> /\ g[2] \in Dates
            BY ONLY <3>5
        <3>2. g = <<g[1], g[2]>> /\ g[2] \in Dates /\ g[2] \in Nat
            BY <3>6, DatesAre
        <3>3. CASE g[1] = h
            <4>1. Ro!Dated(h, g) = g[2] /\ Ro!Dated(h, f) = f[2]
                BY <1>3, <3>3 DEF Ro!Dated
            <4>2. g[2] > f[2]
                BY <2>2, <3>1, <3>2, <4>1 DEF Ro!Newer
            <4>. QED
                BY <2>1, <3>1, <3>2, <3>3, <4>2
        <3>4. CASE g[1] # h
            <4>1. Ro!Dated(h, g) = 0 /\ Ro!Dated(h, f) = f[2]
                BY <1>3, <3>4 DEF Ro!Dated, Ro!NoDate
            <4>. QED
                BY <2>2, <3>1, <4>1 DEF Ro!Newer
        <3>. QED
            BY <3>3, <3>4
    <2>4. IsFiniteSet(E)
        BY <2>1, FS_Subset
    <2>5. IsFiniteSet(N) /\ Cardinality(N) <= Cardinality(E)
        BY <2>3, <2>4, FilesAreDates
    <2>6. Cardinality(N) \in Nat /\ Cardinality(E) \in Nat /\ rotation.maxFiles \in Nat
        BY <2>4, <2>5, FS_CardinalityType, RotationIs
    <2>7. Cardinality(E) >= rotation.maxFiles
        BY <1>2, <2>5, <2>6
    <2>. QED
        BY <2>1, <2>7
<1>. QED
    BY <1>2, <1>3

\* After a sweep of h no more of its files are left than are to be kept.
LEMMA SweptIsFew ==
    ASSUME NEW h \in Rotators, rotation \in Rotations, rotation.maxFiles > 0,
           NEW F, F \subseteq Rotators \X Dates, IsFiniteSet(F),
           NEW G, G = {f \in F \ Ro!Stale(h, F) : f[1] = h}
    PROVE  IsFiniteSet(G) /\ Cardinality(G) <= rotation.maxFiles
<1>1. IsFiniteSet(G)
    BY FS_Subset
<1>2. Cardinality(G) \in Nat /\ rotation.maxFiles \in Nat
    BY <1>1, FS_CardinalityType, RotationIs
<1>3. CASE G = {}
    <2>1. Cardinality(G) = 0
        BY <1>3, FS_EmptySet
    <2>. QED
        BY <1>1, <1>2, <2>1
<1>4. CASE G # {}
    <2>1. ASSUME NEW g \in G PROVE g = <<h, g[2]>> /\ g[2] \in Dates /\ g \in F /\ g \notin Ro!Stale(h, F)
        <3>1. g \in F /\ g[1] = h /\ g \notin Ro!Stale(h, F)
            OBVIOUS
        <3>2. g = <<g[1], g[2]>> /\ g[2] \in Dates
            BY <3>1
        <3>. QED
            BY <3>1, <3>2
    <2>2. PICK M : M = {d \in Dates : <<h, d>> \in G}
        OBVIOUS
    <2>3. M \subseteq Nat /\ M # {}
        BY <1>4, <2>1, <2>2, DatesAre
    <2>4. PICK d \in M : \A e \in M : d <= e
        BY <2>3, LeastIs
    <2>5. PICK g0 \in G : g0 = <<h, d>> /\ g0[2] = d /\ g0[1] = h
        BY <2>2, <2>4
    <2>6. PICK N : N = {g \in {g \in F : g[1] \in rotation.matching[h]} : Ro!Newer(h, g, g0)}
        OBVIOUS
    <2>7. h \in rotation.matching[h]
        BY RotationIs
    <2>8. ASSUME NEW g \in G, g # g0 PROVE g \in N
        <3>1. g = <<h, g[2]>> /\ g[2] \in Dates /\ g \in F
            BY <2>1
        <3>5. g[1] = h
            BY ONLY <3>1
        <3>2. g[2] \in M /\ g[2] # d
            BY <2>2, <2>5, <2>8, <3>1
        <3>7. \A e \in M : e # d => e > d
            BY <2>3, <2>4
        <3>3. g[2] > d
            BY <3>2, <3>7
        <3>6. Ro!Dated(h, g) = g[2] /\ Ro!Dated(h, g0) = d
            BY ONLY <2>5, <3>5 DEF Ro!Dated
        <3>4. Ro!Newer(h, g, g0)
            BY <3>3, <3>6 DEF Ro!Newer
        <3>. QED
            BY <2>6, <2>7, <3>1, <3>4, <3>5
    <2>9. IsFiniteSet(N)
        BY <2>6, FS_Subset
    <2>10. Cardinality(N) < rotation.maxFiles
        <3>1. g0 \in {g \in F : g[1] \in rotation.matching[h]} /\ g0 \notin Ro!Stale(h, F)
            BY <2>1, <2>5, <2>7
        <3>2. ~(Cardinality(N) >= rotation.maxFiles)
            BY <2>6, <3>1, SameCount DEF Ro!Stale
        <3>3. Cardinality(N) \in Nat
            BY <2>9, FS_CardinalityType
        <3>. QED
            BY <1>2, <3>2, <3>3
    <2>11. Cardinality(G \ {g0}) = Cardinality(G) - 1
        BY <1>1, FS_RemoveElement
    <2>12. G \ {g0} \in SUBSET N
        BY <2>8
    <2>13. Cardinality(G \ {g0}) <= Cardinality(N) /\ Cardinality(N) \in Nat
        BY <2>9, <2>12, FS_Subset, FS_CardinalityType
    <2>. QED
        BY <1>1, <1>2, <2>10, <2>11, <2>13
<1>. QED
    BY <1>3, <1>4

\* What a write does, with the date of what it writes: whether it loses it to a
\* file that is deleted, the files with the records in them, and those that are
\* swept away.
Loses(h, d) == d = current[h] /\ stream[h] = "unlinked"
Opens(h, d) == d # current[h] \/ stream[h] = "closed"

Held(f) == IF f \in DOMAIN directory THEN directory[f] ELSE <<>>

Grown(h, d, rs, how) ==
    [g \in IF Opens(h, d) THEN DOMAIN directory \cup {<<h, d>>} ELSE DOMAIN directory |->
        IF g = <<h, d>> /\ how = "done" /\ ~Loses(h, d) THEN Held(g) \o rs ELSE Held(g)]

Swept(h, d, rs, how) ==
    IF how = "done" /\ d # current[h] /\ rotation.maxFiles # 0
    THEN Ro!Stale(h, DOMAIN Grown(h, d, rs, how)) ELSE {}

Moves(h, rs, d, how) ==
    /\ current' = [current EXCEPT ![h] = d]
    /\ written' = IF how = "done" THEN written \o rs ELSE written
    /\ how = "open" => /\ stream' = [stream EXCEPT ![h] = "closed"]
                       /\ directory' = directory /\ dated' = dated
    /\ how # "open" =>
         /\ directory' = [g \in DOMAIN Grown(h, d, rs, how) \ Swept(h, d, rs, how) |->
                             Grown(h, d, rs, how)[g]]
         /\ dated' = [dated EXCEPT ![h] = IF Opens(h, d) THEN @ \cup {d} ELSE @]
         /\ stream' = Ro!Unlinked([stream EXCEPT ![h] = IF Loses(h, d) THEN "unlinked" ELSE "open"],
                                  [current EXCEPT ![h] = d], directory')

LEMMA WriteDoes ==
    ASSUME RotInv, NEW h \in Rotators, NEW rs \in Seq(Ro!Sighted), rs # <<>>,
           NEW d \in Dates, rs[Len(rs)].date = d,
           NEW how \in {"done", "open", "written"}, Ro!Write(h, rs, how)
    PROVE  Moves(h, rs, d, how)
<1>1. rs[Len(rs)].date = d
    OBVIOUS
<1>2. current' = [current EXCEPT ![h] = d] /\ written' = IF how = "done" THEN written \o rs ELSE written
    BY <1>1 DEF Ro!Write
<1>3. how = "open" => stream' = [stream EXCEPT ![h] = "closed"] /\ directory' = directory /\ dated' = dated
    BY <1>1 DEF Ro!Write
<1>4. ASSUME how # "open"
      PROVE  /\ directory' = [g \in DOMAIN Grown(h, d, rs, how) \ Swept(h, d, rs, how) |->
                                 Grown(h, d, rs, how)[g]]
             /\ dated' = [dated EXCEPT ![h] = IF Opens(h, d) THEN @ \cup {d} ELSE @]
             /\ stream' = Ro!Unlinked([stream EXCEPT ![h] = IF Loses(h, d) THEN "unlinked" ELSE "open"],
                                      [current EXCEPT ![h] = d], directory')
    <2>. DEFINE f        == <<h, d>>
                found   == IF d # current[h] THEN "closed" ELSE stream[h]
                holding  == IF found = "closed" THEN Ro!Opened(directory, f) ELSE directory
                after    == IF how = "done" /\ found # "unlinked" THEN [holding EXCEPT ![f] = @ \o rs] ELSE holding
                swept    == IF how = "done" /\ d # current[h] THEN Ro!Collect(h, after) ELSE after
    <2>1. /\ directory' = swept
          /\ stream' = Ro!Unlinked([stream EXCEPT ![h] = IF found # "unlinked" THEN "open" ELSE "unlinked"],
                                   [current EXCEPT ![h] = d], swept)
          /\ dated' = [dated EXCEPT ![h] = IF found = "closed" THEN @ \cup {d} ELSE @]
        BY <1>1, <1>4 DEF Ro!Write
    <2>2. (found = "closed") = Opens(h, d) /\ (found = "unlinked") = Loses(h, d)
        BY DEF Opens, Loses
    <2>3. directory = [g \in DOMAIN directory |-> directory[g]]
        BY DEF RotInv, RotTyped
    <2>4. holding = [g \in IF Opens(h, d) THEN DOMAIN directory \cup {f} ELSE DOMAIN directory |-> Held(g)]
        <3>1. CASE Opens(h, d)
            BY <2>2, <3>1 DEF Ro!Opened, Held
        <3>2. CASE ~Opens(h, d)
            <4>1. holding = directory
                BY <2>2, <3>2
            <4>2. directory = [g \in DOMAIN directory |-> Held(g)]
                BY <2>3 DEF Held
            <4>. HIDE DEF holding
            <4>. QED
                BY <3>2, <4>1, <4>2
        <3>. QED
            BY <3>1, <3>2
    <2>5. after = Grown(h, d, rs, how)
        <3>1. CASE how = "done" /\ ~Loses(h, d)
            <4>1. after = [holding EXCEPT ![f] = holding[f] \o rs]
                BY <2>2, <3>1
            <4>. HIDE DEF holding
            <4>. QED
                BY <2>4, <3>1, <4>1 DEF Grown
        <3>2. CASE ~(how = "done" /\ ~Loses(h, d))
            <4>1. after = holding
                BY <2>2, <3>2
            <4>. HIDE DEF holding, after
            <4>. QED
                BY <2>4, <3>2, <4>1 DEF Grown
        <3>. QED
            BY <3>1, <3>2
    <2>. HIDE DEF holding, after
    <2>6. swept = [g \in DOMAIN Grown(h, d, rs, how) \ Swept(h, d, rs, how) |-> Grown(h, d, rs, how)[g]]
        <3>1. CASE how = "done" /\ d # current[h] /\ rotation.maxFiles # 0
            BY <2>5, <3>1 DEF Ro!Collect, Swept
        <3>2. CASE how = "done" /\ d # current[h] /\ rotation.maxFiles = 0
            BY <2>5, <3>2 DEF Ro!Collect, Swept
        <3>3. CASE ~(how = "done" /\ d # current[h])
            <4>1. swept = Grown(h, d, rs, how) /\ Swept(h, d, rs, how) = {}
                BY <2>5, <3>3 DEF Swept
            <4>2. Grown(h, d, rs, how) = [g \in DOMAIN Grown(h, d, rs, how) |-> Grown(h, d, rs, how)[g]]
                BY DEF Grown
            <4>. QED
                BY <4>1, <4>2
        <3>. QED
            BY <3>1, <3>2, <3>3
    <2>. HIDE DEF swept, found
    <2>7. [stream EXCEPT ![h] = IF found # "unlinked" THEN "open" ELSE "unlinked"]
              = [stream EXCEPT ![h] = IF Loses(h, d) THEN "unlinked" ELSE "open"]
        BY <2>2
    <2>. QED
        BY <2>1, <2>2, <2>6, <2>7
<1>. QED
    BY <1>2, <1>3, <1>4 DEF Moves

\* The whole of what a write of records rs of h, all of date d, is given.
Writing(h, rs, d, how) ==
    /\ rs \in Seq(Ro!Sighted) /\ rs # <<>> /\ d \in Dates
    /\ \A i \in 1 .. Len(rs) : rs[i].by = h /\ rs[i].date = d
    /\ how \in Ro!Ways /\ Ro!Write(h, rs, how) /\ rotation' = rotation

LEMMA WaysAre ==
    ASSUME NEW how \in Ro!Ways, rotation \in Rotations
    PROVE  how \in {"done", "open", "written"} /\ (~rotation.frail => how = "done")
BY RotationIs DEF Ro!Ways

LEMMA WritingDoes ==
    ASSUME RotInv, NEW h \in Rotators, NEW rs, NEW d, NEW how, Writing(h, rs, d, how)
    PROVE  Moves(h, rs, d, how)
<1>1. rs \in Seq(Ro!Sighted) /\ rs # <<>> /\ d \in Dates /\ Ro!Write(h, rs, how)
    BY DEF Writing
<1>2. how \in {"done", "open", "written"}
    BY WaysAre DEF Writing, RotInv, RotTyped
<1>3. Len(rs) \in 1 .. Len(rs)
    BY <1>1
<1>4. rs[Len(rs)].date = d
    BY <1>3 DEF Writing
<1>. QED
    BY <1>1, <1>2, <1>4, WriteDoes

\* The files A with the records in them, beside those there are.
Grew(h, d, rs, how, A) ==
    /\ DOMAIN directory \subseteq DOMAIN A /\ DOMAIN A \subseteq DOMAIN directory \cup {<<h, d>>}
    /\ DOMAIN A \subseteq Rotators \X Dates /\ IsFiniteSet(DOMAIN A)
    /\ \A g \in DOMAIN A :
         /\ A[g] \in Seq(Ro!Sighted)
         /\ \A i \in 1 .. Len(A[g]) : A[g][i].by = g[1] /\ A[g][i].date = g[2]
    /\ \A g \in DOMAIN directory : \A i \in 1 .. Len(directory[g]) :
         \E j \in 1 .. Len(A[g]) : A[g][j] = directory[g][i]
    /\ ~Loses(h, d) => <<h, d>> \in DOMAIN A
    /\ how = "done" /\ ~Loses(h, d) =>
         \A i \in 1 .. Len(rs) : \E j \in 1 .. Len(A[<<h, d>>]) : A[<<h, d>>][j] = rs[i]
    /\ <<h, d>> \in DOMAIN A => <<h, d>> \in DOMAIN directory \/ Opens(h, d)

LEMMA GrownIs ==
    ASSUME RotInv, NEW h \in Rotators, NEW rs, NEW d, NEW how, Writing(h, rs, d, how),
           NEW A, A = Grown(h, d, rs, how)
    PROVE  Grew(h, d, rs, how, A)
<1>1. rs \in Seq(Ro!Sighted) /\ d \in Dates /\ \A i \in 1 .. Len(rs) : rs[i].by = h /\ rs[i].date = d
    BY DEF Writing
<1>18. PICK f : f = <<h, d>>
    OBVIOUS
<1>2. f = <<h, d>> /\ f[1] = h /\ f[2] = d
    BY ONLY <1>18
<1>3. DOMAIN A = IF Opens(h, d) THEN DOMAIN directory \cup {f} ELSE DOMAIN directory
    BY <1>2 DEF Grown
<1>4. \A g \in DOMAIN A : A[g] = IF g = f /\ how = "done" /\ ~Loses(h, d) THEN Held(g) \o rs ELSE Held(g)
    BY <1>2 DEF Grown
<1>5. DOMAIN directory \subseteq Rotators \X Dates /\ IsFiniteSet(DOMAIN directory)
    BY DEF RotInv, RotTyped
<1>6. DOMAIN A \subseteq Rotators \X Dates
    BY <1>1, <1>2, <1>3, <1>5
<1>7. IsFiniteSet(DOMAIN A)
    BY <1>3, <1>5, FS_AddElement
<1>8. \A g \in DOMAIN directory : Held(g) = directory[g] /\ Held(g) \in Seq(Ro!Sighted)
    BY DEF RotInv, RotTyped, Held
<1>9. \A g : g \notin DOMAIN directory => Held(g) = <<>>
    BY DEF Held
<1>10. \A g : Held(g) \in Seq(Ro!Sighted)
    <2>1. <<>> \in Seq(Ro!Sighted)
        OBVIOUS
    <2>. QED
        BY <1>8, <1>9, <2>1
<1>11. \A g : \A i \in 1 .. Len(Held(g)) : Held(g)[i].by = g[1] /\ Held(g)[i].date = g[2]
    <2>. TAKE g
    <2>1. CASE g \in DOMAIN directory
        BY <1>8, <2>1 DEF RotInv, DirectoryOK
    <2>2. CASE g \notin DOMAIN directory
        <3>1. Len(Held(g)) = 0
            BY <1>9, <2>2
        <3>. QED
            BY <3>1
    <2>. QED
        BY <2>1, <2>2
<1>12. ASSUME NEW g \in DOMAIN A
       PROVE  /\ A[g] \in Seq(Ro!Sighted)
              /\ \A i \in 1 .. Len(A[g]) : A[g][i].by = g[1] /\ A[g][i].date = g[2]
              /\ \A i \in 1 .. Len(Held(g)) : \E j \in 1 .. Len(A[g]) : A[g][j] = Held(g)[i]
    <2>1. CASE g = f /\ how = "done" /\ ~Loses(h, d)
        <3>1. PICK s : s = Held(g) /\ s \in Seq(Ro!Sighted)
            BY <1>10
        <3>2. A[g] = s \o rs
            BY <1>4, <2>1, <3>1
        <3>3. /\ s \o rs \in Seq(Ro!Sighted) /\ Len(s \o rs) = Len(s) + Len(rs)
              /\ Len(s) \in Nat /\ Len(rs) \in Nat
              /\ \A i \in 1 .. Len(s) : (s \o rs)[i] = s[i]
              /\ \A i \in 1 .. Len(s) + Len(rs) :
                    (s \o rs)[i] = IF i <= Len(s) THEN s[i] ELSE rs[i - Len(s)]
            BY ONLY <1>1, <3>1
        <3>4. ASSUME NEW i \in 1 .. Len(s \o rs)
              PROVE  (s \o rs)[i].by = g[1] /\ (s \o rs)[i].date = g[2]
            <4>1. i \in 1 .. Len(s) + Len(rs)
                BY <3>3
            <4>2. CASE i <= Len(s)
                <5>1. i \in 1 .. Len(s) /\ (s \o rs)[i] = s[i]
                    BY <3>3, <4>1, <4>2
                <5>. QED
                    BY <1>11, <3>1, <5>1
            <4>3. CASE ~(i <= Len(s))
                <5>1. i - Len(s) \in 1 .. Len(rs) /\ (s \o rs)[i] = rs[i - Len(s)]
                    BY <3>3, <4>1, <4>3
                <5>. QED
                    BY <1>1, <1>2, <2>1, <5>1
            <4>. QED
                BY <4>2, <4>3
        <3>5. \A i \in 1 .. Len(s) : \E j \in 1 .. Len(s \o rs) : (s \o rs)[j] = s[i]
            <4>. TAKE i \in 1 .. Len(s)
            <4>. WITNESS i \in 1 .. Len(s \o rs)
            <4>. QED
                BY <3>3
        <3>. QED
            BY <3>1, <3>2, <3>3, <3>4, <3>5
    <2>2. CASE ~(g = f /\ how = "done" /\ ~Loses(h, d))
        <3>1. A[g] = Held(g)
            BY <1>4, <2>2
        <3>. QED
            BY <1>10, <1>11, <3>1
    <2>. QED
        BY <2>1, <2>2
<1>13. ASSUME ~Loses(h, d) PROVE f \in DOMAIN A
    <2>1. CASE Opens(h, d)
        BY <1>3, <2>1
    <2>2. CASE ~Opens(h, d)
        <3>1. stream[h] = "open" /\ current[h] = d
            BY <1>13, <2>2 DEF Opens, Loses, RotInv, RotTyped
        <3>2. <<h, d>> \in DOMAIN directory
            BY <3>1 DEF RotInv, HandlerOK
        <3>. QED
            BY <1>2, <1>3, <3>2
    <2>. QED
        BY <2>1, <2>2
<1>14. ASSUME how = "done", ~Loses(h, d)
       PROVE  \A i \in 1 .. Len(rs) : \E j \in 1 .. Len(A[f]) : A[f][j] = rs[i]
    <2>1. PICK s : s = Held(f) /\ s \in Seq(Ro!Sighted)
        BY <1>10
    <2>2. A[f] = s \o rs
        BY <1>4, <1>13, <1>14, <2>1
    <2>3. ASSUME NEW i \in 1 .. Len(rs)
          PROVE  Len(s) + i \in 1 .. Len(s \o rs) /\ (s \o rs)[Len(s) + i] = rs[i]
        BY ONLY <1>1, <2>1, <2>3
    <2>. QED
        BY <2>2, <2>3
<1>15. DOMAIN directory \subseteq DOMAIN A /\ DOMAIN A \subseteq DOMAIN directory \cup {f}
    BY <1>3
<1>16. \A g \in DOMAIN directory : \A i \in 1 .. Len(directory[g]) :
            \E j \in 1 .. Len(A[g]) : A[g][j] = directory[g][i]
    BY <1>8, <1>12, <1>15
<1>17. f \in DOMAIN A => f \in DOMAIN directory \/ Opens(h, d)
    BY <1>3
<1>. QED
    BY <1>2, <1>6, <1>7, <1>12, <1>13, <1>14, <1>15, <1>16, <1>17 DEF Grew

\* What is swept away is matched by the pattern of h, and its own files among it
\* are too old.
LEMMA SweptAre ==
    ASSUME RotInv, NEW h \in Rotators, NEW rs, NEW d, NEW how, Writing(h, rs, d, how), how # "open",
           NEW g \in DOMAIN Grown(h, d, rs, how), g \notin DOMAIN directory'
    PROVE  g[1] \in Rotators /\ g[2] \in Dates /\ (Ro!Alone(g[1]) => g[1] = h /\ TooOld(h, g[2])')
<1>1. PICK A : A = Grown(h, d, rs, how)
    OBVIOUS
<1>2. /\ DOMAIN A \subseteq DOMAIN directory \cup {<<h, d>>}
      /\ DOMAIN A \subseteq Rotators \X Dates
      /\ <<h, d>> \in DOMAIN A => <<h, d>> \in DOMAIN directory \/ Opens(h, d)
    BY <1>1, GrownIs DEF Grew
<1>3. /\ DOMAIN directory' = DOMAIN A \ Swept(h, d, rs, how)
      /\ dated' = [dated EXCEPT ![h] = IF Opens(h, d) THEN @ \cup {d} ELSE @]
    <2>1. Moves(h, rs, d, how)
        BY WritingDoes
    <2>. QED
        BY <1>1, <2>1 DEF Moves
<1>4. rotation \in Rotations /\ rotation' = rotation /\ d \in Dates
    BY DEF RotInv, RotTyped, Writing
<1>5. g \in Swept(h, d, rs, how)
    BY <1>1, <1>3
<1>6. rotation.maxFiles # 0 /\ g \in Ro!Stale(h, DOMAIN A)
    BY <1>1, <1>5 DEF Swept
<1>7. PICK Ds : Ds = dated'[h]
    OBVIOUS
<1>8. Ds = IF Opens(h, d) THEN dated[h] \cup {d} ELSE dated[h]
    BY <1>3, <1>7 DEF RotInv, RotTyped
<1>9. IsFiniteSet(Ds) /\ Ds \subseteq Dates
    BY <1>4, <1>8, FS_AddElement DEF RotInv, RotTyped
<1>10. ASSUME NEW f \in DOMAIN A, f[1] = h PROVE f[2] \in Ds
    <2>1. CASE f \in DOMAIN directory
        BY <1>8, <1>10, <2>1 DEF RotInv, DirectoryOK
    <2>2. CASE f \notin DOMAIN directory
        <3>1. f = <<h, d>> /\ Opens(h, d)
            BY <1>2, <1>10, <2>2
        <3>. QED
            BY <1>8, <3>1
    <2>. QED
        BY <2>1, <2>2
<1>11. /\ g \in DOMAIN A /\ g[1] \in rotation.matching[h]
       /\ g[1] = h => Cardinality({e \in Ds : e > g[2]}) >= rotation.maxFiles
    BY <1>2, <1>4, <1>6, <1>9, <1>10, StaleIs
<1>12. g[1] \in Rotators /\ g[2] \in Dates
    BY <1>2, <1>11
<1>13. ASSUME Ro!Alone(g[1]) PROVE g[1] = h
    BY <1>11, <1>13 DEF Ro!Alone
<1>14. ASSUME g[1] = h PROVE TooOld(h, g[2])'
    <2>1. rotation.maxFiles \in Nat /\ rotation.maxFiles > 0
        BY <1>4, <1>6, RotationIs
    <2>2. Cardinality({e \in Ds : e > g[2]}) >= rotation.maxFiles
        BY ONLY <1>11, <1>14
    <2>3. Cardinality({e \in dated'[h] : e > g[2]}) >= rotation'.maxFiles /\ rotation'.maxFiles > 0
        BY ONLY <1>4, <1>7, <2>1, <2>2
    <2>. QED
        BY ONLY <2>3 DEF TooOld
<1>. QED
    BY <1>12, <1>13, <1>14

LEMMA CountLess ==
    ASSUME NEW S, NEW T, IsFiniteSet(T), S \subseteq T, NEW n \in Nat, Cardinality(T) <= n
    PROVE  Cardinality(S) <= n
<1>1. Cardinality(S) <= Cardinality(T) /\ IsFiniteSet(S)
    BY FS_Subset
<1>2. Cardinality(S) \in Nat /\ Cardinality(T) \in Nat
    BY <1>1, FS_CardinalityType
<1>. QED
    BY <1>1, <1>2

\* After a write: the types, what the files have, what is left of what was
\* written, each handler.
LEMMA WrittenTyped ==
    ASSUME RotInv, NEW h \in Rotators, NEW rs, NEW d, NEW how, Writing(h, rs, d, how), how # "open",
           came' \in Nat, batch' \in [Rotators -> Seq(Ro!Sighted)]
    PROVE  RotTyped' /\ DirectoryOK' /\ \A k \in Rotators : dated[k] \subseteq dated'[k]
<1>1. PICK A : A = Grown(h, d, rs, how)
    OBVIOUS
<1>2. Moves(h, rs, d, how)
    BY WritingDoes
<1>3. /\ DOMAIN directory \subseteq DOMAIN A /\ DOMAIN A \subseteq DOMAIN directory \cup {<<h, d>>}
      /\ DOMAIN A \subseteq Rotators \X Dates /\ IsFiniteSet(DOMAIN A)
      /\ \A g \in DOMAIN A :
            /\ A[g] \in Seq(Ro!Sighted)
            /\ \A i \in 1 .. Len(A[g]) : A[g][i].by = g[1] /\ A[g][i].date = g[2]
      /\ <<h, d>> \in DOMAIN A => <<h, d>> \in DOMAIN directory \/ Opens(h, d)
    <2>1. Grew(h, d, rs, how, A)
        BY <1>1, GrownIs
    <2>. QED
        BY ONLY <2>1 DEF Grew
<1>4. /\ rotation \in Rotations /\ rotation' = rotation /\ d \in Dates /\ rs \in Seq(Ro!Sighted)
    BY DEF RotInv, RotTyped, Writing
<1>5. /\ current \in [Rotators -> Dates \cup {0}] /\ stream \in [Rotators -> {"closed", "open", "unlinked"}]
      /\ dated \in [Rotators -> SUBSET Dates] /\ \A k \in Rotators : IsFiniteSet(dated[k])
      /\ written \in Seq(Ro!Sighted)
    BY DEF RotInv, RotTyped
<1>6. current' \in [Rotators -> Dates \cup {0}]
    <2>1. current' = [current EXCEPT ![h] = d]
        BY <1>2 DEF Moves
    <2>. QED
        BY <1>4, <1>5, <2>1
<1>7. written' \in Seq(Ro!Sighted)
    <2>1. written' = IF how = "done" THEN written \o rs ELSE written
        BY <1>2 DEF Moves
    <2>. QED
        BY <1>4, <1>5, <2>1
<1>8. stream' \in [Rotators -> {"closed", "open", "unlinked"}]
    <2>1. PICK str : str = [stream EXCEPT ![h] = IF Loses(h, d) THEN "unlinked" ELSE "open"]
        OBVIOUS
    <2>2. PICK cur : cur = [current EXCEPT ![h] = d]
        OBVIOUS
    <2>3. stream' = Ro!Unlinked(str, cur, directory')
        BY <1>2, <2>1, <2>2 DEF Moves
    <2>4. str \in [Rotators -> {"closed", "open", "unlinked"}]
        BY <1>5, <2>1
    <2>. QED
        BY <2>3, <2>4 DEF Ro!Unlinked
<1>9. directory' = [g \in DOMAIN A \ Swept(h, d, rs, how) |-> A[g]]
    BY <1>1, <1>2 DEF Moves
<1>10. PICK D2 : D2 = directory'
    OBVIOUS
<1>11. /\ DOMAIN D2 \subseteq DOMAIN A /\ \A g \in DOMAIN D2 : D2[g] = A[g]
       /\ D2 = [g \in DOMAIN D2 |-> D2[g]]
    BY <1>9, <1>10
<1>12. DOMAIN D2 \subseteq Rotators \X Dates /\ IsFiniteSet(DOMAIN D2)
    BY <1>3, <1>11, FS_Subset
<1>13. D2 \in [DOMAIN D2 -> Seq(Ro!Sighted)]
    BY <1>3, <1>11
<1>14. dated' = [dated EXCEPT ![h] = IF Opens(h, d) THEN @ \cup {d} ELSE @]
    BY <1>2 DEF Moves
<1>15. dated' \in [Rotators -> SUBSET Dates]
    BY <1>4, <1>5, <1>14
<1>16. ASSUME NEW k \in Rotators
       PROVE  IsFiniteSet(dated'[k]) /\ dated[k] \subseteq dated'[k]
    <2>1. dated'[k] = dated[k] \/ dated'[k] = dated[k] \cup {d}
        BY <1>5, <1>14
    <2>2. IsFiniteSet(dated[k]) /\ IsFiniteSet(dated[k] \cup {d})
        BY <1>5, FS_AddElement
    <2>. QED
        BY ONLY <2>1, <2>2
<1>17. RotTyped'
    BY <1>4, <1>6, <1>7, <1>8, <1>10, <1>12, <1>13, <1>15, <1>16 DEF RotTyped
<1>18. ASSUME NEW g \in DOMAIN D2
       PROVE  /\ g[2] \in dated'[g[1]]
              /\ \A i \in 1 .. Len(D2[g]) : D2[g][i].by = g[1] /\ D2[g][i].date = g[2]
    <2>1. CASE g \in DOMAIN directory
        <3>1. g[1] \in Rotators /\ g[2] \in dated[g[1]]
            BY <2>1 DEF RotInv, DirectoryOK, RotTyped
        <3>. QED
            BY <1>3, <1>11, <1>16, <3>1
    <2>2. CASE g \notin DOMAIN directory
        <3>1. g = <<h, d>> /\ Opens(h, d)
            BY <1>3, <1>11, <2>2
        <3>2. dated'[h] = dated[h] \cup {d}
            BY <1>5, <1>14, <3>1
        <3>3. g[1] = h /\ g[2] = d
            BY ONLY <3>1
        <3>4. g[2] \in dated'[g[1]]
            BY ONLY <3>2, <3>3
        <3>. QED
            BY <1>3, <1>11, <3>4
    <2>. QED
        BY <2>1, <2>2
<1>. QED
    BY <1>10, <1>16, <1>17, <1>18 DEF DirectoryOK

LEMMA WrittenStays ==
    ASSUME RotInv, NEW h \in Rotators, NEW rs, NEW d, NEW how, Writing(h, rs, d, how), how # "open",
           RotTyped', \A k \in Rotators : dated[k] \subseteq dated'[k]
    PROVE  WrittenOK'
<1>1. PICK A : A = Grown(h, d, rs, how)
    OBVIOUS
<1>2. Moves(h, rs, d, how)
    BY WritingDoes
<1>3. /\ DOMAIN directory \subseteq DOMAIN A
      /\ \A g \in DOMAIN directory : \A i \in 1 .. Len(directory[g]) :
            \E j \in 1 .. Len(A[g]) : A[g][j] = directory[g][i]
      /\ ~Loses(h, d) => <<h, d>> \in DOMAIN A
      /\ how = "done" /\ ~Loses(h, d) =>
            \A i \in 1 .. Len(rs) : \E j \in 1 .. Len(A[<<h, d>>]) : A[<<h, d>>][j] = rs[i]
    <2>1. Grew(h, d, rs, how, A)
        BY <1>1, GrownIs
    <2>. QED
        BY ONLY <2>1 DEF Grew
<1>4. PICK D2 : D2 = directory' /\ \A g \in DOMAIN D2 : D2[g] = A[g]
    BY <1>1, <1>2 DEF Moves
<1>5. /\ rotation' = rotation /\ d \in Dates /\ rs \in Seq(Ro!Sighted)
      /\ \A i \in 1 .. Len(rs) : rs[i].by = h /\ rs[i].date = d
    BY DEF Writing
<1>6. written \in Seq(Ro!Sighted) /\ Dates \subseteq Nat
    BY DatesAre DEF RotInv, RotTyped
<1>7. ASSUME NEW g \in DOMAIN A, g \notin DOMAIN D2
      PROVE  g[1] \in Rotators /\ g[2] \in Dates /\ (Ro!Alone(g[1]) => g[1] = h /\ TooOld(h, g[2])')
    BY <1>1, <1>4, <1>7, SweptAre
<1>8. \A k : Ro!Alone(k)' = Ro!Alone(k)
    BY <1>5 DEF Ro!Alone
\* A record that is among the files once the write has been made.
<1>9. ASSUME NEW r \in Ro!Sighted, Ro!Alone(r.by), <<r.by, r.date>> \in DOMAIN A,
             NEW j \in 1 .. Len(A[<<r.by, r.date>>]), A[<<r.by, r.date>>][j] = r
      PROVE  (TooOld(r.by, r.date) \/ Filed(r))'
    <2>1. PICK g : g = <<r.by, r.date>>
        OBVIOUS
    <2>2. g[1] = r.by /\ g[2] = r.date
        BY ONLY <2>1
    <2>3. CASE g \in DOMAIN D2
        <3>1. D2[g] = A[g]
            BY <1>4, <2>3
        <3>2. <<r.by, r.date>> \in DOMAIN D2 /\ j \in 1 .. Len(D2[<<r.by, r.date>>])
              /\ D2[<<r.by, r.date>>][j] = r
            BY <1>9, <2>1, <2>3, <3>1
        <3>3. Filed(r)'
            BY ONLY <1>4, <3>2 DEF Filed
        <3>. QED
            BY <3>3
    <2>4. CASE g \notin DOMAIN D2
        <3>1. g[1] = h /\ TooOld(h, g[2])'
            BY <1>7, <1>9, <2>1, <2>2, <2>4
        <3>2. h = r.by /\ g[2] = r.date
            BY <2>2, <3>1
        <3>. QED
            BY <3>1, <3>2
    <2>. QED
        BY <2>3, <2>4
<1>10. ASSUME NEW r \in Ro!Sighted, TooOld(r.by, r.date) PROVE TooOld(r.by, r.date)'
    <2>1. r.by \in Rotators /\ r.date \in Nat
        BY <1>6 DEF Ro!Sighted
    <2>2. dated'[r.by] \subseteq Dates /\ IsFiniteSet(dated'[r.by])
        BY <2>1 DEF RotTyped
    <2>3. RotTyped
        BY DEF RotInv
    <2>. QED
        BY <1>5, <1>10, <2>1, <2>2, <2>3, OldStays
<1>11. ASSUME NEW r \in {written[i] : i \in 1 .. Len(written)}, Ro!Alone(r.by)
       PROVE  (TooOld(r.by, r.date) \/ Filed(r))'
    <2>1. r \in Ro!Sighted
        BY <1>6
    <2>2. TooOld(r.by, r.date) \/ Filed(r)
        BY <1>11 DEF RotInv, WrittenOK
    <2>3. CASE TooOld(r.by, r.date)
        BY <1>10, <2>1, <2>3
    <2>4. CASE Filed(r)
        <3>1. PICK g : g = <<r.by, r.date>>
            OBVIOUS
        <3>2. g \in DOMAIN directory /\ \E i \in 1 .. Len(directory[g]) : directory[g][i] = r
            BY <2>4, <3>1 DEF Filed
        <3>3. g \in DOMAIN A /\ \E j \in 1 .. Len(A[g]) : A[g][j] = r
            BY <1>3, <3>2
        <3>. QED
            BY <1>9, <1>11, <2>1, <3>1, <3>3
    <2>. QED
        BY <2>2, <2>3, <2>4
<1>12. ASSUME how = "done", NEW i \in 1 .. Len(rs), NEW r \in Ro!Sighted, r = rs[i], Ro!Alone(r.by)
       PROVE  (TooOld(r.by, r.date) \/ Filed(r))'
    <2>1. r.by = h /\ r.date = d
        BY <1>5, <1>12
    <2>2. CASE Loses(h, d)
        <3>1. TooOld(h, d)
            BY <1>5, <1>12, <2>1, <2>2 DEF RotInv, HandlerOK, Loses
        <3>. QED
            BY <1>10, <1>12, <2>1, <3>1
    <2>3. CASE ~Loses(h, d)
        <3>1. PICK g : g = <<r.by, r.date>>
            OBVIOUS
        <3>2. g = <<h, d>>
            BY <2>1, <3>1
        <3>3. g \in DOMAIN A /\ \E j \in 1 .. Len(A[g]) : A[g][j] = r
            BY <1>3, <1>12, <2>3, <3>2
        <3>. QED
            BY <1>9, <1>12, <3>1, <3>3
    <2>. QED
        BY <2>2, <2>3
<1>13. written' = IF how = "done" THEN written \o rs ELSE written
    BY <1>2 DEF Moves
<1>14. ASSUME NEW r \in {written'[i] : i \in 1 .. Len(written')}, Ro!Alone(r.by)'
       PROVE  (TooOld(r.by, r.date) \/ Filed(r))'
    <2>1. Ro!Alone(r.by)
        BY <1>8, <1>14
    <2>2. PICK i \in 1 .. Len(written') : r = written'[i]
        BY <1>14
    <2>3. CASE r \in {written[j] : j \in 1 .. Len(written)}
        BY <1>11, <2>1, <2>3
    <2>4. CASE r \notin {written[j] : j \in 1 .. Len(written)}
        <3>1. how = "done" /\ written' = written \o rs
            BY <1>13, <2>2, <2>4
        <3>2. /\ Len(written \o rs) = Len(written) + Len(rs) /\ Len(written) \in Nat /\ Len(rs) \in Nat
              /\ \A j \in 1 .. Len(written) + Len(rs) :
                    (written \o rs)[j] = IF j <= Len(written) THEN written[j] ELSE rs[j - Len(written)]
            BY ONLY <1>5, <1>6
        <3>3. i \in 1 .. Len(written) + Len(rs)
            BY <2>2, <3>1, <3>2
        <3>4. ~(i <= Len(written))
            BY <2>2, <2>4, <3>1, <3>2, <3>3
        <3>5. i - Len(written) \in 1 .. Len(rs) /\ r = rs[i - Len(written)]
            BY <2>2, <3>1, <3>2, <3>3, <3>4
        <3>6. r \in Ro!Sighted
            BY <1>5, <3>5
        <3>. QED
            BY <1>12, <2>1, <3>1, <3>5, <3>6
    <2>. QED
        BY <2>3, <2>4
<1>. QED
    BY <1>14 DEF WrittenOK

LEMMA HandlersStay ==
    ASSUME RotInv, NEW h \in Rotators, NEW rs, NEW d, NEW how, Writing(h, rs, d, how), how # "open",
           RotTyped', \A k \in Rotators : dated[k] \subseteq dated'[k],
           \A k \in Rotators : \A i \in 1 .. Len(batch'[k]) : batch'[k][i].by = k
    PROVE  \A k \in Rotators : HandlerOK(k)'
<1>1. PICK A : A = Grown(h, d, rs, how)
    OBVIOUS
<1>2. Moves(h, rs, d, how)
    BY WritingDoes
<1>3. Grew(h, d, rs, how, A)
    BY <1>1, GrownIs
<1>4. PICK D2 : D2 = directory'
    OBVIOUS
<1>5. DOMAIN D2 = DOMAIN A \ Swept(h, d, rs, how)
    BY <1>1, <1>2, <1>4 DEF Moves
<1>6. rotation \in Rotations /\ rotation' = rotation /\ d \in Dates /\ how \in Ro!Ways
    BY DEF RotInv, RotTyped, Writing
<1>7. /\ current \in [Rotators -> Dates \cup {0}] /\ stream \in [Rotators -> {"closed", "open", "unlinked"}]
      /\ DOMAIN directory \subseteq Rotators \X Dates /\ IsFiniteSet(DOMAIN directory)
      /\ Dates \subseteq Nat /\ 0 \notin Dates
    BY DatesAre DEF RotInv, RotTyped
<1>8. \A k \in Rotators : current'[k] = IF k = h THEN d ELSE current[k]
    BY <1>2, <1>7 DEF Moves
<1>9. ASSUME NEW k \in Rotators
      PROVE  stream'[k] = IF k = h
                          THEN IF Loses(h, d) THEN "unlinked"
                               ELSE IF <<h, d>> \in DOMAIN D2 THEN "open" ELSE "unlinked"
                          ELSE IF stream[k] = "open" /\ <<k, current[k]>> \notin DOMAIN D2 THEN "unlinked"
                               ELSE stream[k]
    <2>1. PICK str : str = [stream EXCEPT ![h] = IF Loses(h, d) THEN "unlinked" ELSE "open"]
        OBVIOUS
    <2>2. PICK cur : cur = [current EXCEPT ![h] = d]
        OBVIOUS
    <2>3. stream' = Ro!Unlinked(str, cur, D2)
        BY <1>2, <1>4, <2>1, <2>2 DEF Moves
    <2>4. stream'[k] = IF str[k] = "open" /\ <<k, cur[k]>> \notin DOMAIN D2 THEN "unlinked" ELSE str[k]
        BY <2>3 DEF Ro!Unlinked
    <2>5. /\ str[k] = IF k = h THEN IF Loses(h, d) THEN "unlinked" ELSE "open" ELSE stream[k]
          /\ cur[k] = IF k = h THEN d ELSE current[k]
        BY <1>7, <2>1, <2>2
    <2>. QED
        BY ONLY <2>4, <2>5
<1>10. ASSUME NEW g \in DOMAIN A, g \notin DOMAIN D2, Ro!Alone(g[1])
       PROVE  g[1] = h /\ TooOld(h, g[2])'
    BY <1>1, <1>4, <1>10, SweptAre
<1>11. \A k : Ro!Alone(k)' = Ro!Alone(k)
    BY <1>6 DEF Ro!Alone
<1>12. ASSUME NEW k \in Rotators, NEW e \in Dates, TooOld(k, e) PROVE TooOld(k, e)'
    <2>1. dated'[k] \subseteq Dates /\ IsFiniteSet(dated'[k]) /\ e \in Nat
        BY DatesAre DEF RotTyped
    <2>2. RotTyped
        BY DEF RotInv
    <2>. QED
        BY <1>6, <1>12, <2>1, <2>2, OldStays
<1>13. ASSUME NEW k \in Rotators, stream'[k] = "open" PROVE <<k, current'[k]>> \in DOMAIN D2
    <2>1. CASE k = h
        BY <1>8, <1>9, <1>13, <2>1
    <2>2. CASE k # h
        BY <1>8, <1>9, <1>13, <2>2
    <2>. QED
        BY <2>1, <2>2
<1>14. ASSUME NEW k \in Rotators, NEW e \in Dates, Ro!Alone(k), stream'[k] = "unlinked", current'[k] = e
       PROVE  TooOld(k, e)'
    <2>1. HandlerOK(k)
        BY DEF RotInv
    <2>2. CASE k = h
        <3>1. e = d
            BY <1>8, <1>14, <2>2
        <3>2. CASE Loses(h, d)
            <4>1. TooOld(k, e)
                BY <1>14, <2>1, <2>2, <3>1, <3>2 DEF Loses, HandlerOK
            <4>. QED
                BY <1>12, <4>1
        <3>3. CASE ~Loses(h, d)
            <4>1. PICK g : g = <<h, d>>
                OBVIOUS
            <4>2. g \notin DOMAIN D2
                BY <1>9, <1>14, <2>2, <3>3, <4>1
            <4>3. g \in DOMAIN A
                BY <1>3, <3>3, <4>1 DEF Grew
            <4>4. g[1] = h /\ g[2] = d
                BY ONLY <4>1
            <4>5. TooOld(h, g[2])'
                BY <1>10, <1>14, <2>2, <4>2, <4>3, <4>4
            <4>. QED
                BY <2>2, <3>1, <4>4, <4>5
        <3>. QED
            BY <3>2, <3>3
    <2>3. CASE k # h
        <3>1. e = current[k]
            BY <1>8, <1>14, <2>3
        <3>2. CASE stream[k] = "unlinked"
            <4>1. TooOld(k, e)
                BY <1>14, <2>1, <3>1, <3>2 DEF HandlerOK
            <4>. QED
                BY <1>12, <4>1
        <3>3. CASE stream[k] # "unlinked"
            <4>1. PICK g : g = <<k, e>>
                OBVIOUS
            <4>2. g \notin DOMAIN D2 /\ stream[k] = "open"
                BY <1>9, <1>14, <2>3, <3>1, <3>3, <4>1
            <4>3. g \in DOMAIN directory
                BY <2>1, <3>1, <4>1, <4>2 DEF HandlerOK
            <4>4. g \in DOMAIN A
                BY <1>3, <4>3 DEF Grew
            <4>5. g[1] = k
                BY ONLY <4>1
            <4>6. k = h
                BY <1>10, <1>14, <4>2, <4>4, <4>5
            <4>. QED
                BY <2>3, <4>6
        <3>. QED
            BY <3>2, <3>3
    <2>. QED
        BY <2>2, <2>3
<1>15. ASSUME NEW k \in Rotators, rotation.maxFiles > 0, ~rotation.frail, current'[k] # 0
       PROVE  Cardinality({f \in DOMAIN D2 : f[1] = k /\ f[2] # current'[k]}) <= rotation.maxFiles
    <2>1. rotation.maxFiles \in Nat /\ how = "done"
        BY <1>6, <1>15, RotationIs, WaysAre
    <2>2. PICK S : S = {f \in DOMAIN D2 : f[1] = k /\ f[2] # current'[k]}
        OBVIOUS
    <2>3. DOMAIN D2 \subseteq DOMAIN directory \cup {<<h, d>>}
        BY <1>3, <1>5 DEF Grew
    <2>4. CASE k = h /\ d # current[h]
        <3>1. PICK G : G = {f \in DOMAIN A \ Ro!Stale(h, DOMAIN A) : f[1] = h}
            OBVIOUS
        <3>2. IsFiniteSet(G) /\ Cardinality(G) <= rotation.maxFiles
            <4>1. DOMAIN A \subseteq Rotators \X Dates /\ IsFiniteSet(DOMAIN A)
                BY <1>3 DEF Grew
            <4>. QED
                BY <1>6, <1>15, <3>1, <4>1, SweptIsFew
        <3>3. DOMAIN D2 = DOMAIN A \ Ro!Stale(h, DOMAIN A)
            BY <1>1, <1>5, <1>15, <2>1, <2>4 DEF Swept
        <3>4. S \subseteq G
            BY <2>2, <2>4, <3>1, <3>3
        <3>5. Cardinality(S) <= rotation.maxFiles
            BY <2>1, <3>2, <3>4, CountLess
        <3>. QED
            BY <2>2, <3>5
    <2>5. CASE ~(k = h /\ d # current[h])
        <3>1. current'[k] = current[k]
            BY <1>8, <2>5
        <3>2. Cardinality(OwnFiles(k)) <= rotation.maxFiles
            BY <1>15, <3>1 DEF RotInv, HandlerOK
        <3>3. IsFiniteSet(OwnFiles(k))
            BY <1>7, FS_Subset DEF OwnFiles
        <3>4. ASSUME NEW f \in S PROVE f \in OwnFiles(k)
            <4>1. f \in DOMAIN D2 /\ f[1] = k /\ f[2] # current[k]
                BY <2>2, <3>1
            <4>2. f # <<h, d>>
                BY <2>5, <4>1
            <4>. QED
                BY <2>3, <4>1, <4>2 DEF OwnFiles
        <3>5. Cardinality(S) <= rotation.maxFiles
            BY <2>1, <3>2, <3>3, <3>4, CountLess
        <3>. QED
            BY <2>2, <3>5
    <2>. QED
        BY <2>4, <2>5
<1>16. ASSUME NEW k \in Rotators PROVE HandlerOK(k)'
    <2>1. \A e \in Dates : (Ro!Alone(k) /\ stream[k] = "unlinked" /\ current[k] = e => TooOld(k, e))'
        BY <1>11, <1>14
    <2>2. (rotation.maxFiles > 0 /\ ~rotation.frail /\ current[k] # 0
              => Cardinality(OwnFiles(k)) <= rotation.maxFiles)'
        BY <1>4, <1>6, <1>15 DEF OwnFiles
    <2>. QED
        BY <1>4, <1>13, <2>1, <2>2 DEF HandlerOK
<1>. QED
    BY <1>16

\* The file does not open: the handler has its date and no stream.
LEMMA NotOpened ==
    ASSUME RotInv, NEW h \in Rotators, NEW rs, NEW d, Writing(h, rs, d, "open"),
           came' \in Nat, batch' \in [Rotators -> Seq(Ro!Sighted)],
           \A k \in Rotators : \A i \in 1 .. Len(batch'[k]) : batch'[k][i].by = k
    PROVE  RotInv'
<1>1. Moves(h, rs, d, "open")
    BY WritingDoes
<1>2. /\ current' = [current EXCEPT ![h] = d] /\ stream' = [stream EXCEPT ![h] = "closed"]
      /\ directory' = directory /\ dated' = dated /\ written' = written
      /\ rotation' = rotation /\ d \in Dates
    BY <1>1 DEF Moves, Writing
<1>3. RotTyped'
    BY <1>2 DEF RotInv, RotTyped
<1>4. DirectoryOK'
    BY <1>2 DEF RotInv, DirectoryOK
<1>5. /\ \A k : Ro!Alone(k)' = Ro!Alone(k)
      /\ \A k, e : TooOld(k, e)' = TooOld(k, e)
      /\ \A r : Filed(r)' = Filed(r)
    BY <1>2 DEF Ro!Alone, TooOld, Filed
<1>6. WrittenOK'
    BY <1>2, <1>5 DEF RotInv, WrittenOK
<1>7. ~rotation.frail => FALSE
    BY WaysAre DEF Writing, RotInv, RotTyped
<1>8. ASSUME NEW k \in Rotators PROVE HandlerOK(k)'
    <2>1. /\ current'[k] = IF k = h THEN d ELSE current[k]
          /\ stream'[k] = IF k = h THEN "closed" ELSE stream[k]
        BY <1>2 DEF RotInv, RotTyped
    <2>2. HandlerOK(k)
        BY DEF RotInv
    <2>3. stream'[k] = "open" => <<k, current'[k]>> \in DOMAIN directory'
        <3>1. CASE k = h
            BY <2>1, <3>1
        <3>2. CASE k # h
            BY <1>2, <2>1, <2>2, <3>2 DEF HandlerOK
        <3>. QED
            BY <3>1, <3>2
    <2>4. \A e \in Dates : (Ro!Alone(k) /\ stream[k] = "unlinked" /\ current[k] = e => TooOld(k, e))'
        <3>1. CASE k = h
            BY <2>1, <3>1
        <3>2. CASE k # h
            BY <1>5, <2>1, <2>2, <3>2 DEF HandlerOK
        <3>. QED
            BY <3>1, <3>2
    <2>5. rotation'.frail
        BY <1>2, <1>7
    <2>. QED
        BY <2>3, <2>4, <2>5 DEF HandlerOK
<1>. QED
    BY <1>3, <1>4, <1>6, <1>8 DEF RotInv

LEMMA WriteSteps ==
    ASSUME RotInv, NEW h \in Rotators, NEW rs, NEW d, NEW how, Writing(h, rs, d, how),
           came' \in Nat, batch' \in [Rotators -> Seq(Ro!Sighted)],
           \A k \in Rotators : \A i \in 1 .. Len(batch'[k]) : batch'[k][i].by = k
    PROVE  RotInv'
<1>1. CASE how = "open"
    BY <1>1, NotOpened
<1>2. CASE how # "open"
    <2>1. RotTyped' /\ DirectoryOK' /\ \A k \in Rotators : dated[k] \subseteq dated'[k]
        BY <1>2, WrittenTyped
    <2>2. WrittenOK'
        BY <1>2, <2>1, WrittenStays
    <2>3. \A k \in Rotators : HandlerOK(k)'
        BY <1>2, <2>1, HandlersStay
    <2>. QED
        BY <2>1, <2>2, <2>3 DEF RotInv
<1>. QED
    BY <1>1, <1>2

LEMMA StampIs ==
    ASSUME NEW h \in Rotators, NEW ds \in Seq(Dates), came \in Nat
    PROVE  /\ Ro!Stamp(h, ds) \in Seq(Ro!Sighted) /\ Len(Ro!Stamp(h, ds)) = Len(ds)
           /\ \A i \in 1 .. Len(ds) : Ro!Stamp(h, ds)[i].by = h /\ Ro!Stamp(h, ds)[i].date = ds[i]
<1>1. DOMAIN ds = 1 .. Len(ds) /\ Len(ds) \in Nat /\ \A i \in 1 .. Len(ds) : ds[i] \in Dates
    OBVIOUS
<1>2. Ro!Stamp(h, ds) = [i \in 1 .. Len(ds) |-> [by |-> h, n |-> came + i, date |-> ds[i]]]
    BY <1>1 DEF Ro!Stamp
<1>3. \A i \in 1 .. Len(ds) : [by |-> h, n |-> came + i, date |-> ds[i]] \in Ro!Sighted
    BY <1>1 DEF Ro!Sighted
<1>. QED
    BY <1>1, <1>2, <1>3

LEMMA HandleSteps ==
    ASSUME RotInv, NEW h \in Rotators, NEW date \in Dates, Ro!Handle(h, date)
    PROVE  RotInv'
<1>1. PICK how \in Ro!Ways : Ro!Write(h, Ro!Stamp(h, <<date>>), how)
    BY DEF Ro!Handle
<1>2. came' = came + 1 /\ came \in Nat /\ rotation' = rotation /\ batch' = batch
    BY DEF Ro!Handle, RotInv, RotTyped
<1>10. PICK ds : ds = <<date>>
    OBVIOUS
<1>4. ds \in Seq(Dates) /\ ds = <<date>> /\ Len(ds) = 1 /\ ds[1] = date
    BY <1>10
<1>3. PICK rs : rs = Ro!Stamp(h, ds)
    OBVIOUS
<1>5. rs \in Seq(Ro!Sighted) /\ Len(rs) = 1 /\ rs[1].by = h /\ rs[1].date = date
    <2>1. 1 \in 1 .. Len(ds)
        BY ONLY <1>4
    <2>. QED
        BY <1>2, <1>3, <1>4, <2>1, StampIs
<1>6. rs # <<>> /\ \A i \in 1 .. Len(rs) : rs[i].by = h /\ rs[i].date = date
    <2>1. rs # <<>>
        <3>1. Len(<<>>) = 0
            OBVIOUS
        <3>2. Len(rs) = 1
            BY <1>5
        <3>. QED
            BY ONLY <3>1, <3>2
    <2>2. \A i \in 1 .. Len(rs) : i = 1
        BY ONLY <1>5
    <2>. QED
        BY <1>5, <2>1, <2>2
<1>7. Writing(h, rs, date, how)
    BY <1>1, <1>2, <1>3, <1>4, <1>5, <1>6 DEF Writing
<1>8. came' \in Nat /\ batch' \in [Rotators -> Seq(Ro!Sighted)]
    BY <1>2 DEF RotInv, RotTyped
<1>9. \A k \in Rotators : \A i \in 1 .. Len(batch'[k]) : batch'[k][i].by = k
    <2>1. \A k \in Rotators : HandlerOK(k)
        BY DEF RotInv
    <2>. QED
        BY <1>2, <2>1 DEF HandlerOK
<1>. QED
    BY <1>7, <1>8, <1>9, WriteSteps

\* The parts of the state that a step with no write leaves alone.
LEMMA OthersStay ==
    ASSUME RotInv, rotation' = rotation, directory' = directory, written' = written, dated' = dated,
           current' = current \/ \A k \in Rotators : current'[k] = 0,
           current' \in [Rotators -> Dates \cup {0}],
           stream' \in [Rotators -> {"closed", "open", "unlinked"}],
           \A k \in Rotators : stream'[k] = "closed" \/ (stream'[k] = stream[k] /\ current' = current),
           came' \in Nat, batch' \in [Rotators -> Seq(Ro!Sighted)],
           \A k \in Rotators : \A i \in 1 .. Len(batch'[k]) : batch'[k][i].by = k
    PROVE  RotInv'
<1>1. RotTyped'
    BY DEF RotInv, RotTyped
<1>2. DirectoryOK'
    BY DEF RotInv, DirectoryOK
<1>3. /\ \A k : Ro!Alone(k)' = Ro!Alone(k)
      /\ \A k, e : TooOld(k, e)' = TooOld(k, e)
      /\ \A r : Filed(r)' = Filed(r)
    BY DEF Ro!Alone, TooOld, Filed
<1>4. WrittenOK'
    BY <1>3 DEF RotInv, WrittenOK
<1>5. ASSUME NEW k \in Rotators PROVE HandlerOK(k)'
    <2>1. HandlerOK(k)
        BY DEF RotInv
    <2>2. stream'[k] = "open" => <<k, current'[k]>> \in DOMAIN directory'
        BY <2>1 DEF HandlerOK
    <2>3. \A e \in Dates : (Ro!Alone(k) /\ stream[k] = "unlinked" /\ current[k] = e => TooOld(k, e))'
        BY <1>3, <2>1 DEF HandlerOK
    <2>4. ASSUME current'[k] # 0 PROVE OwnFiles(k)' = OwnFiles(k) /\ current[k] # 0
        BY <2>4 DEF OwnFiles
    <2>5. (rotation.maxFiles > 0 /\ ~rotation.frail /\ current[k] # 0
              => Cardinality(OwnFiles(k)) <= rotation.maxFiles)'
        BY <2>1, <2>4 DEF HandlerOK
    <2>. QED
        BY <2>2, <2>3, <2>5 DEF HandlerOK
<1>. QED
    BY <1>1, <1>2, <1>4, <1>5 DEF RotInv

LEMMA BatchSteps ==
    ASSUME RotInv, NEW h \in Rotators, NEW ds \in Seq(Dates), Ro!HandleBatch(h, ds)
    PROVE  RotInv'
<1>1. /\ came' = came + Len(ds) /\ came \in Nat /\ Len(ds) \in Nat
      /\ batch' = [batch EXCEPT ![h] = Ro!Stamp(h, ds)]
      /\ UNCHANGED <<rotation, current, stream, directory, written, dated, closes>>
    BY DEF Ro!HandleBatch, RotInv, RotTyped
<1>2. PICK rs : rs = Ro!Stamp(h, ds)
    OBVIOUS
<1>3. rs \in Seq(Ro!Sighted) /\ \A i \in 1 .. Len(rs) : rs[i].by = h
    BY <1>1, <1>2, StampIs
<1>4. batch \in [Rotators -> Seq(Ro!Sighted)] /\ \A k \in Rotators : HandlerOK(k)
    BY DEF RotInv, RotTyped
<1>5. ASSUME NEW k \in Rotators PROVE batch'[k] = IF k = h THEN rs ELSE batch[k]
    BY <1>1, <1>2, <1>4
<1>6. batch' \in [Rotators -> Seq(Ro!Sighted)]
    BY <1>1, <1>2, <1>3, <1>4
<1>7. \A k \in Rotators : \A i \in 1 .. Len(batch'[k]) : batch'[k][i].by = k
    BY <1>3, <1>4, <1>5 DEF HandlerOK
<1>. QED
    BY <1>1, <1>6, <1>7, OthersStay DEF RotInv, RotTyped

\* The first part of a batch: there is one, and it is of one date.
LEMMA FirstPartIs ==
    ASSUME NEW rs \in Seq(Ro!Sighted), rs # <<>>
    PROVE  /\ Ro!FirstPart(rs) \in Seq(Ro!Sighted) /\ Ro!FirstPart(rs) # <<>>
           /\ Len(Ro!FirstPart(rs)) <= Len(rs)
           /\ \A i \in 1 .. Len(Ro!FirstPart(rs)) :
                Ro!FirstPart(rs)[i] = rs[i] /\ Ro!FirstPart(rs)[i].date = rs[1].date
<1>1. DOMAIN rs = 1 .. Len(rs) /\ Len(rs) \in Nat /\ Len(rs) > 0
    OBVIOUS
<1>2. PICK others1 : others1 = {i \in 1 .. Len(rs) : rs[i].date # rs[1].date}
    OBVIOUS
<1>3. Ro!FirstPart(rs) = IF others1 = {} THEN rs ELSE SubSeq(rs, 1, Min(others1) - 1)
    BY <1>1, <1>2 DEF Ro!FirstPart, Min
<1>4. CASE others1 = {}
    BY <1>1, <1>2, <1>3, <1>4
<1>5. CASE others1 # {}
    <2>1. others1 \subseteq Nat
        BY <1>2
    <2>2. Min(others1) \in others1 /\ \A m \in others1 : Min(others1) <= m
        BY <1>5, <2>1, LeastIs
    <2>3. PICK n \in Nat : n = Min(others1) - 1 /\ n > 0 /\ n < Len(rs)
        <3>1. Min(others1) \in 1 .. Len(rs) /\ Min(others1) # 1
            BY <1>2, <2>2
        <3>. QED
            BY <1>1, <3>1
    <2>4. Ro!FirstPart(rs) = SubSeq(rs, 1, n)
        BY <1>3, <1>5, <2>3
    <2>5. /\ SubSeq(rs, 1, n) \in Seq(Ro!Sighted) /\ Len(SubSeq(rs, 1, n)) = n
          /\ \A i \in 1 .. n : SubSeq(rs, 1, n)[i] = rs[i]
        BY <1>1, <2>3
    <2>6. ASSUME NEW i \in 1 .. n PROVE rs[i].date = rs[1].date
        <3>1. ~(n + 1 <= i) /\ i \in 1 .. Len(rs)
            BY <1>1, <2>3
        <3>4. PICK k : k = Min(others1)
            OBVIOUS
        <3>5. k \in Nat /\ n \in Nat /\ n = k - 1 /\ \A m \in others1 : k <= m
            BY ONLY <2>1, <2>2, <2>3, <3>4
        <3>2. \A m \in others1 : n + 1 <= m
            BY ONLY <3>5
        <3>3. i \notin others1
            BY ONLY <3>1, <3>2
        <3>. QED
            BY ONLY <1>2, <3>1, <3>3
    <2>7. SubSeq(rs, 1, n) # <<>>
        BY <2>3, <2>5
    <2>8. Len(SubSeq(rs, 1, n)) <= Len(rs)
        BY <1>1, <2>3, <2>5
    <2>9. \A i \in 1 .. Len(SubSeq(rs, 1, n)) : SubSeq(rs, 1, n)[i] = rs[i] /\ rs[i].date = rs[1].date
        BY ONLY <2>5, <2>6
    <2>. QED
        BY ONLY <2>4, <2>5, <2>7, <2>8, <2>9
<1>. QED
    BY <1>4, <1>5

LEMMA GroupSteps ==
    ASSUME RotInv, NEW h \in Rotators, Ro!WriteGroup(h)
    PROVE  RotInv'
<1>1. PICK bs \in Seq(Ro!Sighted) : bs = batch[h] /\ bs # <<>>
    BY DEF Ro!WriteGroup, RotInv, RotTyped
<1>2. PICK rs : rs = Ro!FirstPart(bs)
    OBVIOUS
<1>3. PICK how \in Ro!Ways :
          /\ Ro!Write(h, rs, how)
          /\ batch' = [batch EXCEPT ![h] = IF how = "done" THEN SubSeq(bs, Len(rs) + 1, Len(bs)) ELSE <<>>]
    BY <1>1, <1>2 DEF Ro!WriteGroup
<1>4. came' = came /\ came \in Nat /\ rotation' = rotation
    BY DEF Ro!WriteGroup, RotInv, RotTyped
<1>5. /\ rs \in Seq(Ro!Sighted) /\ rs # <<>> /\ Len(rs) <= Len(bs)
      /\ \A i \in 1 .. Len(rs) : rs[i] = bs[i] /\ rs[i].date = bs[1].date
    BY <1>1, <1>2, FirstPartIs
<1>6. /\ batch \in [Rotators -> Seq(Ro!Sighted)]
      /\ \A k \in Rotators : \A i \in 1 .. Len(batch[k]) : batch[k][i].by = k
    BY DEF RotInv, RotTyped, HandlerOK
<1>7. \A i \in 1 .. Len(rs) : rs[i].by = h /\ rs[i].date = bs[1].date
    <2>1. Len(rs) \in Nat /\ Len(bs) \in Nat
        BY <1>1, <1>5
    <2>. QED
        BY <1>1, <1>5, <1>6, <2>1
<1>8. bs[1].date \in Dates
    <2>1. bs[1] \in Ro!Sighted
        BY <1>1
    <2>. QED
        BY <2>1 DEF Ro!Sighted
<1>9. Writing(h, rs, bs[1].date, how)
    BY <1>3, <1>4, <1>5, <1>7, <1>8 DEF Writing
<1>10. PICK rest : rest = IF how = "done" THEN SubSeq(bs, Len(rs) + 1, Len(bs)) ELSE <<>>
    OBVIOUS
<1>11. rest \in Seq(Ro!Sighted) /\ \A i \in 1 .. Len(rest) : rest[i].by = h
    <2>1. CASE how = "done"
        <3>1. PICK n \in Nat : n = Len(rs) /\ n <= Len(bs) /\ n > 0
            BY <1>5
        <3>2. PICK m \in Nat : m = Len(bs)
            BY <1>1
        <3>3. rest = SubSeq(bs, n + 1, m)
            BY <1>10, <2>1, <3>1, <3>2
        <3>4. /\ SubSeq(bs, n + 1, m) \in Seq(Ro!Sighted)
              /\ \A i \in 1 .. Len(SubSeq(bs, n + 1, m)) : n + i \in 1 .. m /\ SubSeq(bs, n + 1, m)[i] = bs[n + i]
            BY ONLY <1>1, <3>1, <3>2
        <3>. QED
            BY <1>1, <1>6, <3>2, <3>3, <3>4
    <2>2. CASE how # "done"
        <3>1. rest = <<>>
            BY <1>10, <2>2
        <3>2. <<>> \in Seq(Ro!Sighted) /\ Len(<<>>) = 0
            OBVIOUS
        <3>. QED
            BY <3>1, <3>2
    <2>. QED
        BY <2>1, <2>2
<1>12. batch' = [batch EXCEPT ![h] = rest]
    BY <1>3, <1>10
<1>13. batch' \in [Rotators -> Seq(Ro!Sighted)]
    BY <1>6, <1>11, <1>12
<1>14. ASSUME NEW k \in Rotators PROVE \A i \in 1 .. Len(batch'[k]) : batch'[k][i].by = k
    <2>1. batch'[k] = IF k = h THEN rest ELSE batch[k]
        BY <1>6, <1>12
    <2>. QED
        BY <1>6, <1>11, <2>1
<1>. QED
    BY <1>4, <1>9, <1>13, <1>14, WriteSteps

LEMMA CloseSteps ==
    ASSUME RotInv, NEW h \in Rotators, Ro!Close(h)
    PROVE  RotInv'
<1>1. /\ stream' = [stream EXCEPT ![h] = "closed"]
      /\ UNCHANGED <<rotation, current, directory, batch, written, dated, came>>
    BY DEF Ro!Close
<1>2. /\ stream \in [Rotators -> {"closed", "open", "unlinked"}] /\ came \in Nat
      /\ current \in [Rotators -> Dates \cup {0}] /\ batch \in [Rotators -> Seq(Ro!Sighted)]
      /\ \A k \in Rotators : \A i \in 1 .. Len(batch[k]) : batch[k][i].by = k
    BY DEF RotInv, RotTyped, HandlerOK
<1>3. stream' \in [Rotators -> {"closed", "open", "unlinked"}]
    BY <1>1, <1>2
<1>4. \A k \in Rotators : stream'[k] = "closed" \/ (stream'[k] = stream[k] /\ current' = current)
    BY <1>1, <1>2
<1>. QED
    BY <1>1, <1>2, <1>3, <1>4, OthersStay

LEMMA RestartSteps ==
    ASSUME RotInv, Ro!Restart
    PROVE  RotInv'
<1>1. /\ current' = [h \in Rotators |-> 0] /\ stream' = [h \in Rotators |-> "closed"]
      /\ batch' = [h \in Rotators |-> <<>>]
      /\ UNCHANGED <<rotation, directory, written, dated, came>>
    BY DEF Ro!Restart, Ro!NoDate
<1>2. came' \in Nat
    BY <1>1 DEF RotInv, RotTyped
<1>3. /\ current' \in [Rotators -> Dates \cup {0}] /\ \A k \in Rotators : current'[k] = 0
      /\ stream' \in [Rotators -> {"closed", "open", "unlinked"}]
      /\ \A k \in Rotators : stream'[k] = "closed"
    BY <1>1
<1>4. <<>> \in Seq(Ro!Sighted) /\ Len(<<>>) = 0
    OBVIOUS
<1>5. \A k \in Rotators : batch'[k] = <<>>
    BY <1>1
<1>6. batch' \in [Rotators -> Seq(Ro!Sighted)]
    BY <1>1, <1>4
<1>7. \A k \in Rotators : \A i \in 1 .. Len(batch'[k]) : batch'[k][i].by = k
    BY <1>4, <1>5
<1>. QED
    BY <1>1, <1>2, <1>3, <1>6, <1>7, OthersStay

LEMMA RotatingBegins == Ro!Init => RotInv
<1>. SUFFICES ASSUME Ro!Init PROVE RotInv
    OBVIOUS
<1>1. /\ rotation \in Rotations /\ current = [h \in Rotators |-> 0] /\ stream = [h \in Rotators |-> "closed"]
      /\ directory = [f \in rotation.leftover |-> <<>>] /\ batch = [h \in Rotators |-> <<>>]
      /\ written = <<>> /\ came = 0
      /\ dated = [h \in Rotators |-> {d \in Dates : <<h, d>> \in rotation.leftover}]
    BY DEF Ro!Init, Ro!NoDate
<1>2. rotation.leftover \subseteq Rotators \X Dates /\ IsFiniteSet(rotation.leftover)
    BY <1>1, RotationIs
<1>3. <<>> \in Seq(Ro!Sighted) /\ Len(<<>>) = 0
    OBVIOUS
<1>4. ASSUME NEW h \in Rotators PROVE IsFiniteSet(dated[h])
    <2>1. PICK Ds : Ds = {d \in Dates : <<h, d>> \in rotation.leftover}
        OBVIOUS
    <2>2. PICK m : m = [d \in Ds |-> <<h, d>>]
        OBVIOUS
    <2>3. m \in [Ds -> rotation.leftover]
        BY <2>1, <2>2
    <2>4. \A d \in Ds, e \in Ds : m[d] = m[e] => d = e
        BY <2>2
    <2>5. m \in Injection(Ds, rotation.leftover)
        BY <2>3, <2>4 DEF Injection, IsInjective
    <2>6. IsFiniteSet(Ds)
        BY <1>2, <2>5, FS_Injection
    <2>. QED
        BY <1>1, <2>1, <2>6
<1>5. RotTyped
    <2>1. DOMAIN directory = rotation.leftover
        BY <1>1
    <2>2. directory \in [DOMAIN directory -> Seq(Ro!Sighted)]
        BY <1>1, <1>3
    <2>3. batch \in [Rotators -> Seq(Ro!Sighted)] /\ written \in Seq(Ro!Sighted) /\ came \in Nat
        BY <1>1, <1>3
    <2>4. dated \in [Rotators -> SUBSET Dates]
        BY <1>1
    <2>5. /\ current \in [Rotators -> Dates \cup {0}]
          /\ stream \in [Rotators -> {"closed", "open", "unlinked"}]
        BY <1>1
    <2>. QED
        BY <1>1, <1>2, <1>4, <2>1, <2>2, <2>3, <2>4, <2>5 DEF RotTyped
<1>6. DirectoryOK
    <2>1. ASSUME NEW f \in DOMAIN directory
          PROVE  f[2] \in dated[f[1]] /\ Len(directory[f]) = 0
        <3>1. f \in rotation.leftover /\ directory[f] = <<>>
            BY <1>1, <2>1
        <3>2. f[1] \in Rotators /\ f[2] \in Dates /\ f = <<f[1], f[2]>>
            BY <1>2, <3>1
        <3>. QED
            BY <1>1, <1>3, <3>1, <3>2
    <2>. QED
        BY <2>1 DEF DirectoryOK
<1>7. WrittenOK
    BY <1>1, <1>3 DEF WrittenOK
<1>8. ASSUME NEW k \in Rotators PROVE HandlerOK(k)
    <2>1. stream[k] = "closed" /\ batch[k] = <<>> /\ current[k] = 0
        BY <1>1
    <2>. QED
        BY <1>3, <2>1 DEF HandlerOK
<1>. QED
    BY <1>5, <1>6, <1>7, <1>8 DEF RotInv

LEMMA UnmovedStays ==
    ASSUME RotInv, rotation' = rotation, current' = current, stream' = stream, directory' = directory,
           batch' = batch, written' = written, dated' = dated, came' = came
    PROVE  RotInv'
<1>1. RotTyped'
    BY DEF RotInv, RotTyped
<1>2. DirectoryOK'
    BY DEF RotInv, DirectoryOK
<1>3. /\ \A k : Ro!Alone(k)' = Ro!Alone(k)
      /\ \A k, e : TooOld(k, e)' = TooOld(k, e)
      /\ \A r : Filed(r)' = Filed(r)
      /\ \A k : OwnFiles(k)' = OwnFiles(k)
    BY DEF Ro!Alone, TooOld, Filed, OwnFiles
<1>4. WrittenOK'
    BY <1>3 DEF RotInv, WrittenOK
<1>5. ASSUME NEW k \in Rotators PROVE HandlerOK(k)'
    BY <1>3 DEF RotInv, HandlerOK
<1>. QED
    BY <1>1, <1>2, <1>4, <1>5 DEF RotInv

LEMMA RotatingSteps == RotInv /\ [Ro!Next]_rotVars => RotInv'
<1>. SUFFICES ASSUME RotInv, [Ro!Next]_rotVars PROVE RotInv'
    OBVIOUS
<1>1. /\ rotation.handlers \subseteq Rotators
      /\ rotation.batches \subseteq Seq(Dates)
    BY RotationIs DEF RotInv, RotTyped
<1>2. CASE UNCHANGED rotVars
    <2>1. /\ rotation' = rotation /\ current' = current /\ stream' = stream /\ directory' = directory
          /\ batch' = batch /\ written' = written /\ dated' = dated /\ came' = came
        BY <1>2 DEF rotVars
    <2>. QED
        BY <2>1, UnmovedStays
<1>3. CASE Ro!Next
    <2>1. ASSUME NEW h \in rotation.handlers, NEW d \in Dates, Ro!Handle(h, d) PROVE RotInv'
        BY <1>1, <2>1, HandleSteps
    <2>2. ASSUME NEW h \in rotation.handlers, NEW ds \in rotation.batches, Ro!HandleBatch(h, ds) PROVE RotInv'
        BY <1>1, <2>2, BatchSteps
    <2>3. ASSUME NEW h \in rotation.handlers, Ro!WriteGroup(h) PROVE RotInv'
        BY <1>1, <2>3, GroupSteps
    <2>4. ASSUME NEW h \in rotation.handlers, Ro!Close(h) PROVE RotInv'
        BY <1>1, <2>4, CloseSteps
    <2>5. CASE Ro!Restart
        BY <2>5, RestartSteps
    <2>. QED
        BY <1>3, <2>1, <2>2, <2>3, <2>4, <2>5 DEF Ro!Next
<1>. QED
    BY <1>2, <1>3

LEMMA KeptFollows == RotInv => FilesAreKept
<1>. SUFFICES ASSUME RotInv PROVE FilesAreKept
    OBVIOUS
<1>1. /\ rotation \in Rotations /\ directory \in [DOMAIN directory -> Seq(Ro!Sighted)]
      /\ DOMAIN directory \subseteq Rotators \X Dates /\ IsFiniteSet(DOMAIN directory)
      /\ written \in Seq(Ro!Sighted)
    BY DEF RotInv, RotTyped
<1>2. rotation.maxFiles \in Nat
    BY <1>1, RotationIs
<1>3. Ro!OwnDate
    <2>. SUFFICES ASSUME NEW f \in DOMAIN directory, NEW i \in DOMAIN directory[f]
                  PROVE  directory[f][i].by = f[1] /\ directory[f][i].date = f[2]
        BY DEF Ro!OwnDate
    <2>1. directory[f] \in Seq(Ro!Sighted)
        BY <1>1
    <2>2. i \in 1 .. Len(directory[f])
        BY <2>1
    <2>. QED
        BY <2>2 DEF RotInv, DirectoryOK
<1>4. Ro!NewestSurvive
    <2>. SUFFICES ASSUME NEW i \in DOMAIN written, NEW r, r = written[i], Ro!Alone(r.by),
                         rotation.maxFiles = 0
                         \/ Cardinality({d \in dated[r.by] : d > r.date}) < rotation.maxFiles
                  PROVE  Ro!InItsFile(r, directory)
        BY SameCount DEF Ro!NewestSurvive
    <2>7. i \in 1 .. Len(written)
        BY <1>1
    <2>1. r \in {written[j] : j \in 1 .. Len(written)} /\ r \in Ro!Sighted
        BY <1>1, <2>7
    <2>2. TooOld(r.by, r.date) \/ Filed(r)
        BY <2>1 DEF RotInv, WrittenOK
    <2>3. ~TooOld(r.by, r.date)
        <3>1. r.by \in Rotators
            BY <2>1 DEF Ro!Sighted
        <3>2. PICK S : S = {d \in dated[r.by] : d > r.date}
            OBVIOUS
        <3>3. IsFiniteSet(S)
            BY <3>1, <3>2, FS_Subset DEF RotInv, RotTyped
        <3>4. Cardinality(S) \in Nat
            BY <3>3, FS_CardinalityType
        <3>. QED
            BY <1>2, <3>2, <3>4 DEF TooOld
    <2>4. PICK g : g = <<r.by, r.date>>
        OBVIOUS
    <2>5. g \in DOMAIN directory /\ \E j \in 1 .. Len(directory[g]) : directory[g][j] = r
        BY <2>2, <2>3, <2>4 DEF Filed
    <2>6. \E j \in DOMAIN directory[g] : directory[g][j] = r
        <3>1. directory[g] \in Seq(Ro!Sighted)
            BY <1>1, <2>5
        <3>. QED
            BY <2>5, <3>1
    <2>. QED
        BY <2>4, <2>5, <2>6 DEF Ro!InItsFile
<1>5. Ro!FewFiles
    <2>. SUFFICES ASSUME rotation.maxFiles > 0, ~rotation.frail, NEW h \in Rotators, current[h] # 0
                  PROVE  Cardinality({f \in DOMAIN directory : f[1] = h}) <= rotation.maxFiles + 1
        BY SameCount DEF Ro!FewFiles, Ro!NoDate
    <2>1. Cardinality(OwnFiles(h)) <= rotation.maxFiles
        BY DEF RotInv, HandlerOK
    <2>2. PICK T : T = OwnFiles(h) \cup {<<h, current[h]>>}
        OBVIOUS
    <2>3. IsFiniteSet(OwnFiles(h))
        BY <1>1, FS_Subset DEF OwnFiles
    <2>4. IsFiniteSet(T) /\ Cardinality(T) <= rotation.maxFiles + 1
        <3>1. IsFiniteSet(T) /\ (Cardinality(T) = Cardinality(OwnFiles(h)) \/ Cardinality(T) = Cardinality(OwnFiles(h)) + 1)
            BY <2>2, <2>3, FS_AddElement
        <3>2. Cardinality(OwnFiles(h)) \in Nat
            BY <2>3, FS_CardinalityType
        <3>. QED
            BY <1>2, <2>1, <3>1, <3>2
    <2>5. {f \in DOMAIN directory : f[1] = h} \subseteq T
        <3>. SUFFICES ASSUME NEW f \in DOMAIN directory, f[1] = h PROVE f \in T
            OBVIOUS
        <3>1. f = <<f[1], f[2]>>
            BY <1>1
        <3>. QED
            BY <2>2, <3>1 DEF OwnFiles
    <2>. QED
        BY <1>2, <2>4, <2>5, CountLess
<1>. QED
    BY <1>3, <1>4, <1>5 DEF FilesAreKept

-----------------------------------------------------------------------------
(* What is proved of each *)

\* Whatever the threads, loggers and handlers, and whatever is rewired while they
\* log: a record reaches whom its stack says, once and processed once, the depth
\* is the number of calls on the way, and a loop is cut (Logger.handle).
THEOREM StackIsWhole == Spec => []StackAndDepth
<1>1. Init => LoggerInv
    BY LoggerInits
<1>2. LoggerInv /\ [Next]_vars => LoggerInv'
    BY LoggerSteps
<1>3. LoggerInv => StackAndDepth
    BY WholeFollows, DepthFollows, CutFollows DEF StackAndDepth
<1>. QED
    BY <1>1, <1>2, <1>3, PTL DEF Spec

\* Whatever the tasks and names: what a record of a task has was bound by it or
\* inherited, and leaving a block puts back what was there (LogContext).
THEOREM TheirsIsBound == Cx!Spec => BoundIsOwn
<1>1. Cx!Init => ContextInv
    BY ContextBegins
<1>2. ContextInv /\ [Cx!Next]_ctxVars => ContextInv'
    BY ContextSteps
<1>3. ContextInv => Cx!Isolated
    BY RecordsAreOwn
<1>4. ContextInv /\ [Cx!Next]_ctxVars => [\A t \in Tasks : Cx!PutsBack(t)]_ctxVars
    BY LeavesPutBack
<1>. QED
    BY <1>1, <1>2, <1>3, <1>4, PTL DEF Cx!Spec, Cx!contextVars, ctxVars, BoundIsOwn

\* Whatever the senders, the closers and the service: a record that no socket takes
\* is raised, a daemon that comes back is found, but over a stream that broke, and
\* one thread alone leaves no connection behind (SyslogHandler.write, close).
THEOREM EachIsSentOrRaised == Sy!Spec => []SentOrRaised
<1>1. Sy!Init => SyslogInv
    BY SyslogBegins DEF Sy!Init
<1>2. SyslogInv /\ [Sy!Next]_sysVars => SyslogInv'
    BY SyslogSteps
<1>3. SyslogInv => SentOrRaised
    BY SentFollows
<1>. QED
    BY <1>1, <1>2, <1>3, PTL DEF Sy!Spec, Sy!syslogVars, sysVars

\* Whatever the threads and the uses: no handler is built that no record needed,
\* one that is installed while nobody builds another stays, and in one thread a
\* record is lost to nothing but the factory's own failure (LazyHandler).
THEOREM OneHandlerSettles == La!Spec => SettlesForGood
<1>1. La!Init => LazyInv
    BY LazyBegins
<1>2. LazyInv /\ [La!Next]_lazVars => LazyInv'
    BY LazySteps
<1>3. LazyInv => La!QuietCostsNothing /\ La!OnlyTheFactoryFails /\ La!NothingOrphaned
    BY QuietFollows, SingleFollows
<1>4. LazyInv /\ [La!Next]_lazVars => [La!Stays]_lazVars
    BY InstallsOnly
<1>. QED
    BY <1>1, <1>2, <1>3, <1>4, PTL DEF La!Spec, La!lazyVars, lazVars, SettlesForGood

\* Whatever the dates in whatever order, the batches, the failures and the restarts:
\* a record is in the file of its date, that of one of the newest dates is not swept
\* away, and no more than one file stays beyond those that are kept
\* (RotatingFileHandler.write, handle_batch, _collect).
THEOREM FilesStayKept == Ro!Spec => []FilesAreKept
<1>1. Ro!Init => RotInv
    BY RotatingBegins
<1>2. RotInv /\ [Ro!Next]_rotVars => RotInv'
    BY RotatingSteps
<1>3. RotInv => FilesAreKept
    BY KeptFollows
<1>. QED
    BY <1>1, <1>2, <1>3, PTL DEF Ro!Spec, Ro!rotVars, rotVars
==============================================================================
