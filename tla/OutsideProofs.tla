----------------------------- MODULE OutsideProofs -----------------------------
(***************************************************************************)
(* Proofs about DeduplicationHandler: an alert is not sent twice, what is  *)
(* dropped was sent or noted before, and the store forgets nothing that is *)
(* in force.  The invariant, DedupInv, ties what each process has read to  *)
(* the store (Current), the store to the decisions (Sourced, Remembered),  *)
(* and the decisions to their batches (Noting); the lock is what makes a   *)
(* step of one process keep it for the others (Locked).                    *)
(*                                                                         *)
(* And about StdlibCapture: what captures find they give back, there is    *)
(* one handler left while one is installed, and a record's path is put     *)
(* right.  The invariant, CaptureInv, says of the captures in their order  *)
(* what each keeps of each logger: the first to take it over its flags     *)
(* (Flagged) and its handlers (Restored), the others what the one before   *)
(* left there (Attached, Resorts).  That is so (Undisturbed) until a copy  *)
(* of a capture's handler has one that is not the last, or is released,    *)
(* take a logger over; without copies only the last gets a record          *)
(* (Listening), and from then on no more than the types are left.          *)
(*                                                                         *)
(* And about StdlibBridge: a record crosses once, at its level, to the     *)
(* channel of its logger.  The invariant, BridgeInv, says how the frames   *)
(* of a thread may lie on each other (Placed), which is why a record that  *)
(* was handed over goes no further; that no handler left in them was given *)
(* the record, or passed it on (Fresh, Apart); and what the histories hold *)
(* (WrittenFits, AddedFits).                                               *)
(*                                                                         *)
(* A step is first brought down to its effect (Idles, Reads, Decides, ..., *)
(* InstallDoes, ReleaseDoes, ...), and what it keeps follows from that.    *)
(***************************************************************************)
EXTENDS MCOutside, SelectionProofs, FiniteSetTheorems

-----------------------------------------------------------------------------
(* The invariant *)

Records   == [key : Keys \cup {Low}, at : Int]
Decisions == [recs : Seq(Records), when : Int, added : Seq(Alert), outcome : Outcomes]

\* What a process writes to the store it writes alone; one that is to send has a
\* decision of its own that says so.
Typed ==
    /\ TypeOK
    /\ batch \in [Processes -> Seq(Records)]
    /\ read \in [Processes -> Seq(Alert)]
    /\ mine \in [Processes -> Nat] /\ crashes \in Nat
    /\ decided \in Seq(Decisions)
    /\ \A p \in Processes : phase[p] = "forward" => mine[p] \in DOMAIN decided
    /\ \A p, q \in Processes :
           phase[p] = "forward" /\ phase[q] = "forward" /\ mine[p] = mine[q] => p = q

Locked ==
    /\ ~setup.trusted => lock = Nobody
    /\ setup.trusted => \A p \in Processes : phase[p] \in {"decide", "empty", "rewrite"} => lock = p

\* What a process read is what the store is, or what is in force of it.
Current ==
    setup.trusted => \A p \in Processes :
        /\ phase[p] = "decide" => read[p] = store
        /\ phase[p] = "empty" => \A e \in Range(store) : e.at >= now - Window => e \in Range(read[p])

\* The entry e was noted in a decision, or was in the store at the start.
Noted(e, n) == \E i \in 1 .. n : e \in Range(decided[i].added)
AtStart0(e) == \E i \in DOMAIN setup.start : e.key = setup.start[i][1] /\ e.at = 0 - setup.start[i][2]

Sourced ==
    /\ \A e \in Range(store) : Noted(e, Len(decided)) \/ AtStart0(e)
    /\ \A p \in Processes : \A e \in Range(read[p]) : Noted(e, Len(decided)) \/ AtStart0(e)

\* Each alert that was noted and is in force is in the store, or in the hands of
\* the process that is writing it again, or was lost as a crash or an exception
\* cut that short.
Remembered ==
    /\ setup.trusted =>
           \A i \in DOMAIN decided : \A e \in Range(decided[i].added) :
               e.at >= now - Window =>
                   \/ e \in Range(store) \cup lost
                   \/ \E p \in Processes : phase[p] = "rewrite" /\ e \in Range(read[p])
    /\ crashes = 0 /\ ~setup.faulty => lost = {}

\* A decision notes alerts of its batch, and only where it is to be sent.
Noting ==
    \A i \in DOMAIN decided :
        /\ Range(decided[i].added) \subseteq Alerts(decided[i])
        /\ decided[i].outcome = "dropped" => decided[i].added = <<>>
        /\ decided[i].outcome = "failed" => setup.faulty \/ setup.crashes > 0

DroppedWasNoted ==
    \A j \in DOMAIN decided :
        decided[j].outcome = "dropped" => \A r \in Alerts(decided[j]) :
            \/ \E i \in 1 .. j - 1 : \E e \in Range(decided[i].added) : Repeats(e, r)
            \/ \E i \in DOMAIN setup.start :
                   setup.start[i][1] = r.key /\ 0 - setup.start[i][2] > r.at - Window

DedupInv == Typed /\ Locked /\ Current /\ Sourced /\ Remembered /\ Noting /\ DroppedWasNoted /\ NoRepeat

-----------------------------------------------------------------------------
(* The loop over the records of a batch *)

\* What the loop carries from one record to the next.
Carried == [lines : Seq(Alert), added : Seq(Alert), alert : BOOLEAN, new : BOOLEAN, old : BOOLEAN]

AtFirst(lines) == [lines |-> lines, added |-> <<>>, alert |-> FALSE, new |-> FALSE, old |-> FALSE]

\* f is the loop over a batch, up to n.
UpToRecord(f, lines, b, n) ==
    f = [i \in 0 .. n |-> IF i = 0 THEN AtFirst(lines) ELSE Weigh(f[i - 1], b[i])]

\* The loop goes through.
LEMMA LoopExists ==
    ASSUME NEW lines, NEW b
    PROVE  \A n \in Nat : \E f : UpToRecord(f, lines, b, n)
<1>. DEFINE I == {n \in Nat : \E f : UpToRecord(f, lines, b, n)}
<1>1. 0 \in I
  <2>1. UpToRecord([i \in 0 .. 0 |-> AtFirst(lines)], lines, b, 0)
      BY DEF UpToRecord
  <2>. QED
      BY <2>1
<1>2. ASSUME NEW n \in Nat, n \in I PROVE n + 1 \in I
  <2>1. PICK f : UpToRecord(f, lines, b, n)
      BY <1>2
  <2>. DEFINE g == [i \in 0 .. n + 1 |-> IF i = n + 1 THEN Weigh(f[n], b[i]) ELSE f[i]]
  <2>2. \A i \in 0 .. n : g[i] = f[i]
      OBVIOUS
  <2>3. \A i \in 0 .. n + 1 : g[i] = IF i = 0 THEN AtFirst(lines) ELSE Weigh(g[i - 1], b[i])
    <3>. SUFFICES ASSUME NEW i \in 0 .. n + 1
                  PROVE g[i] = IF i = 0 THEN AtFirst(lines) ELSE Weigh(g[i - 1], b[i])
        OBVIOUS
    <3>1. CASE i = n + 1
        <4>1. g[i] = Weigh(f[n], b[i]) /\ i # 0 /\ i - 1 = n /\ g[n] = f[n]
            BY <2>2, <3>1
        <4>. QED
            BY <4>1
    <3>2. CASE i \in 0 .. n
        <4>1. f[i] = IF i = 0 THEN AtFirst(lines) ELSE Weigh(f[i - 1], b[i])
            BY <2>1, <3>2, Zenon DEF UpToRecord
        <4>2. i # 0 => i - 1 \in 0 .. n
            BY <3>2
        <4>. HIDE DEF g
        <4>. QED
            BY <2>2, <3>2, <4>1, <4>2
    <3>. QED
        BY <3>1, <3>2
  <2>4. UpToRecord(g, lines, b, n + 1)
      BY <2>3 DEF UpToRecord
  <2>. QED
      BY <2>4
<1>. HIDE DEF I
<1>3. Nat \subseteq I
    BY <1>1, <1>2, NatSetInduction
<1>. QED
    BY <1>3 DEF I

\* The verdict is what the last record leaves.
LEMMA VerdictIs ==
    ASSUME NEW p, Len(batch[p]) \in Nat
    PROVE  \E f : UpToRecord(f, read[p], batch[p], Len(batch[p])) /\ Verdict(p) = f[Len(batch[p])]
<1>. DEFINE F == CHOOSE f : UpToRecord(f, read[p], batch[p], Len(batch[p]))
<1>1. \E f : UpToRecord(f, read[p], batch[p], Len(batch[p]))
    BY LoopExists
<1>2. UpToRecord(F, read[p], batch[p], Len(batch[p]))
    BY <1>1
<1>3. Verdict(p) = F[Len(batch[p])]
    BY DEF Verdict, UpToRecord, AtFirst
<1>. QED
    BY <1>2, <1>3

\* One record.
LEMMA WeighIs ==
    ASSUME NEW so \in Carried, NEW r \in Records
    PROVE  LET lines == so.lines \o so.added
               new   == ~setup.trusted \/ ~IsDuplicate(lines, r)
           IN  IF r.key = Low THEN Weigh(so, r) = so
               ELSE /\ Weigh(so, r) \in Carried
                    /\ Weigh(so, r).lines = so.lines /\ Weigh(so, r).alert
                    /\ Weigh(so, r).new <=> so.new \/ new
                    /\ Weigh(so, r).added = IF so.new \/ new THEN Append(so.added, r) ELSE so.added
<1>. DEFINE lines == so.lines \o so.added
            new   == ~setup.trusted \/ ~IsDuplicate(lines, r)
            old   == setup.trusted /\ SeesOld(lines, r)
            W     == [lines |-> so.lines,
                      added |-> IF so.new \/ new THEN Append(so.added, r) ELSE so.added,
                      alert |-> TRUE, new |-> so.new \/ new, old |-> so.old \/ old]
<1>1. CASE r.key = Low
    BY <1>1 DEF Weigh
<1>2. CASE r.key # Low
    <2>1. Weigh(so, r) = W
        BY <1>2, Zenon DEF Weigh, Carried
    <2>2. r \in Alert
        BY <1>2 DEF Records, Alert
    <2>3. (so.new \/ new) \in BOOLEAN /\ (so.old \/ old) \in BOOLEAN
        OBVIOUS
    <2>4. /\ so.lines \in Seq(Alert) /\ so.added \in Seq(Alert)
          /\ Append(so.added, r) \in Seq(Alert)
        BY <2>2 DEF Carried
    <2>. HIDE DEF new, old
    <2>5. W \in Carried
        BY <2>3, <2>4, Zenon DEF Carried
    <2>6. /\ W.lines = so.lines /\ W.alert /\ W.new = (so.new \/ new)
          /\ W.added = IF so.new \/ new THEN Append(so.added, r) ELSE so.added
        BY Zenon
    <2>. HIDE DEF W
    <2>. QED
        BY <1>2, <2>1, <2>5, <2>6, Zenon DEF new
<1>. QED
    BY <1>1, <1>2

\* What a loop has found of the first n records of a batch.
Found(so, lines, b, n) ==
    /\ so \in Carried /\ so.lines = lines
    /\ \A e \in Range(so.added) : \E i \in 1 .. n : e = b[i] /\ e.key # Low
    /\ ~so.new =>
           /\ so.added = <<>>
           /\ \A i \in 1 .. n : b[i].key # Low => setup.trusted /\ IsDuplicate(lines, b[i])
    /\ so.new => so.alert
    /\ so.new /\ setup.trusted => \E i \in 1 .. n : b[i].key # Low /\ ~IsDuplicate(lines, b[i])
    /\ ~so.alert => \A i \in 1 .. n : b[i].key = Low

\* Each record adds what it is found to be.
LEMMA FoundNext ==
    ASSUME NEW n \in Nat, NEW lines \in Seq(Alert), NEW b, b[n + 1] \in Records,
           NEW so, Found(so, lines, b, n)
    PROVE  Found(Weigh(so, b[n + 1]), lines, b, n + 1)
<1>. DEFINE r == b[n + 1]
            w == Weigh(so, r)
<1>0. /\ 1 .. n + 1 = 1 .. n \cup {n + 1} /\ so \in Carried /\ so.lines = lines
      /\ so.added \in Seq(Alert) /\ so.new \in BOOLEAN
    <2>1. so \in Carried /\ so.lines = lines
        BY DEF Found
    <2>. QED
        BY <2>1 DEF Carried
<1>1. CASE r.key = Low
    <2>1. w = so
        BY <1>0, <1>1, WeighIs
    <2>2. Found(so, lines, b, n + 1)
        BY <1>0, <1>1 DEF Found
    <2>. QED
        BY <2>1, <2>2
<1>2. CASE r.key # Low
    <2>. DEFINE new == ~setup.trusted \/ ~IsDuplicate(so.lines \o so.added, r)
    <2>1. /\ w \in Carried /\ w.lines = so.lines /\ w.alert
          /\ w.new <=> so.new \/ new
          /\ w.added = IF so.new \/ new THEN Append(so.added, r) ELSE so.added
        BY <1>0, <1>2, WeighIs
    <2>2. r \in Alert
        BY <1>2 DEF Records, Alert
    <2>3. Range(Append(so.added, r)) = Range(so.added) \cup {r}
        BY <1>0, <2>2, RangeAppend
    <2>4. \A e \in Range(w.added) : \E i \in 1 .. n + 1 : e = b[i] /\ e.key # Low
        <3>. SUFFICES ASSUME NEW e \in Range(w.added) PROVE \E i \in 1 .. n + 1 : e = b[i] /\ e.key # Low
            OBVIOUS
        <3>1. CASE e = r
            BY <1>2, <3>1
        <3>2. CASE e \in Range(so.added)
            BY <1>0, <3>2 DEF Found
        <3>. QED
            BY <2>1, <2>3, <3>1, <3>2
    <2>5. so.lines \o <<>> = lines
        BY <1>0
    <2>6. ~so.new => (new <=> ~setup.trusted \/ ~IsDuplicate(lines, r))
        BY <2>5 DEF Found
    <2>. HIDE DEF new, w
    <2>7. ~w.new => /\ w.added = <<>>
                    /\ \A i \in 1 .. n + 1 : b[i].key # Low => setup.trusted /\ IsDuplicate(lines, b[i])
        BY <1>0, <2>1, <2>6 DEF Found
    <2>8. w.new /\ setup.trusted =>
              \E i \in 1 .. n + 1 : b[i].key # Low /\ ~IsDuplicate(lines, b[i])
        BY <1>0, <1>2, <2>1, <2>6 DEF Found
    <2>. QED
        BY <1>0, <2>1, <2>4, <2>7, <2>8 DEF Found, w
<1>. QED
    BY <1>1, <1>2

\* So does the verdict, of the whole batch.
LEMMA VerdictFound ==
    ASSUME NEW p, NEW n \in Nat, Len(batch[p]) = n, batch[p] \in Seq(Records), read[p] \in Seq(Alert)
    PROVE  Found(Verdict(p), read[p], batch[p], n)
<1>1. PICK f : UpToRecord(f, read[p], batch[p], n) /\ Verdict(p) = f[n]
    BY VerdictIs
<1>2. \A i \in 0 .. n : f[i] = IF i = 0 THEN AtFirst(read[p]) ELSE Weigh(f[i - 1], batch[p][i])
    BY <1>1, Zenon DEF UpToRecord
<1>. DEFINE I == {i \in Nat : i <= n => Found(f[i], read[p], batch[p], i)}
<1>3. 0 \in I
    <2>1. AtFirst(read[p]) \in Carried
        BY SMT DEF AtFirst, Carried
    <2>2. Range(<<>>) = {} /\ 1 .. 0 = {}
        BY SortedEmpty
    <2>3. Found(AtFirst(read[p]), read[p], batch[p], 0)
        BY <2>1, <2>2 DEF Found, AtFirst
    <2>. QED
        BY <1>2, <2>3
<1>4. ASSUME NEW i \in Nat, i \in I PROVE i + 1 \in I
    <2>. SUFFICES ASSUME i + 1 <= n PROVE Found(f[i + 1], read[p], batch[p], i + 1)
        OBVIOUS
    <2>1. batch[p][i + 1] \in Records /\ f[i + 1] = Weigh(f[i], batch[p][i + 1])
        BY <1>2
    <2>2. Found(f[i], read[p], batch[p], i)
        BY <1>4
    <2>. QED
        BY <2>1, <2>2, FoundNext
<1>. HIDE DEF I
<1>5. Nat \subseteq I
    BY <1>3, <1>4, NatSetInduction
<1>. QED
    BY <1>1, <1>5 DEF I

\* What a verdict says of a batch.
Judges(v, b, lines) ==
    /\ v \in Carried
    /\ Range(v.added) \subseteq {r \in Range(b) : r.key # Low}
    /\ ~Passes(v) =>
           /\ v.added = <<>>
           /\ \A r \in Range(b) : r.key # Low => \E e \in Range(lines) : Repeats(e, r)
    /\ Passes(v) /\ setup.trusted /\ {r \in Range(b) : r.key # Low} # {} =>
           \E r \in Range(b) : r.key # Low /\ \A e \in Range(lines) : ~Repeats(e, r)

\* A batch is dropped if every alert in it repeats a line that was read; and one
\* with an alert is sent only if some alert in it repeats none.
LEMMA VerdictJudges ==
    ASSUME Typed, NEW p \in Processes PROVE Judges(Verdict(p), batch[p], read[p])
<1>1. /\ batch[p] \in Seq(Records) /\ read[p] \in Seq(Alert) /\ Len(batch[p]) \in Nat
      /\ DOMAIN batch[p] = 1 .. Len(batch[p])
    BY DEF Typed
<1>. DEFINE v == Verdict(p)
            n == Len(batch[p])
<1>2. Found(v, read[p], batch[p], n)
    BY <1>1, VerdictFound
<1>3. \A r : r \in Range(batch[p]) <=> \E i \in 1 .. n : r = batch[p][i]
    BY <1>1 DEF Range
<1>. HIDE DEF v, n
<1>4. v.new \in BOOLEAN /\ v.alert \in BOOLEAN /\ v \in Carried
    BY <1>2 DEF Found, Carried
<1>5. \A e \in Range(v.added) : e \in Range(batch[p]) /\ e.key # Low
    BY <1>2, <1>3 DEF Found
<1>6. ASSUME ~Passes(v)
      PROVE  /\ v.added = <<>>
             /\ \A r \in Range(batch[p]) : r.key # Low => \E e \in Range(read[p]) : Repeats(e, r)
    BY <1>2, <1>3, <1>6 DEF Found, Passes, IsDuplicate
<1>7. ASSUME Passes(v), setup.trusted, NEW s \in Range(batch[p]), s.key # Low
      PROVE  \E r \in Range(batch[p]) : r.key # Low /\ \A e \in Range(read[p]) : ~Repeats(e, r)
    <2>1. v.alert
        BY <1>2, <1>3, <1>7 DEF Found
    <2>2. v.new
        BY <1>7, <2>1 DEF Passes
    <2>. QED
        BY <1>2, <1>3, <1>7, <2>2 DEF Found, IsDuplicate
<1>. QED
    BY <1>4, <1>5, <1>6, <1>7 DEF Judges, v

-----------------------------------------------------------------------------
(* What each step does *)

\* A process moves: nothing of the others changes, and a lock that another
\* process holds stays with it.
Moves(p) ==
    /\ setup' = setup /\ now' = now /\ crashes' \in Nat /\ crashes' >= crashes
    /\ \A q \in Processes \ {p} :
           /\ phase'[q] = phase[q] /\ batch'[q] = batch[q] /\ read'[q] = read[q] /\ mine'[q] = mine[q]
    /\ phase' \in [Processes -> Phases] /\ batch' \in [Processes -> Seq(Records)]
    /\ read' \in [Processes -> Seq(Alert)] /\ mine' \in [Processes -> Nat]

Released(p) == lock' = IF lock = p THEN Nobody ELSE lock

\* Its flush begins, or is ended, by a crash or by what the file raises, while
\* nothing is at stake.
Idles(p) ==
    /\ Moves(p) /\ Released(p)
    /\ phase'[p] \in {"idle", "enter"} /\ phase[p] \notin {"rewrite", "forward"}
    /\ UNCHANGED <<store, read, mine, decided, lost>>

Locks(p, to) ==
    /\ Moves(p) /\ phase'[p] = to
    /\ IF setup.trusted THEN lock = Nobody /\ lock' = p ELSE lock' = lock
    /\ UNCHANGED <<store, batch, mine, decided, lost>>

Reads(p) ==
    /\ phase[p] = "enter" /\ Locks(p, "decide")
    /\ read'[p] = IF setup.trusted THEN store ELSE <<>>

Collects(p) ==
    /\ phase[p] = "collect" /\ Locks(p, "empty")
    /\ Range(read'[p]) = {e \in Range(store) : e.at >= now - Window}

\* A decision is in keeping with the lines that were read: it notes alerts of its
\* batch, it is to drop only what they tell of, to send only if they do not.
Sound(d, lines) ==
    /\ Range(d.added) \subseteq Alerts(d)
    /\ d.outcome = "dropped" =>
           /\ d.added = <<>>
           /\ \A r \in Alerts(d) : \E e \in Range(lines) : Repeats(e, r)
    /\ d.outcome = "forwarding" /\ setup.trusted /\ Alerts(d) # {} =>
           \E r \in Alerts(d) : \A e \in Range(lines) : ~Repeats(e, r)

\* A decision is taken, and written to the store.
Decides(p, d) ==
    /\ Moves(p) /\ Released(p)
    /\ phase[p] = "decide" /\ phase'[p] \in {"idle", "collect", "forward"}
    /\ phase'[p] = "forward" => d.outcome = "forwarding" /\ mine'[p] = Len(decided')
    /\ d \in Decisions /\ d.recs = batch[p] /\ d.when = now
    /\ decided' = Append(decided, d)
    /\ store' = IF setup.trusted THEN store \o d.added ELSE store
    /\ UNCHANGED <<batch, read, lost>>
    /\ d.outcome \in {"forwarding", "dropped", "failed"}
    /\ d.outcome = "failed" => setup.faulty \/ setup.crashes > 0
    /\ Sound(d, read[p])

\* What was to be sent was, or was not.
Settles(p, outcome) ==
    /\ Moves(p) /\ Released(p)
    /\ phase[p] = "forward" /\ phase'[p] \in {"idle", "collect"}
    /\ outcome \in {"sent", "failed"}
    /\ outcome = "failed" => setup.faulty \/ setup.crashes > 0
    /\ decided' = [decided EXCEPT ![mine[p]].outcome = outcome]
    /\ UNCHANGED <<store, batch, read, mine, lost>>

Empties(p) ==
    /\ Moves(p) /\ lock' = lock
    /\ phase[p] = "empty" /\ phase'[p] = "rewrite" /\ store' = <<>>
    /\ UNCHANGED <<batch, read, mine, decided, lost>>

\* The lines that were read are written again, and what is not is lost.
Rewrites(p, put) ==
    /\ Moves(p) /\ Released(p)
    /\ phase[p] = "rewrite" /\ phase'[p] = "idle"
    /\ put \in Seq(Alert) /\ Range(put) \subseteq Range(read[p])
    /\ store' = store \o put
    /\ Range(read[p]) \ Range(put) \subseteq lost' /\ lost \subseteq lost'
    /\ crashes' = 0 /\ ~setup.faulty => lost' = lost
    /\ UNCHANGED <<batch, read, mine, decided>>

Does(p) ==
    \/ Idles(p) \/ Reads(p) \/ Collects(p) \/ Empties(p)
    \/ \E d \in Decisions : Decides(p, d)
    \/ \E outcome \in {"sent", "failed"} : Settles(p, outcome)
    \/ \E put \in Seq(Alert) : Rewrites(p, put)

\* The first members of a sequence.
LEMMA Prefix ==
    ASSUME NEW T, NEW s \in Seq(T), NEW n \in 0 .. Len(s)
    PROVE  SubSeq(s, 1, n) \in Seq(T) /\ Range(SubSeq(s, 1, n)) \subseteq Range(s)
           /\ (n = 0 => SubSeq(s, 1, n) = <<>>)
<1>1. SubSeq(s, 1, n) \in Seq(T) /\ DOMAIN SubSeq(s, 1, n) = 1 .. n
      /\ \A i \in 1 .. n : SubSeq(s, 1, n)[i] = s[i]
    BY SubSeqProperties
<1>2. n = 0 => SubSeq(s, 1, n) = <<>>
    BY <1>1, EmptySeq
<1>. QED
    BY <1>1, <1>2 DEF Range

\* Where a lock is, for a typed state.
LEMMA HoldIs ==
    ASSUME Typed, Locked, NEW p \in Processes, Hold(p)
    PROVE  IF setup.trusted THEN lock = Nobody /\ lock' = p ELSE lock' = lock
  BY DEF Hold, MayEnter

\* The start of a flush.
LEMMA FlushDoes ==
    ASSUME Typed, Locked, NEW p \in Processes, Flush(p) PROVE Idles(p)
<1>1. PICK b \in setup.batches :
          batch' = [batch EXCEPT ![p] = [i \in DOMAIN b |-> [key |-> b[i].key, at |-> now - b[i].age]]]
    BY DEF Flush
<1>2. b \in Seq(Logged) /\ now \in Int
    BY DedupAssumption DEF Typed, TypeOK
<1>3. [i \in DOMAIN b |-> [key |-> b[i].key, at |-> now - b[i].age]] \in Seq(Records)
    <2>1. /\ Len(b) \in Nat /\ DOMAIN b = 1 .. Len(b)
          /\ \A i \in 1 .. Len(b) : b[i] \in Logged
        BY <1>2
    <2>2. \A i \in 1 .. Len(b) : [key |-> b[i].key, at |-> now - b[i].age] \in Records
        BY <1>2, <2>1 DEF Logged, Records
    <2>. QED
        BY <2>1, <2>2, IsASeq
<1>4. lock # p
    BY DedupAssumption DEF Typed, TypeOK, Flush
<1>5. \E c \in Seq(Records) : batch' = [batch EXCEPT ![p] = c]
    BY <1>1, <1>3
<1>6. phase[p] = "idle" /\ phase' = [phase EXCEPT ![p] = "enter"]
      /\ UNCHANGED <<setup, now, store, lock, read, mine, crashes, lost, decided>>
    BY DEF Flush, GoTo, storeVars, crashVars
<1>7. Moves(p)
    BY <1>5, <1>6 DEF Typed, TypeOK, Phases, Moves
<1>. QED
    BY <1>4, <1>6, <1>7 DEF Typed, TypeOK, Idles, Released

\* Taking the lock and reading the store.
LEMMA EnterDoes ==
    ASSUME Typed, Locked, NEW p \in Processes, Enter(p) PROVE Reads(p)
<1>1. IF setup.trusted THEN lock = Nobody /\ lock' = p ELSE lock' = lock
    BY HoldIs DEF Enter
<1>2. store \in Seq(Alert) /\ <<>> \in Seq(Alert)
    BY DEF Typed, TypeOK
<1>. QED
    BY <1>1, <1>2 DEF Enter, GoTo, Typed, TypeOK, Phases, Reads, Locks, Moves, crashVars

\* Reading what is in force.
LEMMA CollectDoes ==
    ASSUME Typed, Locked, NEW p \in Processes, Collect(p) PROVE Collects(p)
<1>1. IF setup.trusted THEN lock = Nobody /\ lock' = p ELSE lock' = lock
    BY HoldIs DEF Collect
<1>. DEFINE S == {e \in Range(store) : InForce(e)}
<1>2. store \in Seq(Alert)
    BY DEF Typed, TypeOK
<1>3. Selected(store, S) \in Seq(Alert) /\ Range(Selected(store, S)) = S
    <2>1. Range(Selected(store, S)) = Range(store) \cap S
        BY <1>2, SelectedRange
    <2>2. Selected(store, S) \in Seq(Alert \cap S)
        BY <1>2, SelectedTyped
    <2>3. Seq(Alert \cap S) \subseteq Seq(Alert)
        OBVIOUS
    <2>. QED
        BY <2>1, <2>2, <2>3
<1>4. S = {e \in Range(store) : e.at >= now - Window}
    BY DEF InForce
<1>. HIDE DEF S
<1>5. \E kept \in Seq(Alert) : Range(kept) = S /\ read' = [read EXCEPT ![p] = kept]
    BY <1>3 DEF Collect, S
<1>6. /\ phase[p] = "collect" /\ phase' = [phase EXCEPT ![p] = "empty"]
      /\ UNCHANGED <<setup, now, store, batch, mine, crashes, lost, decided>>
    BY DEF Collect, GoTo, crashVars
<1>7. Moves(p)
    BY <1>5, <1>6 DEF Typed, TypeOK, Phases, Moves
<1>8. Range(read'[p]) = S
    BY <1>5 DEF Typed
<1>9. phase'[p] = "empty"
    BY <1>6 DEF Typed, TypeOK
<1>. QED
    BY <1>1, <1>4, <1>6, <1>7, <1>8, <1>9 DEF Collects, Locks

\* What can be said of a decision, made of a verdict and what was noted of it.
LEMMA DecisionIs ==
    ASSUME Typed, NEW p \in Processes, NEW noted \in Seq(Alert),
           Range(noted) \subseteq Range(Verdict(p).added), NEW outcome \in Outcomes,
           outcome = "dropped" => ~Passes(Verdict(p)) /\ noted = Verdict(p).added,
           outcome = "forwarding" => Passes(Verdict(p)),
           NEW d, d = [recs |-> batch[p], when |-> now, added |-> noted, outcome |-> outcome]
    PROVE  /\ d \in Decisions /\ d.recs = batch[p] /\ d.when = now /\ d.added = noted
           /\ d.outcome = outcome /\ Sound(d, read[p])
<1>1. batch[p] \in Seq(Records) /\ now \in Int
    BY DedupAssumption DEF Typed, TypeOK
<1>2. d \in Decisions /\ d.recs = batch[p] /\ d.when = now /\ d.added = noted /\ d.outcome = outcome
    BY <1>1 DEF Decisions
<1>3. Alerts(d) = {r \in Range(batch[p]) : r.key # Low}
    BY <1>2 DEF Alerts
<1>4. Judges(Verdict(p), batch[p], read[p])
    BY VerdictJudges
<1>. HIDE DEF Decisions
<1>5. Sound(d, read[p])
    BY <1>2, <1>3, <1>4 DEF Judges, Sound
<1>. QED
    BY <1>2, <1>5

\* What the loop noted.
LEMMA AddedTyped ==
    ASSUME Typed, NEW p \in Processes
    PROVE  Verdict(p).added \in Seq(Alert) /\ Len(Verdict(p).added) \in Nat
  BY VerdictJudges DEF Judges, Carried

\* A decision.
LEMMA DecideDoes ==
    ASSUME Typed, Locked, NEW p \in Processes, Decide(p)
    PROVE  \E d \in Decisions : Decides(p, d)
<1>. DEFINE v == Verdict(p)
            outcome == IF Passes(v) THEN "forwarding" ELSE "dropped"
            d == [recs |-> batch[p], when |-> now, added |-> v.added, outcome |-> outcome]
<1>1. v.added \in Seq(Alert) /\ outcome \in Outcomes
    BY AddedTyped DEF Outcomes
<1>2. /\ d \in Decisions /\ d.recs = batch[p] /\ d.when = now /\ d.added = v.added /\ d.outcome = outcome
      /\ Sound(d, read[p])
    <2>1. outcome = "dropped" => ~Passes(v)
        OBVIOUS
    <2>2. outcome = "forwarding" => Passes(v)
        OBVIOUS
    <2>3. Range(v.added) \subseteq Range(Verdict(p).added) /\ v.added = Verdict(p).added
        OBVIOUS
    <2>4. d = [recs |-> batch[p], when |-> now, added |-> v.added, outcome |-> outcome]
        OBVIOUS
    <2>. DEFINE noted == v.added
    <2>5. noted \in Seq(Alert) /\ Range(noted) \subseteq Range(Verdict(p).added) /\ noted = Verdict(p).added
        BY <1>1
    <2>. HIDE DEF outcome, d, noted, v
    <2>6. outcome = "dropped" => ~Passes(Verdict(p)) /\ noted = Verdict(p).added
        BY <2>1, <2>5 DEF v
    <2>7. outcome = "forwarding" => Passes(Verdict(p))
        BY <2>2 DEF v
    <2>8. d = [recs |-> batch[p], when |-> now, added |-> noted, outcome |-> outcome]
        BY <2>4 DEF noted
    <2>. QED
        BY <1>1, <2>5, <2>6, <2>7, <2>8, DecisionIs DEF noted
<1>3. /\ phase[p] = "decide" /\ decided' = Append(decided, d)
      /\ store' = IF setup.trusted THEN store \o v.added ELSE store
      /\ mine' = [mine EXCEPT ![p] = Len(decided')]
      /\ \E to \in {"idle", "collect", "forward"} :
             /\ phase' = [phase EXCEPT ![p] = to] /\ (to = "forward" => outcome = "forwarding")
      /\ Released(p)
      /\ UNCHANGED <<setup, now, batch, read, crashes, lost>>
    BY DEF Decide, Decision, AfterSending, GoTo, Unlock, Released, crashVars
<1>. HIDE DEF v, outcome, d
<1>4. Len(decided') \in Nat /\ Len(decided') = Len(decided) + 1
    BY <1>2, <1>3 DEF Typed
<1>5. Moves(p)
    BY <1>3, <1>4 DEF Typed, TypeOK, Phases, Moves
<1>6. phase'[p] \in {"idle", "collect", "forward"} /\ mine'[p] = Len(decided')
      /\ (phase'[p] = "forward" => outcome = "forwarding")
    BY <1>3 DEF Typed, TypeOK
<1>7. outcome \in {"forwarding", "dropped"}
    BY DEF outcome
<1>8. Decides(p, d)
    BY <1>2, <1>3, <1>5, <1>6, <1>7 DEF Decides
<1>. QED
    BY <1>2, <1>8

\* A decision that could not be written whole.
LEMMA StoreFailsDoes ==
    ASSUME Typed, Locked, NEW p \in Processes, StoreFails(p)
    PROVE  \E d \in Decisions : Decides(p, d)
<1>. DEFINE v == Verdict(p)
            Failed(put) == [recs |-> batch[p], when |-> now, added |-> put, outcome |-> "failed"]
<1>1. v.added \in Seq(Alert) /\ Len(v.added) \in Nat /\ v \in Carried
    BY AddedTyped, VerdictJudges DEF Judges
<1>2. PICK n \in 1 .. Len(v.added) :
          LET w == [v EXCEPT !.added = SubSeq(@, 1, n - 1)]
          IN  store' = store \o w.added /\ decided' = Append(decided, Decision(p, w, "failed"))
    BY DEF StoreFails
<1>. DEFINE put == SubSeq(v.added, 1, n - 1)
<1>3. [v EXCEPT !.added = SubSeq(@, 1, n - 1)].added = put
    BY <1>1 DEF Carried
<1>4. store' = store \o put /\ decided' = Append(decided, Failed(put))
    BY <1>2, <1>3 DEF Decision
<1>5. n - 1 \in 0 .. Len(v.added)
    BY <1>1
<1>6. put \in Seq(Alert) /\ Range(put) \subseteq Range(v.added)
    BY <1>1, <1>5, Prefix
<1>. HIDE DEF put
<1>. DEFINE d == Failed(put)
<1>7. /\ d \in Decisions /\ d.recs = batch[p] /\ d.when = now /\ d.added = put /\ d.outcome = "failed"
      /\ Sound(d, read[p])
    <2>1. d = [recs |-> batch[p], when |-> now, added |-> put, outcome |-> "failed"] /\ "failed" \in Outcomes
        BY DEF Outcomes
    <2>. HIDE DEF d
    <2>. QED
        BY <1>6, <2>1, DecisionIs
<1>8. /\ phase[p] = "decide" /\ phase' = [phase EXCEPT ![p] = "idle"] /\ setup.faulty /\ setup.trusted
      /\ Released(p)
      /\ UNCHANGED <<setup, now, batch, read, mine, crashes, lost>>
    BY DEF StoreFails, GoTo, Unlock, Released, crashVars
<1>9. decided' = Append(decided, d) /\ store' = store \o d.added
    BY <1>4, <1>7
<1>. HIDE DEF d
<1>10. Moves(p) /\ phase'[p] = "idle"
    BY <1>8 DEF Typed, TypeOK, Phases, Moves
<1>11. Decides(p, d)
    BY <1>7, <1>8, <1>9, <1>10 DEF Decides
<1>. QED
    BY <1>7, <1>11

\* Sending, whether it fails or not.
LEMMA ForwardDoes ==
    ASSUME Typed, Locked, NEW p \in Processes, Forward(p) \/ ForwardFails(p)
    PROVE  \E outcome \in {"sent", "failed"} : Settles(p, outcome)
<1>1. lock # p
    BY DedupAssumption DEF Typed, TypeOK, Forward, ForwardFails
<1>2. /\ phase[p] = "forward" /\ \E to \in {"idle", "collect"} : phase' = [phase EXCEPT ![p] = to]
      /\ UNCHANGED <<setup, now, store, lock, batch, read, mine, crashes, lost>>
    BY DEF Forward, ForwardFails, AfterSending, GoTo, storeVars, crashVars
<1>3. PICK outcome \in {"sent", "failed"} :
          /\ decided' = [decided EXCEPT ![mine[p]].outcome = outcome]
          /\ outcome = "failed" => setup.faulty
    BY DEF Forward, ForwardFails
<1>4. Moves(p) /\ phase'[p] \in {"idle", "collect"}
    BY <1>2 DEF Typed, TypeOK, Phases, Moves
<1>5. Settles(p, outcome)
    BY <1>1, <1>2, <1>3, <1>4 DEF Settles, Released
<1>. QED
    BY <1>5

\* Emptying the store.
LEMMA EmptyDoes ==
    ASSUME Typed, Locked, NEW p \in Processes, Empty(p) PROVE Empties(p)
  BY DEF Empty, GoTo, Typed, TypeOK, Phases, Empties, Moves, crashVars

\* Writing what is in force again.
LEMMA RewriteDoes ==
    ASSUME Typed, Locked, NEW p \in Processes, Rewrite(p)
    PROVE  \E put \in Seq(Alert) : Rewrites(p, put)
<1>1. read[p] \in Seq(Alert)
    BY DEF Typed
<1>2. Moves(p)
    BY DEF Rewrite, GoTo, Typed, TypeOK, Phases, Moves, crashVars
<1>3. Rewrites(p, read[p])
    BY <1>1, <1>2 DEF Rewrite, GoTo, Unlock, Released, Typed, TypeOK, Rewrites, crashVars
<1>. QED
    BY <1>1, <1>3

\* Writing it until the file raises.
LEMMA RewriteFailsDoes ==
    ASSUME Typed, Locked, NEW p \in Processes, RewriteFails(p)
    PROVE  \E put \in Seq(Alert) : Rewrites(p, put)
<1>1. PICK n \in 1 .. Len(read[p]) :
          /\ store' = store \o SubSeq(read[p], 1, n - 1)
          /\ lost' = lost \cup (Range(read[p]) \ Range(SubSeq(read[p], 1, n - 1)))
    BY DEF RewriteFails
<1>2. read[p] \in Seq(Alert) /\ n - 1 \in 0 .. Len(read[p])
    BY DEF Typed
<1>3. PICK put \in Seq(Alert) : put = SubSeq(read[p], 1, n - 1) /\ Range(put) \subseteq Range(read[p])
    <2>1. /\ SubSeq(read[p], 1, n - 1) \in Seq(Alert)
          /\ Range(SubSeq(read[p], 1, n - 1)) \subseteq Range(read[p])
        BY <1>2, Prefix
    <2>. QED
        BY <2>1
<1>4. /\ phase[p] = "rewrite" /\ phase' = [phase EXCEPT ![p] = "idle"] /\ Released(p) /\ setup.faulty
      /\ UNCHANGED <<setup, now, batch, read, mine, crashes, decided>>
    BY DEF RewriteFails, GoTo, Unlock, Released
<1>5. Moves(p) /\ phase'[p] = "idle"
    BY <1>4 DEF Typed, TypeOK, Phases, Moves
<1>6. Rewrites(p, put)
    BY <1>1, <1>3, <1>4, <1>5 DEF Rewrites
<1>. QED
    BY <1>6

\* Finding that the file cannot be opened.
LEMMA FileFailsDoes ==
    ASSUME Typed, Locked, NEW p \in Processes, FileFails(p) PROVE Idles(p)
<1>1. /\ phase[p] \in {"enter", "collect", "empty"} /\ phase' = [phase EXCEPT ![p] = "idle"] /\ Released(p)
      /\ UNCHANGED <<setup, now, store, batch, read, mine, crashes, lost, decided>>
    BY DEF FileFails, GoTo, Unlock, Released, crashVars
<1>2. Moves(p) /\ phase'[p] = "idle"
    BY <1>1 DEF Typed, TypeOK, Phases, Moves
<1>. QED
    BY <1>1, <1>2 DEF Idles

\* A crash, wherever it comes.
LEMMA CrashDoes ==
    ASSUME Typed, Locked, NEW p \in Processes, Crash(p) PROVE Does(p)
<1>. DEFINE w == Writing(p)
            Put(n) == SubSeq(w, 1, n)
<1>1. PICK n \in 0 .. Len(w) :
          /\ store' = store \o Put(n)
          /\ lost' = IF phase[p] = "rewrite" THEN lost \cup (Range(read[p]) \ Range(Put(n))) ELSE lost
          /\ decided' = CASE phase[p] = "decide" ->
                                Append(decided, Decision(p, [Verdict(p) EXCEPT !.added = Put(n)], "failed"))
                          [] phase[p] = "forward" -> [decided EXCEPT ![mine[p]].outcome = "failed"]
                          [] OTHER -> decided
    BY DEF Crash
<1>2. /\ phase[p] # "idle" /\ crashes < setup.crashes /\ crashes' = crashes + 1
      /\ phase' = [phase EXCEPT ![p] = "idle"] /\ Released(p)
      /\ UNCHANGED <<setup, now, batch, read, mine>>
    BY DEF Crash, GoTo, Unlock, Released
<1>3. /\ setup.crashes \in Nat /\ crashes \in Nat /\ store \in Seq(Alert) /\ read[p] \in Seq(Alert)
      /\ phase[p] \in Phases
    BY DedupAssumption DEF Typed, TypeOK
<1>4. Moves(p) /\ phase'[p] = "idle"
    BY <1>2, <1>3 DEF Typed, TypeOK, Phases, Moves
<1>5. CASE phase[p] = "decide"
    <2>1. w = IF setup.trusted THEN Verdict(p).added ELSE <<>>
        BY <1>5 DEF Writing
    <2>2. Verdict(p).added \in Seq(Alert) /\ Verdict(p) \in Carried
        BY AddedTyped, VerdictJudges DEF Judges
    <2>3. w \in Seq(Alert) /\ Range(w) \subseteq Range(Verdict(p).added)
        BY <2>1, <2>2, SortedEmpty
    <2>4. Put(n) \in Seq(Alert) /\ Range(Put(n)) \subseteq Range(w)
        BY <2>3, Prefix
    <2>5. ~setup.trusted => store \o Put(n) = store
        <3>. SUFFICES ASSUME ~setup.trusted PROVE store \o Put(n) = store
            OBVIOUS
        <3>1. w = <<>> /\ n = 0
            BY <2>1
        <3>2. Put(n) = <<>>
            BY <2>3, <3>1, Prefix
        <3>. QED
            BY <1>3, <3>2
    <2>6. [Verdict(p) EXCEPT !.added = Put(n)].added = Put(n)
        BY <2>2 DEF Carried
    <2>7. PICK put \in Seq(Alert) : put = Put(n)
        BY <2>4
    <2>. HIDE DEF w
    <2>. DEFINE d == [recs |-> batch[p], when |-> now, added |-> put, outcome |-> "failed"]
    <2>8. decided' = Append(decided, d) /\ store' = store \o put
        BY <1>1, <1>5, <2>6, <2>7 DEF Decision
    <2>9. Range(put) \subseteq Range(Verdict(p).added) /\ "failed" \in Outcomes
        BY <2>3, <2>4, <2>7 DEF Outcomes
    <2>10. /\ d \in Decisions /\ d.recs = batch[p] /\ d.when = now /\ d.added = put /\ d.outcome = "failed"
           /\ Sound(d, read[p])
        <3>1. d = [recs |-> batch[p], when |-> now, added |-> put, outcome |-> "failed"]
            OBVIOUS
        <3>. HIDE DEF d
        <3>. QED
            BY <2>9, <3>1, DecisionIs
    <2>. HIDE DEF d
    <2>11. ~setup.trusted => store' = store
        BY <2>5, <2>7, <2>8
    <2>12. lost' = lost
        BY <1>1, <1>5
    <2>13. Decides(p, d)
        BY <1>2, <1>3, <1>4, <1>5, <2>8, <2>10, <2>11, <2>12 DEF Decides
    <2>. QED
        BY <2>10, <2>13 DEF Does
<1>6. CASE phase[p] = "rewrite"
    <2>1. w = read[p]
        BY <1>6 DEF Writing
    <2>2. Put(n) \in Seq(Alert) /\ Range(Put(n)) \subseteq Range(read[p])
        BY <1>3, <2>1, Prefix
    <2>3. PICK put \in Seq(Alert) : put = Put(n)
        BY <2>2
    <2>. HIDE DEF w
    <2>4. /\ store' = store \o put /\ lost' = lost \cup (Range(read[p]) \ Range(put))
          /\ decided' = decided
        BY <1>1, <1>6, <2>3
    <2>5. Rewrites(p, put)
        BY <1>2, <1>3, <1>4, <1>6, <2>2, <2>3, <2>4 DEF Rewrites
    <2>. QED
        BY <2>5 DEF Does
<1>7. CASE phase[p] \notin {"decide", "rewrite"}
    <2>1. w = <<>>
        BY <1>7 DEF Writing
    <2>2. n = 0 /\ <<>> \in Seq(Alert)
        BY <2>1
    <2>3. Put(n) = <<>>
        BY <2>1, <2>2, Prefix
    <2>. HIDE DEF w
    <2>4. store' = store /\ lost' = lost
        BY <1>1, <1>3, <1>7, <2>3
    <2>5. CASE phase[p] = "forward"
        <3>1. decided' = [decided EXCEPT ![mine[p]].outcome = "failed"]
            BY <1>1, <2>5
        <3>2. Settles(p, "failed")
            BY <1>2, <1>3, <1>4, <2>4, <2>5, <3>1 DEF Settles
        <3>. QED
            BY <3>2 DEF Does
    <2>6. CASE phase[p] # "forward"
        <3>1. decided' = decided
            BY <1>1, <1>7, <2>6
        <3>2. Idles(p)
            BY <1>2, <1>4, <1>7, <2>4, <2>6, <3>1 DEF Idles
        <3>. QED
            BY <3>2 DEF Does
    <2>. QED
        BY <2>5, <2>6
<1>. QED
    BY <1>5, <1>6, <1>7

\* Time passes, or a process does one of these.
LEMMA NextDoes ==
    ASSUME Typed, Locked, Next
    PROVE  \/ now' = now + 1 /\ now < LastSecond
              /\ UNCHANGED <<setup, store, lock, phase, batch, read, mine, crashes, lost, decided>>
           \/ \E p \in Processes : Does(p)
<1>1. CASE Tick
    BY <1>1 DEF Tick, storeVars, flushVars, crashVars
<1>2. ASSUME NEW p \in Processes, Flush(p) \/ Goes(p) \/ Crash(p) PROVE Does(p)
    BY <1>2, FlushDoes, EnterDoes, DecideDoes, StoreFailsDoes, ForwardDoes, CollectDoes, EmptyDoes,
       RewriteDoes, RewriteFailsDoes, FileFailsDoes, CrashDoes DEF Goes, Does
<1>. QED
    BY <1>1, <1>2 DEF Next

-----------------------------------------------------------------------------
(* The lock *)

AtStore == {"decide", "empty", "rewrite"}

\* The lock of a step: left, kept or taken.
Lockwise(p) ==
    \/ Released(p) /\ phase'[p] \notin AtStore
    \/ lock' = lock /\ phase[p] \in AtStore /\ phase'[p] \in AtStore
    \/ phase'[p] \in AtStore /\ (IF setup.trusted THEN lock = Nobody /\ lock' = p ELSE lock' = lock)

LockTyped ==
    /\ lock \in Processes \cup {Nobody}
    /\ lock # Nobody => phase[lock] \in AtStore

\* Whichever it is, one process is at the store at most, the one that holds it.
LEMMA LockKeeps ==
    ASSUME Typed, Locked, NEW p \in Processes, Moves(p), Lockwise(p)
    PROVE  Locked' /\ LockTyped'
<1>1. /\ lock \in Processes \cup {Nobody}
      /\ lock # Nobody => phase[lock] \in AtStore
      /\ Nobody \notin Processes /\ setup' = setup
      /\ \A q \in Processes \ {p} : phase'[q] = phase[q]
    BY DedupAssumption DEF Typed, TypeOK, Moves, AtStore
<1>2. /\ ~setup.trusted => lock = Nobody
      /\ setup.trusted => \A q \in Processes : phase[q] \in AtStore => lock = q
    BY DEF Locked, AtStore
<1>3. CASE Released(p) /\ phase'[p] \notin AtStore
    <2>1. lock' = IF lock = p THEN Nobody ELSE lock
        BY <1>3 DEF Released
    <2>2. LockTyped'
        <3>1. lock' = Nobody \/ (lock' = lock /\ lock \in Processes \ {p})
            BY <1>1, <2>1
        <3>. QED
            BY <1>1, <3>1 DEF LockTyped
    <2>3. ~setup'.trusted => lock' = Nobody
        BY <1>1, <1>2, <2>1
    <2>4. ASSUME setup'.trusted, NEW q \in Processes, phase'[q] \in AtStore PROVE lock' = q
        BY <1>1, <1>2, <1>3, <2>1, <2>4
    <2>. QED
        BY <2>2, <2>3, <2>4 DEF Locked, AtStore
<1>4. CASE lock' = lock /\ phase[p] \in AtStore /\ phase'[p] \in AtStore
    BY <1>1, <1>2, <1>4 DEF Locked, LockTyped, AtStore
<1>5. CASE phase'[p] \in AtStore /\ (IF setup.trusted THEN lock = Nobody /\ lock' = p ELSE lock' = lock)
    BY <1>1, <1>2, <1>5 DEF Locked, LockTyped, AtStore
<1>. QED
    BY <1>3, <1>4, <1>5 DEF Lockwise

\* At most one process is at a trusted store.
LEMMA AloneThere ==
    ASSUME Locked, setup.trusted, NEW p \in Processes, NEW q \in Processes,
           phase[p] \in AtStore, phase[q] \in AtStore
    PROVE  p = q
  BY DEF Locked, AtStore

\* The members of a sequence.
LEMMA RangeTyped == ASSUME NEW T, NEW s \in Seq(T) PROVE \A e \in Range(s) : e \in T
  BY DEF Range

\* What the store and the histories hold are alerts, and the clock goes by one.
LEMMA Members ==
    ASSUME Typed
    PROVE  /\ now \in Int /\ Window \in Nat /\ store \in Seq(Alert)
           /\ \A e \in Range(store) : e \in Alert /\ e.at \in Int
           /\ \A p \in Processes : \A e \in Range(read[p]) : e \in Alert /\ e.at \in Int
           /\ DOMAIN decided = 1 .. Len(decided) /\ Len(decided) \in Nat
           /\ \A i \in DOMAIN decided :
                  /\ decided[i] \in Decisions /\ decided[i].added \in Seq(Alert)
                  /\ \A e \in Range(decided[i].added) : e \in Alert /\ e.at \in Int
<1>1. \A s \in Seq(Alert) : \A e \in Range(s) : e \in Alert
    BY RangeTyped
<1>2. \A e \in Alert : e.at \in Int
    BY DEF Alert
<1>3. now \in Int /\ Window \in Nat /\ store \in Seq(Alert) /\ DOMAIN decided = 1 .. Len(decided)
      /\ Len(decided) \in Nat /\ decided \in Seq(Decisions)
    BY DedupAssumption DEF Typed, TypeOK
<1>4. \A i \in DOMAIN decided : decided[i] \in Decisions
    BY <1>3
<1>5. \A i \in DOMAIN decided : decided[i].added \in Seq(Alert)
    BY <1>4 DEF Decisions
<1>6. \A p \in Processes : read[p] \in Seq(Alert)
    BY DEF Typed
<1>. HIDE DEF Alert, Decisions
<1>. QED
    BY <1>1, <1>2, <1>3, <1>4, <1>5, <1>6

-----------------------------------------------------------------------------
(* Steps that decide nothing *)

\* The decisions stay as they are.
Quiet == setup' = setup /\ decided' = decided /\ lost \subseteq lost'

\* So does what is said of them.
LEMMA QuietKeeps ==
    ASSUME DedupInv, Quiet PROVE Noting' /\ DroppedWasNoted' /\ NoRepeat'
<1>1. Noting' /\ DroppedWasNoted'
    BY DEF DedupInv, Quiet, Noting, DroppedWasNoted, Alerts, Repeats
<1>2. NoRepeat'
    BY DEF DedupInv, Quiet, NoRepeat, Alerts, Repeats
<1>. QED
    BY <1>1, <1>2

\* A process that is not to send leaves what is of a type so.
LEMMA QuietTyped ==
    ASSUME DedupInv, NEW p \in Processes, Moves(p), Quiet, phase'[p] # "forward",
           store' \in Seq(Alert), LockTyped'
    PROVE  Typed'
<1>1. \A q \in Processes : phase'[q] = "forward" => q # p /\ phase[q] = "forward" /\ mine'[q] = mine[q]
    BY DEF Moves
<1>2. TypeOK'
    <2>1. /\ setup' \in Setups /\ now' \in 0 .. LastSecond /\ phase' \in [Processes -> Phases]
          /\ decided' = decided
        BY DEF DedupInv, Typed, TypeOK, Moves, Quiet
    <2>2. \A q \in Processes : phase'[q] = "forward" => decided'[mine'[q]].outcome = "forwarding"
        BY <1>1, <2>1 DEF DedupInv, Typed, TypeOK
    <2>3. \A i \in DOMAIN decided' : decided'[i].outcome \in Outcomes
        BY <2>1 DEF DedupInv, Typed, TypeOK
    <2>. QED
        BY <2>1, <2>2, <2>3 DEF TypeOK, LockTyped, AtStore
<1>. QED
    BY <1>1, <1>2 DEF DedupInv, Typed, Moves, Quiet

\* Time passes.
LEMMA TickKeeps ==
    ASSUME DedupInv, now' = now + 1, now < LastSecond,
           UNCHANGED <<setup, store, lock, phase, batch, read, mine, crashes, lost, decided>>
    PROVE  DedupInv'
<1>0. Typed /\ now \in 0 .. LastSecond /\ LastSecond \in Nat /\ Window \in Nat
    BY DedupAssumption DEF DedupInv, Typed, TypeOK
<1>1. Typed'
    BY <1>0 DEF Typed, TypeOK
<1>2. Noting' /\ DroppedWasNoted' /\ NoRepeat'
    BY QuietKeeps DEF Quiet
<1>3. Locked' /\ Sourced'
    BY DEF DedupInv, Locked, Sourced, Noted, AtStart0
<1>4. \A at \in Int : at >= now' - Window => at >= now - Window
    BY <1>0
<1>5. Current'
    BY <1>0, <1>4, Members DEF DedupInv, Current
<1>6. Remembered'
    BY <1>0, <1>4, Members DEF DedupInv, Remembered
<1>. QED
    BY <1>1, <1>2, <1>3, <1>5, <1>6 DEF DedupInv

\* A process begins, or gives up what was not yet written.
LEMMA IdlesKeeps ==
    ASSUME DedupInv, NEW p \in Processes, Idles(p) PROVE DedupInv'
<1>0. Typed /\ Locked /\ Moves(p) /\ Lockwise(p) /\ store' \in Seq(Alert)
      /\ Quiet /\ phase'[p] # "forward"
    <2>1. Typed /\ Locked /\ Moves(p) /\ store' = store /\ store \in Seq(Alert)
        BY DEF DedupInv, Idles, Typed, TypeOK
    <2>2. phase'[p] \in {"idle", "enter"} /\ Released(p) /\ setup' = setup /\ decided' = decided /\ lost' = lost
        BY DEF Idles, Moves
    <2>. QED
        BY <2>1, <2>2 DEF Lockwise, AtStore, Quiet
<1>1. Locked' /\ LockTyped'
    BY <1>0, LockKeeps
<1>2. Typed'
    BY <1>0, <1>1, QuietTyped
<1>3. Noting' /\ DroppedWasNoted' /\ NoRepeat'
    BY <1>0, QuietKeeps
<1>4. \A q \in Processes : phase'[q] \in AtStore => phase'[q] = phase[q]
    BY DEF Idles, Moves, AtStore
<1>5. /\ read' = read /\ store' = store /\ setup' = setup /\ now' = now
      /\ decided' = decided /\ lost' = lost
    BY DEF Idles, Moves
<1>6. Current'
    BY <1>4, <1>5 DEF DedupInv, Current, AtStore
<1>7. Sourced'
    BY <1>5 DEF DedupInv, Sourced, Noted, AtStart0
<1>8. Remembered'
    <2>1. \A q \in Processes : phase[q] = "rewrite" => phase'[q] = "rewrite"
        BY <1>0 DEF Idles, Moves
    <2>2. crashes' = 0 => crashes = 0
        BY <1>0 DEF Moves, Typed
    <2>. QED
        BY <1>5, <2>1, <2>2 DEF DedupInv, Remembered
<1>. QED
    BY <1>1, <1>2, <1>3, <1>6, <1>7, <1>8 DEF DedupInv

\* A process takes the lock and reads the store.
LEMMA ReadsKeeps ==
    ASSUME DedupInv, NEW p \in Processes, Reads(p) PROVE DedupInv'
<1>0. /\ Typed /\ Locked /\ Moves(p) /\ Lockwise(p) /\ store' \in Seq(Alert)
      /\ Quiet /\ phase[p] = "enter" /\ phase'[p] = "decide"
    BY DEF DedupInv, Reads, Locks, Lockwise, AtStore, Quiet, Typed, TypeOK, Moves
<1>1. Locked' /\ LockTyped'
    BY <1>0, LockKeeps
<1>2. Typed'
    BY <1>0, <1>1, QuietTyped
<1>3. Noting' /\ DroppedWasNoted' /\ NoRepeat'
    BY <1>0, QuietKeeps
<1>4. \A q \in Processes \ {p} : phase'[q] = phase[q] /\ read'[q] = read[q]
    BY <1>0 DEF Moves
<1>5. store' = store /\ decided' = decided /\ lost' = lost /\ setup' = setup /\ now' = now
    BY <1>0 DEF Reads, Locks, Moves
<1>6. setup.trusted => read'[p] = store
    BY DEF Reads
<1>7. Range(read'[p]) \subseteq Range(store)
    BY SortedEmpty DEF Reads
<1>8. Current'
    BY <1>0, <1>4, <1>5, <1>6 DEF DedupInv, Current
<1>9. Sourced'
    BY <1>4, <1>5, <1>7 DEF DedupInv, Sourced, Noted, AtStart0
<1>10. Remembered'
    <2>2. crashes' = 0 => crashes = 0
        BY <1>0 DEF Moves, Typed
    <2>. QED
        BY <1>0, <1>4, <1>5, <2>2 DEF DedupInv, Remembered
<1>. QED
    BY <1>1, <1>2, <1>3, <1>8, <1>9, <1>10 DEF DedupInv

\* A process takes the lock and reads what is in force.
LEMMA CollectsKeeps ==
    ASSUME DedupInv, NEW p \in Processes, Collects(p) PROVE DedupInv'
<1>0. /\ Typed /\ Locked /\ Moves(p) /\ Lockwise(p) /\ store' \in Seq(Alert)
      /\ Quiet /\ phase[p] = "collect" /\ phase'[p] = "empty"
    BY DEF DedupInv, Collects, Locks, Lockwise, AtStore, Quiet, Typed, TypeOK, Moves
<1>1. Locked' /\ LockTyped'
    BY <1>0, LockKeeps
<1>2. Typed'
    BY <1>0, <1>1, QuietTyped
<1>3. Noting' /\ DroppedWasNoted' /\ NoRepeat'
    BY <1>0, QuietKeeps
<1>4. \A q \in Processes \ {p} : phase'[q] = phase[q] /\ read'[q] = read[q]
    BY <1>0 DEF Moves
<1>5. store' = store /\ decided' = decided /\ lost' = lost /\ setup' = setup /\ now' = now
    BY <1>0 DEF Collects, Locks, Moves
<1>6. /\ \A e \in Range(store) : e.at >= now - Window => e \in Range(read'[p])
      /\ Range(read'[p]) \subseteq Range(store)
    BY DEF Collects
<1>8. Current'
    BY <1>0, <1>4, <1>5, <1>6 DEF DedupInv, Current
<1>9. Sourced'
    BY <1>4, <1>5, <1>6 DEF DedupInv, Sourced, Noted, AtStart0
<1>10. Remembered'
    <2>2. crashes' = 0 => crashes = 0
        BY <1>0 DEF Moves, Typed
    <2>. QED
        BY <1>0, <1>4, <1>5, <2>2 DEF DedupInv, Remembered
<1>. QED
    BY <1>1, <1>2, <1>3, <1>8, <1>9, <1>10 DEF DedupInv

\* A process empties the store: what it holds of it is all that is in force.
LEMMA EmptiesKeeps ==
    ASSUME DedupInv, NEW p \in Processes, Empties(p) PROVE DedupInv'
<1>0. /\ Typed /\ Locked /\ Moves(p) /\ Lockwise(p) /\ store' \in Seq(Alert)
      /\ Quiet /\ phase[p] = "empty" /\ phase'[p] = "rewrite"
    BY DEF DedupInv, Empties, Lockwise, AtStore, Quiet, Typed, TypeOK, Moves
<1>1. Locked' /\ LockTyped'
    BY <1>0, LockKeeps
<1>2. Typed'
    BY <1>0, <1>1, QuietTyped
<1>3. Noting' /\ DroppedWasNoted' /\ NoRepeat'
    BY <1>0, QuietKeeps
<1>4. \A q \in Processes : read'[q] = read[q] /\ (q # p => phase'[q] = phase[q])
    BY <1>0 DEF Empties, Moves
<1>5. store' = <<>> /\ decided' = decided /\ lost' = lost /\ setup' = setup /\ now' = now
    BY <1>0 DEF Empties, Moves
<1>6. Range(store') = {}
    BY <1>5, SortedEmpty
<1>7. setup.trusted => \A q \in Processes : phase[q] \in AtStore => q = p
    BY <1>0, AloneThere DEF AtStore
<1>8. Current'
    BY <1>0, <1>4, <1>5, <1>7 DEF Current, AtStore
<1>9. Sourced'
    BY <1>4, <1>5, <1>6 DEF DedupInv, Sourced, Noted, AtStart0
<1>10. Remembered'
    <2>1. ASSUME setup.trusted, NEW i \in DOMAIN decided, NEW e \in Range(decided[i].added),
                 e.at >= now - Window
          PROVE  e \in lost \/ e \in Range(read[p])
        <3>1. ~(\E q \in Processes : phase[q] = "rewrite")
            BY <1>0, <1>7, <2>1 DEF AtStore
        <3>2. e \in Range(store) \cup lost
            BY <2>1, <3>1 DEF DedupInv, Remembered
        <3>. QED
            BY <1>0, <2>1, <3>2 DEF DedupInv, Current
    <2>2. crashes' = 0 => crashes = 0
        BY <1>0 DEF Moves, Typed
    <2>. QED
        BY <1>0, <1>4, <1>5, <2>1, <2>2 DEF DedupInv, Remembered
<1>. QED
    BY <1>1, <1>2, <1>3, <1>8, <1>9, <1>10 DEF DedupInv

\* A process writes them again, or some of them.
LEMMA RewritesKeeps ==
    ASSUME DedupInv, NEW p \in Processes, NEW put \in Seq(Alert), Rewrites(p, put) PROVE DedupInv'
<1>0. /\ Typed /\ Locked /\ Moves(p) /\ Lockwise(p) /\ store \in Seq(Alert)
      /\ Quiet /\ phase[p] = "rewrite" /\ phase'[p] = "idle"
    BY DEF DedupInv, Rewrites, Lockwise, AtStore, Quiet, Typed, TypeOK, Moves
<1>1. Locked' /\ LockTyped'
    BY <1>0, LockKeeps
<1>2. store' \in Seq(Alert) /\ Range(store') = Range(store) \cup Range(put)
    BY <1>0, RangeConcatenation DEF Rewrites
<1>3. Typed'
    BY <1>0, <1>1, <1>2, QuietTyped
<1>4. Noting' /\ DroppedWasNoted' /\ NoRepeat'
    BY <1>0, QuietKeeps
<1>5. \A q \in Processes : read'[q] = read[q] /\ (q # p => phase'[q] = phase[q])
    BY <1>0 DEF Rewrites, Moves
<1>6. /\ decided' = decided /\ setup' = setup /\ now' = now /\ Range(put) \subseteq Range(read[p])
      /\ Range(read[p]) \ Range(put) \subseteq lost' /\ lost \subseteq lost'
      /\ crashes' = 0 /\ ~setup.faulty => lost' = lost
    BY <1>0 DEF Rewrites, Moves
<1>7. setup.trusted => \A q \in Processes : phase[q] \in AtStore => q = p
    BY <1>0, AloneThere DEF AtStore
<1>8. Current'
    BY <1>0, <1>5, <1>6, <1>7 DEF Current, AtStore
<1>9. Sourced'
    <2>1. \A e : (Noted(e, Len(decided)) <=> Noted(e, Len(decided))') /\ (AtStart0(e) <=> AtStart0(e)')
        BY <1>6 DEF Noted, AtStart0
    <2>2. Range(put) \subseteq Range(read[p])
        BY <1>6
    <2>. QED
        BY <1>2, <1>5, <1>6, <2>1, <2>2 DEF DedupInv, Sourced
<1>10. Remembered'
    <2>1. ASSUME setup.trusted, NEW i \in DOMAIN decided, NEW e \in Range(decided[i].added),
                 e.at >= now - Window
          PROVE  e \in Range(store') \cup lost'
        <3>1. \/ e \in Range(store) \cup lost
              \/ \E q \in Processes : phase[q] = "rewrite" /\ e \in Range(read[q])
            BY <2>1 DEF DedupInv, Remembered
        <3>2. e \in Range(store) \cup lost \cup Range(read[p])
            BY <1>7, <2>1, <3>1 DEF AtStore
        <3>. QED
            BY <1>2, <1>6, <3>2
    <2>2. crashes' = 0 => crashes = 0
        BY <1>0 DEF Moves, Typed
    <2>. QED
        BY <1>0, <1>6, <2>1, <2>2 DEF DedupInv, Remembered
<1>. QED
    BY <1>1, <1>3, <1>4, <1>8, <1>9, <1>10 DEF DedupInv

-----------------------------------------------------------------------------
(* Steps that decide *)

\* One decision more.
Adds(d) ==
    /\ Len(decided) \in Nat /\ DOMAIN decided = 1 .. Len(decided)
    /\ DOMAIN decided' = 1 .. Len(decided) + 1 /\ Len(decided') = Len(decided) + 1
    /\ \A i \in 1 .. Len(decided) : decided'[i] = decided[i]
    /\ decided'[Len(decided) + 1] = d /\ decided' \in Seq(Decisions)
    /\ d \in Decisions /\ d.added \in Seq(Alert)

\* A decision is added to the history, and none there is changed.
LEMMA DecidesAdds ==
    ASSUME Typed, NEW p \in Processes, NEW d \in Decisions, Decides(p, d) PROVE Adds(d)
<1>1. decided \in Seq(Decisions) /\ decided' = Append(decided, d)
    BY DEF Typed, Decides
<1>2. d.added \in Seq(Alert)
    BY DEF Decisions
<1>. HIDE DEF Decisions
<1>. QED
    BY <1>1, <1>2 DEF Adds

\* A process decides on its batch: what it read is all that is in force, for no
\* other is at the store.
LEMMA DecidesKeeps ==
    ASSUME DedupInv, NEW p \in Processes, NEW d \in Decisions, Decides(p, d) PROVE DedupInv'
<1>. DEFINE n == Len(decided)
<1>0. /\ Typed /\ Locked /\ Moves(p) /\ store \in Seq(Alert) /\ Released(p)
      /\ phase[p] = "decide" /\ phase'[p] \in {"idle", "collect", "forward"}
    BY DEF DedupInv, Decides, Typed, TypeOK
<1>1. Adds(d)
    BY <1>0, DecidesAdds
<1>2. Locked' /\ LockTyped'
    BY <1>0, LockKeeps DEF Lockwise, AtStore
<1>3. /\ store' \in Seq(Alert) /\ Range(store) \subseteq Range(store')
      /\ setup.trusted => Range(d.added) \subseteq Range(store')
      /\ Range(store') \subseteq Range(store) \cup Range(d.added)
    BY <1>0, <1>1, RangeConcatenation DEF Decides, Adds
<1>4. /\ setup' = setup /\ now' = now /\ lost' = lost /\ read' = read
      /\ \A q \in Processes \ {p} : phase'[q] = phase[q] /\ mine'[q] = mine[q]
      /\ d.recs = batch[p] /\ d.when = now
      /\ phase'[p] = "forward" => d.outcome = "forwarding" /\ mine'[p] = n + 1
    BY <1>0, <1>1 DEF Decides, Moves, Adds
<1>5. setup.trusted => \A q \in Processes : phase[q] \in AtStore => q = p
    BY <1>0, AloneThere DEF AtStore
<1>6. /\ DOMAIN decided = 1 .. n /\ DOMAIN decided' = 1 .. n + 1 /\ n \in Nat
      /\ 1 .. n + 1 = 1 .. n \cup {n + 1}
      /\ \A i \in 1 .. n : decided'[i] = decided[i] /\ 1 .. i - 1 \subseteq 1 .. n
      /\ decided'[n + 1] = d /\ Len(decided') = n + 1
    BY <1>1 DEF Adds
<1>7. Typed'
    <2>1. /\ batch' \in [Processes -> Seq(Records)] /\ read' \in [Processes -> Seq(Alert)]
          /\ phase' \in [Processes -> Phases] /\ mine' \in [Processes -> Nat] /\ crashes' \in Nat
          /\ decided' \in Seq(Decisions) /\ setup' \in Setups /\ now' \in 0 .. LastSecond
        BY <1>0, <1>1 DEF Moves, Adds, Typed, TypeOK
    <2>2. \A q \in Processes \ {p} : phase[q] = "forward" =>
              mine[q] \in 1 .. n /\ decided[mine[q]].outcome = "forwarding"
        BY <1>0, <1>6 DEF Typed, TypeOK
    <2>3. \A q \in Processes : phase'[q] = "forward" =>
              mine'[q] \in 1 .. n + 1 /\ decided'[mine'[q]].outcome = "forwarding"
        BY <1>4, <1>6, <2>2
    <2>4. \A q, r \in Processes :
              phase'[q] = "forward" /\ phase'[r] = "forward" /\ mine'[q] = mine'[r] => q = r
        <3>1. \A q, r \in Processes \ {p} :
                  phase[q] = "forward" /\ phase[r] = "forward" /\ mine[q] = mine[r] => q = r
            BY <1>0 DEF Typed
        <3>. QED
            BY <1>4, <1>6, <2>2, <3>1
    <2>5. \A i \in DOMAIN decided' : decided'[i].outcome \in Outcomes
        <3>1. \A c \in Decisions : c.outcome \in Outcomes
            BY DEF Decisions
        <3>2. \A i \in DOMAIN decided' : decided'[i] \in Decisions
            BY <2>1
        <3>. QED
            BY <3>1, <3>2
    <2>. HIDE DEF n
    <2>. QED
        BY <1>2, <1>3, <1>6, <2>1, <2>3, <2>4, <2>5 DEF Typed, TypeOK, LockTyped, AtStore
<1>. HIDE DEF n
<1>8. Current'
    BY <1>0, <1>4, <1>5 DEF Current, AtStore
<1>9. Sourced'
    <2>. DEFINE NotedNow(e) == \E i \in 1 .. n + 1 : e \in Range(decided'[i].added)
    <2>1. \A e : Noted(e, n) => NotedNow(e)
        BY <1>6 DEF Noted
    <2>2. \A e \in Range(d.added) : NotedNow(e)
        BY <1>6
    <2>3. /\ \A e \in Range(store) : Noted(e, n) \/ AtStart0(e)
          /\ \A q \in Processes : \A e \in Range(read[q]) : Noted(e, n) \/ AtStart0(e)
        BY DEF DedupInv, Sourced, n
    <2>. HIDE DEF NotedNow
    <2>4. /\ \A e \in Range(store') : NotedNow(e) \/ AtStart0(e)
          /\ \A q \in Processes : \A e \in Range(read'[q]) : NotedNow(e) \/ AtStart0(e)
        BY <1>3, <1>4, <2>1, <2>2, <2>3
    <2>5. \A e : AtStart0(e) <=> AtStart0(e)'
        BY <1>4 DEF AtStart0
    <2>. QED
        BY <1>6, <2>4, <2>5 DEF Sourced, Noted, NotedNow
<1>10. Remembered'
    <2>1. ASSUME setup.trusted, NEW i \in 1 .. n, NEW e \in Range(decided[i].added), e.at >= now - Window
          PROVE  e \in Range(store) \cup lost
        <3>1. ~(\E q \in Processes : phase[q] = "rewrite")
            BY <1>0, <1>5, <2>1 DEF AtStore
        <3>. QED
            BY <1>6, <2>1, <3>1 DEF DedupInv, Remembered
    <2>2. crashes' = 0 => crashes = 0
        BY <1>0 DEF Moves, Typed
    <2>. QED
        BY <1>3, <1>4, <1>6, <2>1, <2>2 DEF DedupInv, Remembered
<1>11. /\ Range(d.added) \subseteq Alerts(d)
       /\ d.outcome = "dropped" =>
              /\ d.added = <<>>
              /\ \A r \in Alerts(d) : \E e \in Range(read[p]) : Repeats(e, r)
       /\ d.outcome = "forwarding" /\ setup.trusted /\ Alerts(d) # {} =>
              \E r \in Alerts(d) : \A e \in Range(read[p]) : ~Repeats(e, r)
       /\ d.outcome \in {"forwarding", "dropped", "failed"}
       /\ d.outcome = "failed" => setup.faulty \/ setup.crashes > 0
    BY DEF Decides, Sound
<1>12. Noting'
    BY <1>4, <1>6, <1>11 DEF DedupInv, Noting, Alerts
<1>13. DroppedWasNoted'
    <2>1. ASSUME NEW r, NEW e \in Range(read[p]), Repeats(e, r)
          PROVE  \/ \E i \in 1 .. n : \E f \in Range(decided'[i].added) : Repeats(f, r)
                 \/ \E i \in DOMAIN setup.start :
                        setup.start[i][1] = r.key /\ 0 - setup.start[i][2] > r.at - Window
        <3>1. Noted(e, n) \/ AtStart0(e)
            BY DEF DedupInv, Sourced, n
        <3>. QED
            BY <1>6, <2>1, <3>1 DEF Noted, AtStart0, Repeats
    <2>3. \A j \in 1 .. n : decided[j].outcome = "dropped" => \A r \in Alerts(decided[j]) :
              \/ \E i \in 1 .. j - 1 : \E e \in Range(decided[i].added) : Repeats(e, r)
              \/ \E i \in DOMAIN setup.start :
                     setup.start[i][1] = r.key /\ 0 - setup.start[i][2] > r.at - Window
        BY <1>6 DEF DedupInv, DroppedWasNoted
    <2>. SUFFICES ASSUME NEW j \in 1 .. n + 1, decided'[j].outcome = "dropped",
                         NEW r \in Alerts(decided'[j])
                  PROVE  \/ \E i \in 1 .. j - 1 : \E e \in Range(decided'[i].added) : Repeats(e, r)
                         \/ \E i \in DOMAIN setup.start :
                                setup.start[i][1] = r.key /\ 0 - setup.start[i][2] > r.at - Window
        BY <1>4, <1>6 DEF DroppedWasNoted, Alerts, Repeats
    <2>4. CASE j \in 1 .. n
        BY <1>6, <2>3, <2>4
    <2>5. CASE j = n + 1
        <3>1. r \in Alerts(d) /\ d.outcome = "dropped"
            BY <1>6, <2>5
        <3>2. PICK e \in Range(read[p]) : Repeats(e, r)
            BY <1>11, <3>1
        <3>3. j - 1 = n
            BY <1>6, <2>5
        <3>4. \/ \E i \in 1 .. n : \E f \in Range(decided'[i].added) : Repeats(f, r)
              \/ \E i \in DOMAIN setup.start :
                     setup.start[i][1] = r.key /\ 0 - setup.start[i][2] > r.at - Window
            BY <2>1, <3>2
        <3>. QED
            BY <3>3, <3>4
    <2>. QED
        BY <1>6, <2>4, <2>5
<1>14. NoRepeat'
    <2>. SUFFICES ASSUME setup.trusted, NEW j \in 1 .. n + 1,
                         decided'[j].outcome \in {"forwarding", "sent"}, Alerts(decided'[j]) # {}
                  PROVE  \E r \in Alerts(decided'[j]) : \A i \in 1 .. j - 1 :
                             \A e \in Range(decided'[i].added) :
                                 Repeats(e, r) => e.at < decided'[j].when - Window \/ e \in lost
        BY <1>4, <1>6 DEF NoRepeat, Alerts, Repeats
    <2>1. CASE j \in 1 .. n
        <3>1. PICK r \in Alerts(decided[j]) : \A i \in 1 .. j - 1 :
                  \A e \in Range(decided[i].added) :
                      Repeats(e, r) => e.at < decided[j].when - Window \/ e \in lost
            BY <1>6, <2>1 DEF DedupInv, NoRepeat
        <3>. QED
            BY <1>6, <2>1, <3>1
    <2>2. CASE j = n + 1
        <3>1. PICK r \in Alerts(d) : \A e \in Range(read[p]) : ~Repeats(e, r)
            BY <1>6, <1>11, <2>2
        <3>2. ASSUME NEW i \in 1 .. n, NEW e \in Range(decided[i].added), Repeats(e, r)
              PROVE  e.at < now - Window \/ e \in lost
            <4>1. read[p] = store
                BY <1>0 DEF DedupInv, Current
            <4>2. e \notin Range(store)
                BY <3>1, <3>2, <4>1
            <4>3. ~(\E q \in Processes : phase[q] = "rewrite")
                BY <1>0, <1>5 DEF AtStore
            <4>4. e.at >= now - Window => e \in lost
                BY <1>6, <4>2, <4>3 DEF DedupInv, Remembered
            <4>5. e.at \in Int /\ now \in Int /\ Window \in Nat
                <5>1. \A k \in DOMAIN decided : \A f \in Range(decided[k].added) : f.at \in Int
                    BY <1>0, Members
                <5>2. now \in Int /\ Window \in Nat
                    BY <1>0, Members
                <5>. QED
                    BY <1>6, <3>2, <5>1, <5>2
            <4>. QED
                BY <4>4, <4>5
        <3>3. \A i \in 1 .. j - 1 : i \in 1 .. n /\ decided'[i] = decided[i]
            BY <1>6, <2>2
        <3>. QED
            BY <1>4, <1>6, <2>2, <3>1, <3>2, <3>3
    <2>. QED
        BY <1>6, <2>1, <2>2
<1>. QED
    BY <1>2, <1>7, <1>8, <1>9, <1>10, <1>12, <1>13, <1>14 DEF DedupInv

\* The decision of a process is changed in its outcome.
Settled(m, outcome) ==
    /\ DOMAIN decided = 1 .. Len(decided) /\ DOMAIN decided' = DOMAIN decided
    /\ Len(decided') = Len(decided) /\ Len(decided) \in Nat
    /\ m \in DOMAIN decided /\ decided[m].outcome = "forwarding" /\ decided'[m].outcome = outcome
    /\ \A i \in DOMAIN decided :
           /\ decided'[i].recs = decided[i].recs /\ decided'[i].when = decided[i].when
           /\ decided'[i].added = decided[i].added
           /\ i # m => decided'[i].outcome = decided[i].outcome
    /\ decided' \in Seq(Decisions)

\* What becomes of a batch changes its decision in the outcome alone.
LEMMA SettlesOne ==
    ASSUME Typed, NEW p \in Processes, NEW outcome \in {"sent", "failed"}, Settles(p, outcome)
    PROVE  Settled(mine[p], outcome)
<1>. DEFINE m == mine[p]
            c == [decided[m] EXCEPT !.outcome = outcome]
<1>1. /\ decided \in Seq(Decisions) /\ m \in DOMAIN decided /\ decided[m].outcome = "forwarding"
      /\ decided' = [decided EXCEPT ![m] = c]
    BY DEF Typed, TypeOK, Settles
<1>2. DOMAIN decided = 1 .. Len(decided) /\ Len(decided) \in Nat /\ decided[m] \in Decisions
    BY <1>1
<1>3. /\ c \in Decisions /\ c.outcome = outcome /\ c.recs = decided[m].recs
      /\ c.when = decided[m].when /\ c.added = decided[m].added
    BY <1>2 DEF Decisions, Outcomes
<1>. HIDE DEF c, m, Decisions
<1>4. /\ DOMAIN decided' = DOMAIN decided /\ decided' \in Seq(Decisions)
      /\ Len(decided') = Len(decided)
      /\ \A i \in DOMAIN decided : decided'[i] = IF i = m THEN c ELSE decided[i]
    BY <1>1, <1>2, <1>3
<1>. QED
    BY <1>1, <1>2, <1>3, <1>4 DEF Settled, m

\* What was to be sent was, or was not.
LEMMA SettlesKeeps ==
    ASSUME DedupInv, NEW p \in Processes, NEW outcome \in {"sent", "failed"}, Settles(p, outcome)
    PROVE  DedupInv'
<1>. DEFINE n == Len(decided)
            m == mine[p]
<1>0. /\ Typed /\ Locked /\ Moves(p) /\ store \in Seq(Alert) /\ Released(p)
      /\ phase[p] = "forward" /\ phase'[p] \in {"idle", "collect"}
    BY DEF DedupInv, Settles, Typed, TypeOK
<1>1. Settled(m, outcome)
    BY <1>0, SettlesOne
<1>2. Locked' /\ LockTyped'
    BY <1>0, LockKeeps DEF Lockwise, AtStore
<1>3. /\ setup' = setup /\ now' = now /\ lost' = lost /\ read' = read /\ store' = store /\ mine' = mine
      /\ \A q \in Processes \ {p} : phase'[q] = phase[q]
      /\ outcome = "failed" => setup.faulty \/ setup.crashes > 0
    BY <1>0 DEF Settles, Moves
<1>4. /\ DOMAIN decided = 1 .. n /\ DOMAIN decided' = 1 .. n /\ n \in Nat /\ Len(decided') = n
      /\ \A i \in 1 .. n :
             /\ decided'[i].recs = decided[i].recs /\ decided'[i].when = decided[i].when
             /\ decided'[i].added = decided[i].added /\ Alerts(decided'[i]) = Alerts(decided[i])
             /\ i # m => decided'[i].outcome = decided[i].outcome
             /\ 1 .. i - 1 \subseteq 1 .. n
      /\ m \in 1 .. n /\ decided[m].outcome = "forwarding" /\ decided'[m].outcome = outcome
    BY <1>1 DEF Settled, Alerts
<1>5. Typed'
    <2>1. /\ batch' \in [Processes -> Seq(Records)] /\ read' \in [Processes -> Seq(Alert)]
          /\ phase' \in [Processes -> Phases] /\ mine' \in [Processes -> Nat] /\ crashes' \in Nat
          /\ decided' \in Seq(Decisions) /\ setup' \in Setups /\ now' \in 0 .. LastSecond
        BY <1>0, <1>1 DEF Moves, Settled, Typed, TypeOK
    <2>2. \A q \in Processes : phase[q] = "forward" =>
              mine[q] \in 1 .. n /\ decided[mine[q]].outcome = "forwarding" /\ (mine[q] = m => q = p)
        BY <1>0, <1>4 DEF Typed, TypeOK
    <2>3. \A q \in Processes : phase'[q] = "forward" => phase[q] = "forward" /\ q # p
        BY <1>0, <1>3
    <2>4. \A q \in Processes : phase'[q] = "forward" =>
              mine'[q] \in 1 .. n /\ decided'[mine'[q]].outcome = "forwarding"
        BY <1>3, <1>4, <2>2, <2>3
    <2>5. \A q, r \in Processes :
              phase'[q] = "forward" /\ phase'[r] = "forward" /\ mine'[q] = mine'[r] => q = r
        BY <1>0, <1>3, <2>3 DEF Typed
    <2>6. \A i \in DOMAIN decided' : decided'[i].outcome \in Outcomes
        <3>1. \A c \in Decisions : c.outcome \in Outcomes
            BY DEF Decisions
        <3>2. \A i \in DOMAIN decided' : decided'[i] \in Decisions
            BY <2>1
        <3>. QED
            BY <3>1, <3>2
    <2>. HIDE DEF n, m
    <2>. QED
        BY <1>0, <1>2, <1>3, <1>4, <2>1, <2>4, <2>5, <2>6 DEF Typed, TypeOK, LockTyped, AtStore
<1>. HIDE DEF n, m
<1>6. Current'
    <2>1. \A q \in Processes : phase'[q] \in AtStore => phase'[q] = phase[q]
        BY <1>0, <1>3 DEF AtStore
    <2>. QED
        BY <1>3, <2>1 DEF DedupInv, Current, AtStore
<1>7. Sourced'
    <2>1. \A e : Noted(e, Len(decided)) <=> Noted(e, Len(decided))'
        BY <1>4 DEF Noted, n
    <2>2. \A e : AtStart0(e) <=> AtStart0(e)'
        BY <1>3 DEF AtStart0
    <2>. QED
        BY <1>3, <2>1, <2>2 DEF DedupInv, Sourced
<1>8. Remembered'
    <2>1. \A q \in Processes : phase[q] = "rewrite" => phase'[q] = "rewrite"
        BY <1>0, <1>3
    <2>2. crashes' = 0 => crashes = 0
        BY <1>0 DEF Moves, Typed
    <2>. QED
        BY <1>3, <1>4, <2>1, <2>2 DEF DedupInv, Remembered
<1>9. Noting'
    <2>1. \A i \in 1 .. n :
              /\ Range(decided[i].added) \subseteq Alerts(decided[i])
              /\ decided[i].outcome = "dropped" => decided[i].added = <<>>
              /\ decided[i].outcome = "failed" => setup.faulty \/ setup.crashes > 0
        BY <1>4 DEF DedupInv, Noting
    <2>. QED
        BY <1>3, <1>4, <2>1 DEF Noting
<1>10. DroppedWasNoted'
    <2>1. \A j \in 1 .. n : decided'[j].outcome = "dropped" => decided[j].outcome = "dropped"
        BY <1>4
    <2>. QED
        BY <1>3, <1>4, <2>1 DEF DedupInv, DroppedWasNoted
<1>11. NoRepeat'
    <2>1. \A j \in 1 .. n : decided'[j].outcome \in {"forwarding", "sent"} =>
                                decided[j].outcome \in {"forwarding", "sent"}
        BY <1>4
    <2>. QED
        BY <1>3, <1>4, <2>1 DEF DedupInv, NoRepeat
<1>. QED
    BY <1>2, <1>5, <1>6, <1>7, <1>8, <1>9, <1>10, <1>11 DEF DedupInv

-----------------------------------------------------------------------------
(* The invariant holds *)

\* It holds at the start.
LEMMA DedupInit == Init => DedupInv
<1>. SUFFICES ASSUME Init PROVE DedupInv
    OBVIOUS
<1>1. /\ setup \in Setups /\ setup.start \in Seq(Keys \X Nat) /\ setup.crashes \in Nat
      /\ now = 0 /\ lock = Nobody /\ crashes = 0 /\ lost = {}
      /\ phase = [p \in Processes |-> "idle"] /\ decided = <<>>
      /\ batch = [p \in Processes |-> <<>>] /\ read = [p \in Processes |-> <<>>]
      /\ mine = [p \in Processes |-> 0]
    BY DedupAssumption DEF Init
<1>. DEFINE st == setup.start
<1>2. /\ Len(st) \in Nat /\ DOMAIN st = 1 .. Len(st) /\ DOMAIN store = DOMAIN st
      /\ \A i \in 1 .. Len(st) : st[i][1] \in Keys /\ st[i][2] \in Nat
      /\ \A i \in DOMAIN st : store[i] = [key |-> st[i][1], at |-> 0 - st[i][2]]
    BY <1>1 DEF Init
<1>3. store \in Seq(Alert)
    <2>1. store = [i \in 1 .. Len(st) |-> [key |-> st[i][1], at |-> 0 - st[i][2]]]
        BY <1>2 DEF Init
    <2>2. \A i \in 1 .. Len(st) : [key |-> st[i][1], at |-> 0 - st[i][2]] \in Alert
        BY <1>2 DEF Alert
    <2>. HIDE DEF st
    <2>. QED
        BY <1>2, <2>1, <2>2, IsASeq
<1>4. \A e \in Range(store) : AtStart0(e)
    <2>. SUFFICES ASSUME NEW e \in Range(store) PROVE AtStart0(e)
        OBVIOUS
    <2>1. PICK i \in DOMAIN st : e = store[i]
        BY <1>2 DEF Range
    <2>2. e = [key |-> st[i][1], at |-> 0 - st[i][2]]
        BY <1>2, <2>1
    <2>. QED
        BY <2>2 DEF AtStart0
<1>5. Range(<<>>) = {} /\ DOMAIN decided = {} /\ decided \in Seq(Decisions)
    BY <1>1, SortedEmpty
<1>6. <<>> \in Seq(Records) /\ <<>> \in Seq(Alert)
    OBVIOUS
<1>7. Typed
    BY <1>1, <1>3, <1>5, <1>6, DedupAssumption DEF Typed, TypeOK, Phases
<1>8. Locked /\ Current
    BY <1>1 DEF Locked, Current
<1>9. Sourced
    BY <1>1, <1>4, <1>5 DEF Sourced
<1>10. Remembered /\ Noting /\ DroppedWasNoted /\ NoRepeat
    BY <1>1, <1>5 DEF Remembered, Noting, DroppedWasNoted, NoRepeat
<1>. QED
    BY <1>7, <1>8, <1>9, <1>10 DEF DedupInv

\* Every step keeps it.
LEMMA DedupNext == DedupInv /\ [Next]_vars => DedupInv'
<1>. SUFFICES ASSUME DedupInv, [Next]_vars PROVE DedupInv'
    OBVIOUS
<1>1. CASE Next
    <2>1. CASE /\ now' = now + 1 /\ now < LastSecond
               /\ UNCHANGED <<setup, store, lock, phase, batch, read, mine, crashes, lost, decided>>
        BY <2>1, TickKeeps
    <2>2. CASE \E p \in Processes : Does(p)
        BY <2>2, IdlesKeeps, ReadsKeeps, CollectsKeeps, EmptiesKeeps, DecidesKeeps, SettlesKeeps,
           RewritesKeeps DEF Does
    <2>. QED
        BY <1>1, <2>1, <2>2, NextDoes DEF DedupInv
<1>2. CASE UNCHANGED vars
    <2>1. UNCHANGED <<setup, now, store, lock, phase, batch, read, mine, crashes, lost, decided>>
        BY <1>2 DEF vars, storeVars, flushVars, crashVars
    <2>2. Typed' /\ Locked' /\ Current'
        BY <2>1 DEF DedupInv, Typed, TypeOK, Locked, Current
    <2>3. Sourced' /\ Remembered'
        BY <2>1 DEF DedupInv, Sourced, Noted, AtStart0, Remembered
    <2>4. Noting' /\ DroppedWasNoted' /\ NoRepeat'
        BY <2>1, QuietKeeps DEF Quiet
    <2>. QED
        BY <2>2, <2>3, <2>4 DEF DedupInv
<1>. QED
    BY <1>1, <1>2

\* What follows: what is dropped was sent or noted, and the store forgets nothing
\* that is in force.
LEMMA DedupFollows == DedupInv => DroppedIsKnown /\ StoreIsKept
<1>. SUFFICES ASSUME DedupInv PROVE DroppedIsKnown /\ StoreIsKept
    OBVIOUS
<1>1. StoreIsKept
    BY DEF DedupInv, Remembered, StoreIsKept
<1>2. Explained(LAMBDA d : Range(d.added))
    BY DEF DedupInv, DroppedWasNoted, Explained
<1>3. ASSUME ~setup.faulty, setup.crashes = 0,
             NEW i \in DOMAIN decided, NEW e \in Range(decided[i].added)
      PROVE  decided[i].outcome \in {"forwarding", "sent"} /\ e \in Alerts(decided[i])
    <2>1. decided[i].outcome \in Outcomes
        BY DEF DedupInv, Typed, TypeOK
    <2>2. e \in Alerts(decided[i]) /\ decided[i].outcome # "failed"
        BY <1>3 DEF DedupInv, Noting
    <2>3. decided[i].outcome # "dropped"
        BY SortedEmpty DEF DedupInv, Noting
    <2>. QED
        BY <2>1, <2>2, <2>3 DEF Outcomes
<1>4. ASSUME ~setup.faulty, setup.crashes = 0 PROVE DroppedWasSent
    <2>1. \A j \in DOMAIN decided : 1 .. j - 1 \subseteq DOMAIN decided
        <3>1. Typed
            BY DEF DedupInv
        <3>. QED
            BY <3>1, Members
    <2>2. ASSUME NEW j \in DOMAIN decided, NEW i \in 1 .. j - 1, NEW e \in Range(decided[i].added)
          PROVE  decided[i].outcome \in {"forwarding", "sent"} /\ e \in Alerts(decided[i])
        BY <1>3, <1>4, <2>1
    <2>. QED
        BY <2>2 DEF DedupInv, DroppedWasNoted, DroppedWasSent, Explained
<1>. QED
    BY <1>1, <1>2, <1>4 DEF DroppedIsKnown

-----------------------------------------------------------------------------
(* StdlibCapture: the invariant *)

\* What the capture in the i-th place keeps of a logger.
Holds(i, l) == saved[captures[i]][l]

CapTyped ==
    /\ usage \in Usages
    /\ Root \in known /\ known \subseteq Loggers
    /\ handlers \in [Loggers -> Seq(Anyone)] /\ plain \in [Loggers -> Seq(Handlers)]
    /\ resort \in Captures \cup {LastResort}
    /\ captures \in Seq(Captures) /\ IsInjective(captures)
    /\ \A c \in Captures : \A l \in Loggers :
           saved[c][l] # NotTaken => saved[c][l] \in Kept /\ IsInjective(saved[c][l].handlers)
    /\ former \in [Captures -> Captures \cup {LastResort}]
    /\ flags \in [Loggers -> Flags] /\ found \in [Loggers -> Flags]
    /\ saved \in [Captures -> [Loggers -> Kept \cup {NotTaken}]]
    /\ \A l \in Loggers : IsInjective(handlers[l]) /\ IsInjective(plain[l])

\* Who has taken a logger over is installed, and has taken over the root.
Taking ==
    /\ \A c \in Captures \ Range(captures) : \A l \in Loggers : saved[c][l] = NotTaken
    /\ \A i \in DOMAIN captures : Holds(i, Root) # NotTaken

\* Each capture found the one before it as the last resort.
Resorts ==
    /\ resort = IF captures = <<>> THEN LastResort ELSE captures[Len(captures)]
    /\ \A i \in DOMAIN captures : former[captures[i]] = IF i = 1 THEN LastResort ELSE captures[i - 1]

\* The first that took a logger over has the flags it is to be given back with.
Flagged ==
    \A l \in Loggers :
        /\ (\A i \in DOMAIN captures : Holds(i, l) = NotTaken) => flags[l] = found[l]
        /\ \A i \in DOMAIN captures :
               Holds(i, l) # NotTaken /\ (\A j \in DOMAIN captures : j < i => Holds(j, l) = NotTaken)
                   => Holds(i, l).flags = found[l]

\* Of the captures' own handlers there is that of the last one, on the root, and
\* each capture found there that of the one before.
Attached ==
    "copy" \notin usage.may => \A l \in Loggers :
        /\ \A h \in Range(handlers[l]) :
               h \in Handlers \/ (l = Root /\ captures # <<>> /\ h = captures[Len(captures)])
        /\ \A i \in DOMAIN captures : Holds(i, l) # NotTaken =>
               \A h \in Range(Holds(i, l).handlers) :
                   h \in Handlers \/ (l = Root /\ i > 1 /\ h = captures[i - 1])

\* What a capture finds, and leaves, where nothing is put by hand: on the root
\* the one handler of c.
Lone(c, l) == IF l = Root THEN <<c>> ELSE <<>>

\* With nothing put by hand: what would be attached is what the first capture
\* found and was given since; the others found that of the one before alone.
Restored ==
    Orderly =>
        /\ captures = <<>> => handlers = plain
        /\ captures # <<>> => \A l \in Loggers :
               /\ handlers[l] = Lone(captures[Len(captures)], l)
               /\ plain[l] = IF Holds(1, l) = NotTaken THEN <<>> ELSE Holds(1, l).handlers
        /\ \A i \in DOMAIN captures : i > 1 => \A l \in Loggers :
               Holds(i, l) # NotTaken => Holds(i, l).handlers = Lone(captures[i - 1], l)
        /\ \A l \in Loggers \ known : handlers[l] = <<>> /\ plain[l] = <<>>

\* So it is until a capture that is not the last takes a logger over.
Undisturbed == CapTyped /\ Taking /\ Resorts /\ Flagged /\ Attached /\ Restored

\* That takes a copy of its handler: without one, the last alone gets a record.
Listening ==
    /\ hearing \in Seq(Captures \X Loggers) /\ strayed \in BOOLEAN
    /\ "copy" \notin usage.may =>
           ~strayed /\ \A i \in DOMAIN hearing : captures # <<>> /\ hearing[i][1] = Top

CaptureInv == CapTyped /\ Listening /\ (~strayed => Undisturbed)

\* A path has no logger twice.
LEMMA PathIs ==
    ASSUME NEW l \in Loggers, CaptureAssumption
    PROVE  /\ Path(l) \in Seq(Loggers) /\ IsInjective(Path(l))
           /\ Above(l) \in Seq(Loggers) /\ Range(Above(l)) \subseteq known
<1>. DEFINE up == Above(l)
            N == {i \in 1 .. Len(up) : ~flags[up[i]].propagate}
            cut == IF N # {} THEN Min(N) ELSE 0
<1>1. Lineage[l] \in Seq(Loggers) /\ IsInjective(Lineage[l])
    BY DEF CaptureAssumption
<1>2. up \in Seq(Loggers) /\ IsInjective(up)
    BY <1>1, InjectiveSelected DEF Above
<1>3. Range(up) \subseteq known
    BY <1>1, SelectedRange DEF Above
<1>4. Path(l) = IF cut = 0 THEN up ELSE SubSeq(up, 1, cut)
    BY DEF Path, SelectInSeq
<1>5. cut \in 0 .. Len(up)
    <2>1. N \subseteq Nat /\ N \subseteq 1 .. Len(up)
        OBVIOUS
    <2>. HIDE DEF N
    <2>2. N # {} => Min(N) \in N
        BY <2>1, LeastIs
    <2>3. Len(up) \in Nat
        BY <1>2
    <2>. HIDE DEF up
    <2>4. CASE N = {}
        BY <2>3, <2>4
    <2>5. CASE N # {}
        <3>1. cut = Min(N) /\ Min(N) \in 1 .. Len(up)
            BY <2>1, <2>2, <2>5
        <3>. QED
            BY <2>3, <3>1
    <2>. QED
        BY <2>4, <2>5
<1>. HIDE DEF up, cut
<1>6. ASSUME cut # 0
      PROVE  SubSeq(up, 1, cut) \in Seq(Loggers) /\ IsInjective(SubSeq(up, 1, cut))
    <2>1. /\ SubSeq(up, 1, cut) \in Seq(Loggers) /\ DOMAIN SubSeq(up, 1, cut) = 1 .. cut
          /\ \A i \in 1 .. cut : SubSeq(up, 1, cut)[i] = up[i] /\ i \in DOMAIN up
        BY <1>2, <1>5, <1>6
    <2>. QED
        BY <1>2, <2>1 DEF IsInjective
<1>. QED
    BY <1>2, <1>3, <1>4, <1>6 DEF up

-----------------------------------------------------------------------------
(* What a capture does to a logger *)

LEMMA WithIs ==
    ASSUME NEW T, NEW s \in Seq(T), NEW h \in T, IsInjective(s)
    PROVE  /\ With(s, h) \in Seq(T) /\ IsInjective(With(s, h))
           /\ Range(With(s, h)) = Range(s) \cup {h}
BY InjectiveAppend, RangeAppend DEF With

LEMMA WithoutIs ==
    ASSUME NEW T, T \subseteq Anyone, NEW s \in Seq(T), NEW h, IsInjective(s)
    PROVE  /\ Without(s, h) \in Seq(T) /\ IsInjective(Without(s, h))
           /\ Range(Without(s, h)) = Range(s) \ {h}
           /\ h \notin Range(s) => Without(s, h) = s
<1>1. Range(s) \subseteq T
    BY DEF Range
<1>2. Range(s) \cap (Anyone \ {h}) = Range(s) \ {h}
    BY <1>1
<1>3. h \notin Range(s) => Range(s) \subseteq Anyone \ {h}
    BY <1>1
<1>. QED
    BY <1>2, <1>3, InjectiveSelected, SelectedRange, SelectedAll DEF Without

LEMMA OnlyIs ==
    ASSUME NEW s \in Seq(Anyone), NEW h, IsInjective(s)
    PROVE  /\ Only(s, h) \in Seq(Anyone) /\ IsInjective(Only(s, h))
           /\ Range(Only(s, h)) = Range(s) \cap {h}
           /\ h \notin Range(s) => Only(s, h) = <<>>
           /\ Range(s) \subseteq {h} => Only(s, h) = s
<1>1. h \notin Range(s) => Range(s) \cap {h} = {}
    OBVIOUS
<1>. QED
    BY <1>1, InjectiveSelected, SelectedRange, SelectedAll, SelectedNone DEF Only

\* Who may keep a logger in mind.
Right(k) == k \in Kept /\ IsInjective(k.handlers)

LEMMA KeptIs ==
    ASSUME NEW k
    PROVE  k \in Kept <=> k = [handlers |-> k.handlers, flags |-> k.flags]
                          /\ k.handlers \in Seq(Anyone) /\ k.flags \in Flags
BY DEF Kept

LEMMA BeforeIs ==
    ASSUME CapTyped, NEW c \in Captures, NEW l \in Loggers
    PROVE  /\ Right(Before(c, l))
           /\ saved[c][l] # NotTaken => Before(c, l) = saved[c][l] /\ Right(saved[c][l])
           /\ saved[c][l] = NotTaken => Before(c, l).handlers = <<>> /\ Before(c, l).flags = flags[l]
<1>1. flags[l] \in Flags /\ <<>> \in Seq(Anyone)
    BY DEF CapTyped
<1>2. IsInjective(<<>>)
    BY DEF IsInjective
<1>3. CASE saved[c][l] = NotTaken
    <2>. DEFINE b == [handlers |-> <<>>, flags |-> flags[l]]
    <2>1. Before(c, l) = b
        BY <1>3 DEF Before
    <2>2. b \in Kept /\ b.handlers = <<>> /\ b.flags = flags[l]
        BY <1>1 DEF Kept
    <2>. HIDE DEF b
    <2>. QED
        BY <1>2, <1>3, <2>1, <2>2 DEF Right
<1>4. CASE saved[c][l] # NotTaken
    BY <1>4 DEF Before, Right, CapTyped
<1>. QED
    BY <1>3, <1>4

\* What is found on a logger and is neither c's nor known to c.
LEMMA ForeignIs ==
    ASSUME CapTyped, NEW c \in Captures, NEW l \in Loggers
    PROVE  /\ Foreign(c, l) \in Seq(Anyone) /\ IsInjective(Foreign(c, l))
           /\ Range(Foreign(c, l)) = Range(handlers[l]) \ ({c} \cup Range(Before(c, l).handlers))
           /\ Range(handlers[l]) \subseteq {c} => Foreign(c, l) = <<>>
           /\ saved[c][l] = NotTaken /\ c \notin Range(handlers[l]) => Foreign(c, l) = handlers[l]
<1>. DEFINE S == Anyone \ ({c} \cup Range(Before(c, l).handlers))
<1>1. handlers[l] \in Seq(Anyone) /\ IsInjective(handlers[l])
    BY DEF CapTyped
<1>2. Range(handlers[l]) \subseteq Anyone
    BY <1>1 DEF Range
<1>3. Foreign(c, l) = Selected(handlers[l], S)
    BY DEF Foreign
<1>4. saved[c][l] = NotTaken => Range(Before(c, l).handlers) = {}
    BY BeforeIs DEF Range
<1>5. Range(handlers[l]) \subseteq {c} => Range(handlers[l]) \cap S = {}
    OBVIOUS
<1>6. saved[c][l] = NotTaken /\ c \notin Range(handlers[l]) => Range(handlers[l]) \subseteq S
    BY <1>2, <1>4
<1>7. Range(handlers[l]) \cap S = Range(handlers[l]) \ ({c} \cup Range(Before(c, l).handlers))
    BY <1>2
<1>. HIDE DEF S
<1>. QED
    BY <1>1, <1>3, <1>5, <1>6, <1>7, InjectiveSelected, SelectedRange, SelectedAll, SelectedNone

\* What c keeps of the loggers once it has taken ls over.
Took(c, ls, kept) ==
    /\ kept \in [Loggers -> Kept \cup {NotTaken}]
    /\ \A l \in Loggers \ ls : kept[l] = saved[c][l]
    /\ \A l \in ls :
           /\ kept[l] # NotTaken /\ Right(kept[l])
           /\ kept[l].flags = Before(c, l).flags
           /\ kept[l].handlers = Before(c, l).handlers \o Foreign(c, l)
           /\ Range(kept[l].handlers) = Range(Before(c, l).handlers) \cup (Range(handlers[l]) \ {c})

LEMMA SavingIs ==
    ASSUME CapTyped, NotTaken \notin Kept, NEW c \in Captures, NEW ls \in SUBSET Loggers
    PROVE  Took(c, ls, Saving(c, ls))
<1>. DEFINE kept == Saving(c, ls)
            owned(l) == Before(c, l).handlers
            all(l) == owned(l) \o Foreign(c, l)
<1>1. ASSUME NEW l \in ls
      PROVE  all(l) \in Seq(Anyone) /\ IsInjective(all(l))
             /\ Range(all(l)) = Range(owned(l)) \cup (Range(handlers[l]) \ {c})
    <2>1. owned(l) \in Seq(Anyone) /\ IsInjective(owned(l))
        BY BeforeIs, KeptIs DEF Right
    <2>2. /\ Foreign(c, l) \in Seq(Anyone) /\ IsInjective(Foreign(c, l))
          /\ Range(Foreign(c, l)) = Range(handlers[l]) \ ({c} \cup Range(owned(l)))
        BY ForeignIs
    <2>. HIDE DEF owned
    <2>3. Range(owned(l)) \cap Range(Foreign(c, l)) = {}
        BY <2>2
    <2>4. Range(all(l)) = Range(owned(l)) \cup Range(Foreign(c, l))
        BY <2>1, <2>2, RangeConcatenation
    <2>5. c \notin Range(owned(l)) \/ c \in Range(owned(l))
        OBVIOUS
    <2>6. all(l) \in Seq(Anyone) /\ IsInjective(all(l))
        BY <2>1, <2>2, <2>3, InjectiveConcat
    <2>. QED
        BY <2>2, <2>4, <2>6
<1>2. ASSUME NEW l \in ls
      PROVE  /\ kept[l] \in Kept /\ kept[l].handlers = all(l)
             /\ kept[l].flags = Before(c, l).flags
    <2>1. kept[l] = [Before(c, l) EXCEPT !.handlers = all(l)]
        BY DEF Saving
    <2>2. Before(c, l) \in Kept
        BY BeforeIs DEF Right
    <2>. HIDE DEF kept
    <2>. QED
        BY <1>1, <2>1, <2>2 DEF Kept
<1>3. \A l \in Loggers \ ls : kept[l] = saved[c][l] /\ saved[c][l] \in Kept \cup {NotTaken}
    BY DEF Saving, CapTyped
<1>4. kept = [l \in Loggers |-> kept[l]]
    BY DEF Saving
<1>. HIDE DEF kept, all, owned
<1>5. kept \in [Loggers -> Kept \cup {NotTaken}]
    BY <1>2, <1>3, <1>4
<1>. QED
    BY <1>1, <1>2, <1>3, <1>5 DEF Took, Right, kept, all, owned

\* The captures that are installed, each in its place.
LEMMA PlacesAre ==
    ASSUME CapTyped
    PROVE  /\ Len(captures) \in Nat /\ DOMAIN captures = 1 .. Len(captures)
           /\ captures \in Seq(Captures)
           /\ captures = <<>> <=> Len(captures) = 0
           /\ \A i \in 1 .. Len(captures) : captures[i] \in Captures /\ captures[i] \in Range(captures)
           /\ \A i, j \in 1 .. Len(captures) : captures[i] = captures[j] => i = j
           /\ \A c \in Range(captures) : \E i \in 1 .. Len(captures) : captures[i] = c
<1>1. captures \in Seq(Captures) /\ IsInjective(captures)
    BY DEF CapTyped
<1>. QED
    BY <1>1 DEF IsInjective, Range

-----------------------------------------------------------------------------
(* install() *)

\* A capture takes over the loggers there are, and stands last.
InstallDoes(c) ==
    LET n == Len(captures) IN
    /\ usage' = usage /\ plain' = plain /\ found' = found
    /\ known' = known \cup Named[c] /\ known' \subseteq Loggers /\ Root \in known'
    /\ c \in Captures \ Range(captures) /\ \A l \in Loggers : saved[c][l] = NotTaken
    /\ captures' \in Seq(Captures) /\ IsInjective(captures') /\ Range(captures') = Range(captures) \cup {c}
    /\ Len(captures') = n + 1 /\ captures'[n + 1] = c /\ \A i \in 1 .. n : captures'[i] = captures[i]
    /\ saved' = [saved EXCEPT ![c] = Saving(c, known')]
    /\ handlers' = [Cleared(c, known') EXCEPT ![Root] = With(@, c)]
    /\ flags' = [l \in Loggers |->
           IF l \in Named[c] \cup {Root} THEN [Opened(known')[l] EXCEPT !.level = c] ELSE Opened(known')[l]]
    /\ former' = [former EXCEPT ![c] = resort] /\ resort' = c

LEMMA InstallEffect ==
    ASSUME CaptureAssumption, CapTyped, NEW c \in Captures, Install(c)
    PROVE  InstallDoes(c)
<1>1. captures \in Seq(Captures) /\ IsInjective(captures) /\ Root \in known /\ known \subseteq Loggers
    BY DEF CapTyped
<1>2. Named[c] \subseteq Loggers
    BY DEF CaptureAssumption
<1>3. captures' = Append(captures, c) /\ c \notin Range(captures)
    BY DEF Install
<1>4. /\ captures' \in Seq(Captures) /\ IsInjective(captures')
      /\ Range(captures') = Range(captures) \cup {c}
    BY <1>1, <1>3, InjectiveAppend, RangeAppend
<1>5. /\ Len(captures') = Len(captures) + 1 /\ captures'[Len(captures) + 1] = c
      /\ \A i \in 1 .. Len(captures) : captures'[i] = captures[i]
    BY <1>1, <1>3
<1>. QED
    BY <1>1, <1>2, <1>3, <1>4, <1>5 DEF Install, BeLastResort, InstallDoes, historyVars

\* What is then kept, logger by logger.
LEMMA InstallHolds ==
    ASSUME CaptureAssumption, CapTyped, NEW c \in Captures, InstallDoes(c),
           NEW n \in Nat, n = Len(captures)
    PROVE  /\ Took(c, known', Saving(c, known'))
           /\ \A d \in Captures : saved'[d] = IF d = c THEN Saving(c, known') ELSE saved[d]
           /\ \A l \in Loggers :
                  /\ \A i \in 1 .. n : Holds(i, l)' = Holds(i, l)
                  /\ Holds(n + 1, l)' = Saving(c, known')[l]
                  /\ Before(c, l).handlers = <<>> /\ Before(c, l).flags = flags[l]
                  /\ l \notin known' => Saving(c, known')[l] = NotTaken
           /\ saved' \in [Captures -> [Loggers -> Kept \cup {NotTaken}]]
<1>1. /\ known' \in SUBSET Loggers /\ c \notin Range(captures) /\ NotTaken \notin Kept
      /\ Len(captures') = n + 1 /\ captures'[n + 1] = c
      /\ \A i \in 1 .. n : captures'[i] = captures[i]
      /\ saved' = [saved EXCEPT ![c] = Saving(c, known')]
    BY DEF InstallDoes, CaptureAssumption
<1>2. Took(c, known', Saving(c, known'))
    BY <1>1, SavingIs
<1>3. saved \in [Captures -> [Loggers -> Kept \cup {NotTaken}]]
    BY DEF CapTyped
<1>4. \A l \in Loggers : saved[c][l] = NotTaken
    BY DEF InstallDoes
<1>5. \A d \in Captures : saved'[d] = IF d = c THEN Saving(c, known') ELSE saved[d]
    BY <1>1, <1>3
<1>6. saved' \in [Captures -> [Loggers -> Kept \cup {NotTaken}]]
    <2>1. Saving(c, known') \in [Loggers -> Kept \cup {NotTaken}]
        BY <1>2 DEF Took
    <2>. QED
        BY <1>1, <1>3, <2>1
<1>7. \A i \in 1 .. n : captures[i] \in Captures /\ captures[i] # c
    BY <1>1, PlacesAre
<1>8. ASSUME NEW l \in Loggers
      PROVE  /\ \A i \in 1 .. n : Holds(i, l)' = Holds(i, l)
             /\ Holds(n + 1, l)' = Saving(c, known')[l]
    <2>1. \A i \in 1 .. n : Holds(i, l)' = saved'[captures[i]][l]
        BY <1>1 DEF Holds
    <2>2. Holds(n + 1, l)' = saved'[c][l]
        BY <1>1 DEF Holds
    <2>. QED
        BY <1>5, <1>7, <2>1, <2>2 DEF Holds
<1>9. \A l \in Loggers : /\ Before(c, l).handlers = <<>> /\ Before(c, l).flags = flags[l]
                         /\ l \notin known' => Saving(c, known')[l] = NotTaken
    <2>1. \A l \in Loggers \ known' : Saving(c, known')[l] = saved[c][l]
        BY <1>2 DEF Took
    <2>. QED
        BY <1>4, <2>1, BeforeIs
<1>. QED
    BY <1>2, <1>5, <1>6, <1>8, <1>9

LEMMA ClearedIs ==
    ASSUME CapTyped, NEW c \in Captures, NEW ls \in SUBSET Loggers
    PROVE  /\ Cleared(c, ls) \in [Loggers -> Seq(Anyone)]
           /\ \A l \in Loggers \ ls : Cleared(c, ls)[l] = handlers[l]
           /\ \A l \in ls : /\ Range(Cleared(c, ls)[l]) = Range(handlers[l]) \cap {c}
                            /\ c \notin Range(handlers[l]) => Cleared(c, ls)[l] = <<>>
                            /\ Range(handlers[l]) \subseteq {c} => Cleared(c, ls)[l] = handlers[l]
           /\ \A l \in Loggers : IsInjective(Cleared(c, ls)[l])
<1>1. \A l \in Loggers : handlers[l] \in Seq(Anyone) /\ IsInjective(handlers[l])
    BY DEF CapTyped
<1>2. \A l \in Loggers : Cleared(c, ls)[l] = IF l \in ls THEN Only(handlers[l], c) ELSE handlers[l]
    BY DEF Cleared
<1>3. \A l \in Loggers : Cleared(c, ls)[l] \in Seq(Anyone) /\ IsInjective(Cleared(c, ls)[l])
    BY <1>1, <1>2, OnlyIs
<1>4. Cleared(c, ls) \in [Loggers -> Seq(Anyone)]
    BY <1>3 DEF Cleared
<1>. QED
    BY <1>1, <1>2, <1>3, <1>4, OnlyIs

LEMMA OpenedIs ==
    ASSUME CapTyped, NEW ls \in SUBSET Loggers
    PROVE  /\ Opened(ls) \in [Loggers -> Flags]
           /\ \A l \in Loggers \ ls : Opened(ls)[l] = flags[l]
           /\ \A l \in ls : Opened(ls)[l].propagate /\ ~Opened(ls)[l].disabled
<1>1. \A l \in Loggers : flags[l] \in Flags
    BY DEF CapTyped
<1>2. ASSUME NEW f \in Flags
      PROVE  /\ [f EXCEPT !.propagate = TRUE, !.disabled = FALSE] \in Flags
             /\ [f EXCEPT !.propagate = TRUE, !.disabled = FALSE].propagate
             /\ ~[f EXCEPT !.propagate = TRUE, !.disabled = FALSE].disabled
    BY DEF Flags
<1>3. \A l \in Loggers : Opened(ls)[l] =
          IF l \in ls THEN [flags[l] EXCEPT !.propagate = TRUE, !.disabled = FALSE] ELSE flags[l]
    BY DEF Opened
<1>4. Opened(ls) = [l \in Loggers |-> Opened(ls)[l]]
    BY DEF Opened
<1>5. \A l \in Loggers : Opened(ls)[l] \in Flags
    BY <1>1, <1>2, <1>3
<1>. QED
    BY <1>1, <1>2, <1>3, <1>4, <1>5

LEMMA InstallTyped ==
    ASSUME CaptureAssumption, CapTyped, NEW c \in Captures, InstallDoes(c)
    PROVE  CapTyped'
<1>. DEFINE n == Len(captures)
            H == Cleared(c, known')
            O == Opened(known')
<1>1. CapTyped
    OBVIOUS
<1>2. /\ known' \in SUBSET Loggers /\ Root \in known' /\ c \in Anyone
      /\ Captures \subseteq Captures \cup {Application}
    BY DEF InstallDoes, Anyone
<1>3. /\ H \in [Loggers -> Seq(Anyone)] /\ \A l \in Loggers : IsInjective(H[l])
    BY <1>1, <1>2, ClearedIs
<1>4. O \in [Loggers -> Flags]
    BY <1>1, <1>2, OpenedIs
<1>5. handlers' = [H EXCEPT ![Root] = With(@, c)]
    BY DEF InstallDoes
<1>6. \A l \in Loggers : flags'[l] = IF l \in Named[c] \cup {Root} THEN [O[l] EXCEPT !.level = c] ELSE O[l]
    BY DEF InstallDoes
<1>7. flags' = [l \in Loggers |-> flags'[l]]
    BY DEF InstallDoes
<1>. HIDE DEF H, O
<1>8. \A f \in Flags : [f EXCEPT !.level = c] \in Flags
    BY DEF Flags
<1>9. flags' \in [Loggers -> Flags]
    BY <1>4, <1>6, <1>7, <1>8
<1>10. With(H[Root], c) \in Seq(Anyone) /\ IsInjective(With(H[Root], c))
    BY <1>2, <1>3, WithIs
<1>11. /\ handlers' \in [Loggers -> Seq(Anyone)]
       /\ \A l \in Loggers : IsInjective(handlers'[l])
    BY <1>2, <1>3, <1>5, <1>10
<1>12. /\ Took(c, known', Saving(c, known'))
       /\ \A d \in Captures : saved'[d] = IF d = c THEN Saving(c, known') ELSE saved[d]
       /\ saved' \in [Captures -> [Loggers -> Kept \cup {NotTaken}]]
    <2>1. n \in Nat
        BY <1>1, PlacesAre
    <2>. HIDE DEF n
    <2>. QED
        BY <1>1, <2>1, InstallHolds DEF n
<1>13. \A d \in Captures : \A l \in Loggers : saved'[d][l] # NotTaken => Right(saved'[d][l])
    <2>1. \A l \in Loggers : Saving(c, known')[l] # NotTaken => Right(Saving(c, known')[l])
        BY <1>1, <1>12, BeforeIs DEF Took
    <2>. QED
        BY <1>1, <1>12, <2>1, BeforeIs
<1>14. /\ former' \in [Captures -> Captures \cup {LastResort}] /\ resort' \in Captures \cup {LastResort}
    BY <1>1 DEF InstallDoes, CapTyped
<1>. QED
    BY <1>1, <1>2, <1>9, <1>11, <1>12, <1>13, <1>14 DEF CapTyped, InstallDoes, Right

LEMMA InstallKeeps ==
    ASSUME CaptureAssumption, Undisturbed, NEW c \in Captures, InstallDoes(c)
    PROVE  Undisturbed'
<1>1. CapTyped /\ Taking /\ Resorts /\ Flagged /\ Attached /\ Restored
    BY DEF Undisturbed
<1>2. PICK n \in Nat : n = Len(captures)
    BY <1>1, PlacesAre
<1>3. /\ DOMAIN captures = 1 .. n /\ (captures = <<>> <=> n = 0)
      /\ \A i \in 1 .. n : captures[i] \in Captures /\ captures[i] # c /\ captures[i] \in Range(captures)
    BY <1>1, <1>2, PlacesAre DEF InstallDoes
<1>4. /\ usage' = usage /\ plain' = plain /\ found' = found /\ known \subseteq known'
      /\ known' \subseteq Loggers /\ Root \in known' /\ Named[c] \cup {Root} \subseteq known'
      /\ resort' = c /\ former' = [former EXCEPT ![c] = resort]
    BY DEF InstallDoes
<1>5. /\ DOMAIN captures' = 1 .. n + 1 /\ Len(captures') = n + 1 /\ captures' # <<>>
      /\ captures'[n + 1] = c /\ \A i \in 1 .. n : captures'[i] = captures[i]
      /\ Range(captures') = Range(captures) \cup {c}
    BY <1>2 DEF InstallDoes
<1>6. /\ Took(c, known', Saving(c, known'))
      /\ \A d \in Captures : saved'[d] = IF d = c THEN Saving(c, known') ELSE saved[d]
      /\ \A l \in Loggers :
             /\ \A i \in 1 .. n : Holds(i, l)' = Holds(i, l)
             /\ Holds(n + 1, l)' = Saving(c, known')[l]
             /\ Before(c, l).handlers = <<>> /\ Before(c, l).flags = flags[l]
             /\ l \notin known' => Saving(c, known')[l] = NotTaken
    BY <1>1, <1>2, InstallHolds
<1>. DEFINE new(l) == Saving(c, known')[l]
<1>7. \A l \in known' :
          /\ new(l) # NotTaken /\ new(l).flags = flags[l]
          /\ new(l).handlers = Foreign(c, l)
          /\ Range(new(l).handlers) = Range(handlers[l]) \ {c}
    <2>. SUFFICES ASSUME NEW l \in known'
                  PROVE  /\ new(l) # NotTaken /\ new(l).flags = flags[l]
                         /\ new(l).handlers = Foreign(c, l)
                         /\ Range(new(l).handlers) = Range(handlers[l]) \ {c}
        OBVIOUS
    <2>1. l \in Loggers
        BY <1>4
    <2>2. Foreign(c, l) \in Seq(Anyone) /\ Range(<<>>) = {}
        BY <1>1, <2>1, ForeignIs DEF Range
    <2>3. <<>> \o Foreign(c, l) = Foreign(c, l)
        BY <2>2
    <2>. HIDE DEF new
    <2>4. /\ new(l) # NotTaken /\ new(l).flags = Before(c, l).flags
          /\ new(l).handlers = Before(c, l).handlers \o Foreign(c, l)
          /\ Range(new(l).handlers) = Range(Before(c, l).handlers) \cup (Range(handlers[l]) \ {c})
        BY <1>6 DEF Took, new
    <2>. QED
        BY <1>6, <2>1, <2>2, <2>3, <2>4
<1>. HIDE DEF new
<1>8. \A l \in Loggers : Holds(n + 1, l)' = new(l) /\ (l \notin known' => new(l) = NotTaken)
    BY <1>6 DEF new
<1>9. CapTyped'
    BY <1>1, InstallTyped
<1>10. Taking'
    <2>1. \A d \in Captures \ Range(captures') : saved'[d] = saved[d] /\ d \in Captures \ Range(captures)
        BY <1>5, <1>6
    <2>2. \A i \in 1 .. n + 1 : Holds(i, Root)' # NotTaken
        <3>1. \A i \in 1 .. n : Holds(i, Root)' # NotTaken
            BY <1>1, <1>3, <1>4, <1>6 DEF Taking
        <3>2. Holds(n + 1, Root)' # NotTaken
            BY <1>4, <1>7, <1>8
        <3>. QED
            BY <3>1, <3>2
    <2>. QED
        BY <1>1, <1>5, <2>1, <2>2 DEF Taking
<1>11. Resorts'
    <2>1. former'[c] = resort /\ \A i \in 1 .. n : former'[captures[i]] = former[captures[i]]
        BY <1>1, <1>3, <1>4 DEF CapTyped
    <2>2. resort = IF n = 0 THEN LastResort ELSE captures[n]
        BY <1>1, <1>2, <1>3 DEF Resorts
    <2>3. \A i \in 1 .. n : former[captures[i]] = IF i = 1 THEN LastResort ELSE captures[i - 1]
        BY <1>1, <1>3 DEF Resorts
    <2>4. \A i \in 1 .. n + 1 : former'[captures'[i]] = IF i = 1 THEN LastResort ELSE captures'[i - 1]
        <3>1. ASSUME NEW i \in 1 .. n
              PROVE former'[captures'[i]] = IF i = 1 THEN LastResort ELSE captures'[i - 1]
            <4>1. i # 1 => i - 1 \in 1 .. n
                OBVIOUS
            <4>. QED
                BY <1>5, <2>1, <2>3, <4>1
        <3>2. former'[captures'[n + 1]] = IF n + 1 = 1 THEN LastResort ELSE captures'[(n + 1) - 1]
            BY <1>5, <2>1, <2>2
        <3>. QED
            BY <3>1, <3>2
    <2>. QED
        BY <1>4, <1>5, <2>4 DEF Resorts
<1>12. Flagged'
    <2>. SUFFICES ASSUME NEW l \in Loggers
                  PROVE  /\ (\A i \in 1 .. n + 1 : Holds(i, l)' = NotTaken) => flags'[l] = found[l]
                         /\ \A i \in 1 .. n + 1 :
                                Holds(i, l)' # NotTaken /\ (\A j \in 1 .. n + 1 : j < i => Holds(j, l)' = NotTaken)
                                    => Holds(i, l)'.flags = found[l]
        BY <1>4, <1>5 DEF Flagged
    <2>1. /\ (\A i \in 1 .. n : Holds(i, l) = NotTaken) => flags[l] = found[l]
          /\ \A i \in 1 .. n :
                 Holds(i, l) # NotTaken /\ (\A j \in 1 .. n : j < i => Holds(j, l) = NotTaken)
                     => Holds(i, l).flags = found[l]
        BY <1>1, <1>3 DEF Flagged
    <2>2. l \notin known' => flags'[l] = flags[l]
        <3>1. l \notin known' => Opened(known')[l] = flags[l]
            BY <1>1, <1>4, OpenedIs
        <3>. QED
            BY <1>4, <3>1 DEF InstallDoes
    <2>3. (\A i \in 1 .. n + 1 : Holds(i, l)' = NotTaken) => flags'[l] = found[l]
        <3>. SUFFICES ASSUME \A i \in 1 .. n + 1 : Holds(i, l)' = NotTaken PROVE flags'[l] = found[l]
            OBVIOUS
        <3>1. n + 1 \in 1 .. n + 1 /\ \A i \in 1 .. n : i \in 1 .. n + 1
            OBVIOUS
        <3>. QED
            BY <1>6, <1>7, <1>8, <2>1, <2>2, <3>1
    <2>4. ASSUME NEW i \in 1 .. n + 1, Holds(i, l)' # NotTaken,
                 \A j \in 1 .. n + 1 : j < i => Holds(j, l)' = NotTaken
          PROVE  Holds(i, l)'.flags = found[l]
        <3>1. CASE i \in 1 .. n
            BY <1>6, <2>1, <2>4, <3>1
        <3>2. CASE i = n + 1
            <4>1. \A j \in 1 .. n : Holds(j, l) = NotTaken
                BY <1>6, <2>4, <3>2
            <4>2. l \in known'
                BY <1>8, <2>4, <3>2
            <4>. QED
                BY <1>7, <1>8, <2>1, <3>2, <4>1, <4>2
        <3>. QED
            BY <3>1, <3>2
    <2>. QED
        BY <2>3, <2>4
<1>13. \A l \in Loggers :
           /\ Range(handlers'[l]) \subseteq Range(handlers[l]) \cup (IF l = Root THEN {c} ELSE {})
           /\ c \notin Range(handlers[l]) /\ c \in Range(handlers'[l]) => l = Root
           /\ l # Root /\ l \in known' /\ c \notin Range(handlers[l]) => handlers'[l] = <<>>
           /\ l # Root /\ l \notin known' => handlers'[l] = handlers[l]
           /\ c \notin Range(handlers[l]) /\ l = Root => handlers'[l] = <<c>>
    <2>. DEFINE H == Cleared(c, known')
    <2>1. /\ H \in [Loggers -> Seq(Anyone)]
          /\ \A l \in Loggers \ known' : H[l] = handlers[l]
          /\ \A l \in known' : /\ Range(H[l]) = Range(handlers[l]) \cap {c}
                               /\ c \notin Range(handlers[l]) => H[l] = <<>>
          /\ \A l \in Loggers : IsInjective(H[l])
        <3>1. CapTyped /\ known' \in SUBSET Loggers
            BY <1>1, <1>4
        <3>2. H \in [Loggers -> Seq(Anyone)] /\ \A l \in Loggers : IsInjective(H[l])
            BY <3>1, ClearedIs
        <3>3. \A l \in Loggers \ known' : H[l] = handlers[l]
            BY <3>1, ClearedIs
        <3>4. \A l \in known' : Range(H[l]) = Range(handlers[l]) \cap {c}
            BY <3>1, ClearedIs
        <3>5. \A l \in known' : c \notin Range(handlers[l]) => H[l] = <<>>
            BY <3>1, ClearedIs
        <3>. QED
            BY <3>2, <3>3, <3>4, <3>5
    <2>. HIDE DEF H
    <2>2. handlers' = [H EXCEPT ![Root] = With(@, c)] /\ c \in Anyone
        BY DEF InstallDoes, H, Anyone
    <2>3. Range(With(H[Root], c)) = Range(H[Root]) \cup {c}
        BY <1>4, <2>1, <2>2, WithIs
    <2>4. H[Root] = <<>> => With(H[Root], c) = <<c>>
        BY DEF With, Range
    <2>5. \A l \in Loggers : handlers'[l] = IF l = Root THEN With(H[Root], c) ELSE H[l]
        BY <1>4, <2>1, <2>2
    <2>. QED
        BY <1>4, <2>1, <2>3, <2>4, <2>5
<1>14. ASSUME "copy" \notin usage.may, NEW l \in Loggers
       PROVE  /\ \A h \in Range(handlers[l]) : h \in Handlers \/ (l = Root /\ n > 0 /\ h = captures[n])
              /\ \A i \in 1 .. n : Holds(i, l) # NotTaken =>
                     \A h \in Range(Holds(i, l).handlers) :
                         h \in Handlers \/ (l = Root /\ i > 1 /\ h = captures[i - 1])
              /\ c \notin Range(handlers[l])
    <2>1. c \notin Handlers
        BY DEF CaptureAssumption
    <2>2. /\ \A h \in Range(handlers[l]) : h \in Handlers \/ (l = Root /\ n > 0 /\ h = captures[n])
          /\ \A i \in 1 .. n : Holds(i, l) # NotTaken =>
                     \A h \in Range(Holds(i, l).handlers) :
                         h \in Handlers \/ (l = Root /\ i > 1 /\ h = captures[i - 1])
        BY <1>1, <1>2, <1>3, <1>14 DEF Attached
    <2>. QED
        BY <1>3, <2>1, <2>2
<1>15. Attached'
    <2>. SUFFICES ASSUME "copy" \notin usage.may, NEW l \in Loggers
                  PROVE  /\ \A h \in Range(handlers'[l]) : h \in Handlers \/ (l = Root /\ h = c)
                         /\ \A i \in 1 .. n + 1 : Holds(i, l)' # NotTaken =>
                                \A h \in Range(Holds(i, l)'.handlers) :
                                    h \in Handlers \/ (l = Root /\ i > 1 /\ h = captures'[i - 1])
        BY <1>4, <1>5 DEF Attached
    <2>1. \A h \in Range(handlers'[l]) : h \in Handlers \/ (l = Root /\ h = c)
        <3>1. l # Root => handlers'[l] = <<>> \/ handlers'[l] = handlers[l]
            BY <1>13, <1>14
        <3>2. l = Root => handlers'[l] = <<c>>
            BY <1>13, <1>14
        <3>3. Range(<<c>>) = {c} /\ Range(<<>>) = {}
            BY DEF Range
        <3>. QED
            BY <1>14, <3>1, <3>2, <3>3
    <2>2. ASSUME NEW i \in 1 .. n, Holds(i, l)' # NotTaken, NEW h \in Range(Holds(i, l)'.handlers)
          PROVE  h \in Handlers \/ (l = Root /\ i > 1 /\ h = captures'[i - 1])
        <3>1. i > 1 => i - 1 \in 1 .. n
            OBVIOUS
        <3>. QED
            BY <1>5, <1>6, <1>14, <2>2, <3>1
    <2>3. ASSUME Holds(n + 1, l)' # NotTaken, NEW h \in Range(Holds(n + 1, l)'.handlers)
          PROVE  h \in Handlers \/ (l = Root /\ n + 1 > 1 /\ h = captures'[(n + 1) - 1])
        <3>1. l \in known' /\ h \in Range(handlers[l])
            BY <1>7, <1>8, <2>3
        <3>2. n > 0 => n \in 1 .. n /\ (n + 1) - 1 = n /\ n + 1 > 1
            OBVIOUS
        <3>. QED
            BY <1>5, <1>14, <3>1, <3>2
    <2>. QED
        BY <2>1, <2>2, <2>3
<1>16. Restored'
    <2>. SUFFICES ASSUME Orderly
                  PROVE  /\ \A l \in Loggers :
                                /\ handlers'[l] = Lone(c, l)
                                /\ plain[l] = IF Holds(1, l)' = NotTaken THEN <<>> ELSE Holds(1, l)'.handlers
                         /\ \A i \in 1 .. n + 1 : i > 1 => \A l \in Loggers :
                                Holds(i, l)' # NotTaken => Holds(i, l)'.handlers = Lone(captures'[i - 1], l)
                         /\ \A l \in Loggers \ known' : handlers'[l] = <<>> /\ plain[l] = <<>>
        BY <1>4, <1>5 DEF Restored, Orderly, Lone
    <2>1. "copy" \notin usage.may
        BY DEF Orderly
    <2>2. \A l \in Loggers \ known : handlers[l] = <<>> /\ plain[l] = <<>>
        BY <1>1 DEF Restored
    <2>3. \A l \in Loggers : handlers'[l] = Lone(c, l)
        BY <1>4, <1>13, <1>14, <2>1, <2>2 DEF Lone
    <2>4. \A l \in Loggers \ known' : handlers'[l] = <<>> /\ plain[l] = <<>>
        BY <1>4, <2>2, <2>3 DEF Lone
    <2>5. CASE n = 0
        <3>1. handlers = plain
            BY <1>1, <1>3, <2>5 DEF Restored
        <3>2. \A l \in known' : new(l) # NotTaken /\ new(l).handlers = handlers[l]
            <4>. SUFFICES ASSUME NEW l \in known' PROVE new(l) # NotTaken /\ new(l).handlers = handlers[l]
                OBVIOUS
            <4>1. l \in Loggers /\ c \notin Range(handlers[l])
                BY <1>4, <1>14, <2>1
            <4>2. saved[c][l] = NotTaken
                BY <1>1, <4>1 DEF Taking, InstallDoes
            <4>3. Foreign(c, l) = handlers[l]
                BY <1>1, <4>1, <4>2, ForeignIs
            <4>. QED
                BY <1>7, <4>3
        <3>3. \A l \in Loggers : plain[l] = IF Holds(1, l)' = NotTaken THEN <<>> ELSE Holds(1, l)'.handlers
            <4>1. \A l \in Loggers : Holds(1, l)' = new(l)
                BY <1>8, <2>5
            <4>. QED
                BY <1>8, <2>4, <3>1, <3>2, <4>1
        <3>. QED
            BY <2>3, <2>4, <2>5, <3>3
    <2>6. CASE n # 0
        <3>1. \A l \in Loggers :
                  /\ handlers[l] = Lone(captures[n], l)
                  /\ plain[l] = IF Holds(1, l) = NotTaken THEN <<>> ELSE Holds(1, l).handlers
            BY <1>1, <1>2, <1>3, <2>6 DEF Restored
        <3>2. \A i \in 1 .. n : i > 1 => \A l \in Loggers :
                  Holds(i, l) # NotTaken => Holds(i, l).handlers = Lone(captures[i - 1], l)
            BY <1>1, <1>3 DEF Restored
        <3>3. \A l \in Loggers : Holds(1, l)' = Holds(1, l)
            BY <1>6, <2>6
        <3>4. ASSUME NEW i \in 1 .. n, i > 1, NEW l \in Loggers, Holds(i, l)' # NotTaken
              PROVE  Holds(i, l)'.handlers = Lone(captures'[i - 1], l)
            <4>1. i - 1 \in 1 .. n
                BY <3>4
            <4>. QED
                BY <1>5, <1>6, <3>2, <3>4, <4>1
        <3>5. ASSUME NEW l \in Loggers, Holds(n + 1, l)' # NotTaken
              PROVE  Holds(n + 1, l)'.handlers = Lone(captures'[(n + 1) - 1], l)
            <4>1. l \in known' /\ c \notin Range(handlers[l])
                BY <1>8, <1>14, <2>1, <3>5
            <4>2. saved[c][l] = NotTaken
                BY <1>1 DEF Taking, InstallDoes
            <4>3. Foreign(c, l) = handlers[l]
                BY <1>1, <4>1, <4>2, ForeignIs
            <4>4. captures'[(n + 1) - 1] = captures[n]
                BY <1>5, <2>6
            <4>. QED
                BY <1>7, <1>8, <3>1, <4>1, <4>3, <4>4
        <3>6. \A i \in 1 .. n + 1 : i > 1 => \A l \in Loggers :
                  Holds(i, l)' # NotTaken => Holds(i, l)'.handlers = Lone(captures'[i - 1], l)
            <4>1. \A i \in 1 .. n + 1 : i \in 1 .. n \/ i = n + 1
                OBVIOUS
            <4>. QED
                BY <3>4, <3>5, <4>1
        <3>. QED
            BY <2>3, <2>4, <3>1, <3>3, <3>6
    <2>. QED
        BY <2>5, <2>6
<1>. QED
    BY <1>9, <1>10, <1>11, <1>12, <1>15, <1>16 DEF Undisturbed

-----------------------------------------------------------------------------
(* release() *)

\* The one in the i-th place goes, and those behind move up.
ReleaseDoes(c, i) ==
    LET n == Len(captures) IN
    /\ usage' = usage /\ known' = known /\ plain' = plain /\ found' = found
    /\ captures[i] = c
    /\ captures' \in Seq(Captures) /\ IsInjective(captures') /\ Range(captures') = Range(captures) \ {c}
    /\ Len(captures') = n - 1
    /\ \A j \in 1 .. n - 1 : captures'[j] = IF j < i THEN captures[j] ELSE captures[j + 1]

LEMMA ReleaseEffect ==
    ASSUME CapTyped, NEW c \in Captures, Release(c)
    PROVE  \E i \in 1 .. Len(captures) :
               /\ ReleaseDoes(c, i)
               /\ \/ i = Len(captures) /\ PutBack(c)
                  \/ i # Len(captures) /\ HandOver(c, captures[i + 1])
<1>1. PICK i \in DOMAIN captures :
          captures[i] = c /\ IF c = Top THEN PutBack(c) ELSE HandOver(c, captures[i + 1])
    BY DEF Release
<1>2. captures \in Seq(Captures) /\ IsInjective(captures) /\ Captures \subseteq Anyone
    BY DEF CapTyped, Anyone
<1>3. captures' = Without(captures, c)
    BY DEF Release
<1>4. /\ captures' \in Seq(Captures) /\ IsInjective(captures')
      /\ Range(captures') = Range(captures) \ {c}
    BY <1>2, <1>3, WithoutIs
<1>5. MovedUp(captures', captures, i)
    <2>1. captures \in Seq(Anyone)
        BY <1>2
    <2>. QED
        BY <1>1, <1>2, <1>3, <2>1, SelectedOthers DEF Without
<1>6. c = Top <=> i = Len(captures)
    <2>1. Top = captures[Len(captures)]
        BY DEF Last, Top
    <2>2. i \in 1 .. Len(captures) /\ Len(captures) \in 1 .. Len(captures)
        BY <1>1, <1>2
    <2>3. captures[i] = captures[Len(captures)] => i = Len(captures)
        BY <2>2, PlacesAre
    <2>. QED
        BY <1>1, <2>1, <2>3
<1>7. ReleaseDoes(c, i)
    BY <1>1, <1>4, <1>5 DEF ReleaseDoes, MovedUp, Release, historyVars
<1>. QED
    BY <1>1, <1>2, <1>6, <1>7

\* The last one gives back what it found.
LEMMA PutBackTyped ==
    ASSUME CapTyped, NEW c \in Captures, NEW i, ReleaseDoes(c, i), PutBack(c)
    PROVE  CapTyped'
<1>1. /\ saved \in [Captures -> [Loggers -> Kept \cup {NotTaken}]]
      /\ former \in [Captures -> Captures \cup {LastResort}]
      /\ \A l \in Loggers :
             /\ handlers[l] \in Seq(Anyone) /\ IsInjective(handlers[l]) /\ flags[l] \in Flags
    BY DEF CapTyped
<1>2. \A l \in Loggers :
          /\ handlers'[l] = IF saved[c][l] # NotTaken THEN saved[c][l].handlers
                            ELSE IF l = Root THEN Without(handlers[l], c) ELSE handlers[l]
          /\ flags'[l] = IF saved[c][l] # NotTaken THEN saved[c][l].flags ELSE flags[l]
    BY DEF PutBack
<1>3. \A l \in Loggers : saved[c][l] # NotTaken =>
          /\ saved[c][l].handlers \in Seq(Anyone) /\ IsInjective(saved[c][l].handlers)
          /\ saved[c][l].flags \in Flags
    BY BeforeIs, KeptIs DEF Right
<1>4. \A l \in Loggers : Without(handlers[l], c) \in Seq(Anyone) /\ IsInjective(Without(handlers[l], c))
    BY <1>1, WithoutIs
<1>5. \A l \in Loggers :
          /\ handlers'[l] \in Seq(Anyone) /\ IsInjective(handlers'[l]) /\ flags'[l] \in Flags
    BY <1>1, <1>2, <1>3, <1>4
<1>6. handlers' = [l \in Loggers |-> handlers'[l]] /\ flags' = [l \in Loggers |-> flags'[l]]
    BY DEF PutBack
<1>7. handlers' \in [Loggers -> Seq(Anyone)] /\ flags' \in [Loggers -> Flags]
    BY <1>5, <1>6
<1>8. /\ \A d \in Captures \ {c} : saved'[d] = saved[d]
      /\ \A l \in Loggers : saved'[c][l] = NotTaken
      /\ saved' \in [Captures -> [Loggers -> Kept \cup {NotTaken}]]
    <2>1. saved' = [saved EXCEPT ![c] = [l \in Loggers |-> NotTaken]]
        BY DEF PutBack
    <2>. QED
        BY <1>1, <2>1
<1>9. \A d \in Captures : \A l \in Loggers : saved'[d][l] # NotTaken =>
          saved'[d][l] \in Kept /\ IsInjective(saved'[d][l].handlers)
    BY <1>8 DEF CapTyped
<1>10. former' = former /\ resort' \in Captures \cup {LastResort}
    BY <1>1 DEF PutBack
<1>11. /\ usage' = usage /\ known' = known /\ plain' = plain /\ found' = found
       /\ captures' \in Seq(Captures) /\ IsInjective(captures')
    BY DEF ReleaseDoes
<1>. QED
    BY <1>5, <1>7, <1>8, <1>9, <1>10, <1>11 DEF CapTyped

LEMMA PutBackKeeps ==
    ASSUME CaptureAssumption, Undisturbed, NEW c \in Captures,
           ReleaseDoes(c, Len(captures)), captures # <<>>, PutBack(c)
    PROVE  Undisturbed'
<1>1. CapTyped /\ Taking /\ Resorts /\ Flagged /\ Attached /\ Restored
    BY DEF Undisturbed
<1>2. PICK n \in Nat : n = Len(captures)
    BY <1>1, PlacesAre
<1>3. /\ DOMAIN captures = 1 .. n /\ (captures = <<>> <=> n = 0)
      /\ \A i \in 1 .. n : captures[i] \in Captures /\ captures[i] \in Range(captures)
      /\ \A i, j \in 1 .. n : captures[i] = captures[j] => i = j
    BY <1>1, <1>2, PlacesAre
<1>4. /\ usage' = usage /\ known' = known /\ plain' = plain /\ found' = found
      /\ n # 0 /\ n \in 1 .. n /\ captures[n] = c
      /\ Range(captures') = Range(captures) \ {c}
      /\ Len(captures') = n - 1 /\ DOMAIN captures' = 1 .. n - 1
      /\ (captures' = <<>> <=> n = 1)
      /\ \A j \in 1 .. n - 1 : j \in 1 .. n /\ captures'[j] = captures[j] /\ captures[j] # c
    <2>1. captures' \in Seq(Captures) /\ Len(captures') = n - 1 /\ n # 0
        BY <1>2, <1>3 DEF ReleaseDoes
    <2>2. /\ DOMAIN captures' = 1 .. n - 1
          /\ (captures' = <<>> <=> n = 1)
          /\ n \in 1 .. n /\ \A j \in 1 .. n - 1 : j < n /\ j \in 1 .. n
        BY <2>1
    <2>3. captures[n] = c /\ \A j \in 1 .. n - 1 : captures'[j] = captures[j]
        BY <1>2, <2>2 DEF ReleaseDoes
    <2>4. \A j \in 1 .. n - 1 : captures[j] # c
        BY <1>3, <2>2, <2>3
    <2>. QED
        BY <2>1, <2>2, <2>3, <2>4 DEF ReleaseDoes
<1>5. /\ Root \in Loggers /\ Root \in known
      /\ saved \in [Captures -> [Loggers -> Kept \cup {NotTaken}]]
      /\ former \in [Captures -> Captures \cup {LastResort}]
    BY <1>1 DEF CapTyped
<1>6. /\ \A d \in Captures \ {c} : saved'[d] = saved[d]
      /\ \A l \in Loggers : saved'[c][l] = NotTaken
      /\ saved' \in [Captures -> [Loggers -> Kept \cup {NotTaken}]]
    <2>1. saved' = [saved EXCEPT ![c] = [l \in Loggers |-> NotTaken]]
        BY DEF PutBack
    <2>. QED
        BY <1>5, <2>1
<1>7. \A l \in Loggers : \A i \in 1 .. n - 1 : Holds(i, l)' = Holds(i, l)
    <2>. SUFFICES ASSUME NEW l \in Loggers, NEW i \in 1 .. n - 1 PROVE Holds(i, l)' = Holds(i, l)
        OBVIOUS
    <2>1. Holds(i, l)' = saved'[captures'[i]][l]
        BY DEF Holds
    <2>2. captures'[i] = captures[i] /\ captures[i] \in Captures \ {c}
        BY <1>3, <1>4
    <2>. QED
        BY <1>6, <2>1, <2>2 DEF Holds
<1>8. \A l \in Loggers :
          /\ Holds(n, l) # NotTaken => Right(Holds(n, l)) /\ Holds(n, l) = saved[c][l]
          /\ Holds(n, l) # NotTaken => handlers'[l] = Holds(n, l).handlers /\ flags'[l] = Holds(n, l).flags
          /\ Holds(n, l) = NotTaken => handlers'[l] = handlers[l] /\ flags'[l] = flags[l] /\ l # Root
    <2>1. \A l \in Loggers : Holds(n, l) = saved[c][l]
        BY <1>4 DEF Holds
    <2>2. Holds(n, Root) # NotTaken
        BY <1>1, <1>3, <1>4 DEF Taking
    <2>3. \A l \in Loggers :
              /\ handlers'[l] = IF saved[c][l] # NotTaken THEN saved[c][l].handlers
                                ELSE IF l = Root THEN Without(handlers[l], c) ELSE handlers[l]
              /\ flags'[l] = IF saved[c][l] # NotTaken THEN saved[c][l].flags ELSE flags[l]
        BY DEF PutBack
    <2>4. \A l \in Loggers : saved[c][l] # NotTaken => Right(saved[c][l])
        BY <1>1, BeforeIs
    <2>. QED
        BY <2>1, <2>2, <2>3, <2>4
<1>9. CapTyped'
    BY <1>1, PutBackTyped
<1>10. Taking'
    <2>1. \A i \in 1 .. n - 1 : Holds(i, Root)' # NotTaken
        BY <1>1, <1>3, <1>4, <1>5, <1>7 DEF Taking
    <2>2. \A d \in Captures \ Range(captures') : d = c \/ d \in Captures \ Range(captures)
        BY <1>4
    <2>3. \A d \in Captures \ Range(captures') : \A l \in Loggers : saved'[d][l] = NotTaken
        BY <1>1, <1>6, <2>2 DEF Taking
    <2>. QED
        BY <1>4, <2>1, <2>3 DEF Taking
<1>11. Resorts'
    <2>1. \A i \in 1 .. n : former[captures[i]] = IF i = 1 THEN LastResort ELSE captures[i - 1]
        BY <1>1, <1>3 DEF Resorts
    <2>2. resort' = former[c] /\ former' = former
        BY DEF PutBack
    <2>3. resort' = IF n = 1 THEN LastResort ELSE captures'[n - 1]
        <3>1. former[c] = IF n = 1 THEN LastResort ELSE captures[n - 1]
            BY <1>4, <2>1
        <3>2. n # 1 => n - 1 \in 1 .. n - 1
            BY <1>4
        <3>. QED
            BY <1>4, <2>2, <3>1, <3>2
    <2>4. ASSUME NEW i \in 1 .. n - 1
          PROVE  former'[captures'[i]] = IF i = 1 THEN LastResort ELSE captures'[i - 1]
        <3>1. i # 1 => i - 1 \in 1 .. n - 1
            OBVIOUS
        <3>. QED
            BY <1>4, <2>1, <2>2, <3>1
    <2>. QED
        BY <1>4, <2>3, <2>4 DEF Resorts
<1>12. Flagged'
    <2>0. DOMAIN captures' = 1 .. n - 1 /\ found' = found
        BY <1>4
    <2>. SUFFICES ASSUME NEW l \in Loggers
                  PROVE  /\ (\A i \in 1 .. n - 1 : Holds(i, l)' = NotTaken) => flags'[l] = found[l]
                         /\ \A i \in 1 .. n - 1 :
                                Holds(i, l)' # NotTaken /\ (\A j \in 1 .. n - 1 : j < i => Holds(j, l)' = NotTaken)
                                    => Holds(i, l)'.flags = found[l]
        BY <2>0 DEF Flagged
    <2>1. /\ (\A i \in 1 .. n : Holds(i, l) = NotTaken) => flags[l] = found[l]
          /\ \A i \in 1 .. n :
                 Holds(i, l) # NotTaken /\ (\A j \in 1 .. n : j < i => Holds(j, l) = NotTaken)
                     => Holds(i, l).flags = found[l]
        BY <1>1, <1>3 DEF Flagged
    <2>2. ASSUME \A i \in 1 .. n - 1 : Holds(i, l)' = NotTaken PROVE flags'[l] = found[l]
        <3>1. \A i \in 1 .. n - 1 : Holds(i, l) = NotTaken
            BY <1>7, <2>2
        <3>2. \A i \in 1 .. n : i = n \/ i \in 1 .. n - 1
            OBVIOUS
        <3>3. \A j \in 1 .. n : j < n => Holds(j, l) = NotTaken
            BY <3>1, <3>2
        <3>. QED
            BY <1>4, <1>8, <2>1, <3>1, <3>2, <3>3
    <2>3. ASSUME NEW i \in 1 .. n - 1, Holds(i, l)' # NotTaken,
                 \A j \in 1 .. n - 1 : j < i => Holds(j, l)' = NotTaken
          PROVE  Holds(i, l)'.flags = found[l]
        <3>1. \A j \in 1 .. n : j < i => j \in 1 .. n - 1
            OBVIOUS
        <3>2. \A j \in 1 .. n : j < i => Holds(j, l) = NotTaken
            BY <1>7, <2>3, <3>1
        <3>. QED
            BY <1>4, <1>7, <2>1, <2>3, <3>2
    <2>. QED
        BY <2>2, <2>3
<1>13. Attached'
    <2>. SUFFICES ASSUME "copy" \notin usage.may, NEW l \in Loggers
                  PROVE  /\ \A h \in Range(handlers'[l]) :
                                h \in Handlers \/ (l = Root /\ n # 1 /\ h = captures'[n - 1])
                         /\ \A i \in 1 .. n - 1 : Holds(i, l)' # NotTaken =>
                                \A h \in Range(Holds(i, l)'.handlers) :
                                    h \in Handlers \/ (l = Root /\ i > 1 /\ h = captures'[i - 1])
        BY <1>4 DEF Attached
    <2>1. /\ \A h \in Range(handlers[l]) : h \in Handlers \/ l = Root
          /\ \A i \in 1 .. n : Holds(i, l) # NotTaken =>
                     \A h \in Range(Holds(i, l).handlers) :
                         h \in Handlers \/ (l = Root /\ i > 1 /\ h = captures[i - 1])
        BY <1>1, <1>3 DEF Attached
    <2>2. \A h \in Range(handlers'[l]) :
              h \in Handlers \/ (l = Root /\ n # 1 /\ h = captures'[n - 1])
        <3>1. n > 1 => n - 1 \in 1 .. n - 1
            OBVIOUS
        <3>. QED
            BY <1>4, <1>8, <2>1, <3>1
    <2>3. ASSUME NEW i \in 1 .. n - 1, Holds(i, l)' # NotTaken, NEW h \in Range(Holds(i, l)'.handlers)
          PROVE  h \in Handlers \/ (l = Root /\ i > 1 /\ h = captures'[i - 1])
        <3>1. i > 1 => i - 1 \in 1 .. n - 1
            OBVIOUS
        <3>. QED
            BY <1>4, <1>7, <2>1, <2>3, <3>1
    <2>. QED
        BY <2>2, <2>3
<1>14. Restored'
    <2>. SUFFICES ASSUME Orderly
                  PROVE  /\ n = 1 => handlers' = plain
                         /\ n # 1 => \A l \in Loggers :
                                /\ handlers'[l] = Lone(captures'[n - 1], l)
                                /\ plain[l] = IF Holds(1, l)' = NotTaken THEN <<>> ELSE Holds(1, l)'.handlers
                         /\ \A i \in 1 .. n - 1 : i > 1 => \A l \in Loggers :
                                Holds(i, l)' # NotTaken => Holds(i, l)'.handlers = Lone(captures'[i - 1], l)
                         /\ \A l \in Loggers \ known : handlers'[l] = <<>> /\ plain[l] = <<>>
        BY <1>4 DEF Restored, Orderly, Lone
    <2>1. /\ \A l \in Loggers : handlers[l] = Lone(c, l)
          /\ \A l \in Loggers : plain[l] = IF Holds(1, l) = NotTaken THEN <<>> ELSE Holds(1, l).handlers
          /\ \A i \in 1 .. n : i > 1 => \A l \in Loggers :
                 Holds(i, l) # NotTaken => Holds(i, l).handlers = Lone(captures[i - 1], l)
          /\ \A l \in Loggers \ known : plain[l] = <<>>
        BY <1>1, <1>2, <1>3, <1>4 DEF Restored
    <2>2. \A l \in Loggers : Holds(n, l) = NotTaken => handlers'[l] = <<>> /\ l # Root
        BY <1>8, <2>1 DEF Lone
    <2>3. CASE n = 1
        <3>1. \A l \in Loggers : handlers'[l] = plain[l]
            BY <1>8, <2>1, <2>2, <2>3
        <3>2. plain = [l \in Loggers |-> plain[l]] /\ handlers' = [l \in Loggers |-> handlers'[l]]
            BY <1>1 DEF CapTyped, PutBack
        <3>3. handlers' = plain
            BY <3>1, <3>2
        <3>. QED
            BY <2>1, <2>3, <3>3
    <2>4. CASE n # 1
        <3>1. n - 1 \in 1 .. n - 1 /\ 1 \in 1 .. n - 1 /\ n > 1
            BY <1>4, <2>4
        <3>2. \A l \in Loggers : handlers'[l] = Lone(captures'[n - 1], l)
            BY <1>4, <1>8, <2>1, <2>2, <3>1 DEF Lone
        <3>3. \A l \in Loggers : plain[l] = IF Holds(1, l)' = NotTaken THEN <<>> ELSE Holds(1, l)'.handlers
            BY <1>7, <2>1, <3>1
        <3>4. ASSUME NEW i \in 1 .. n - 1, i > 1, NEW l \in Loggers, Holds(i, l)' # NotTaken
              PROVE  Holds(i, l)'.handlers = Lone(captures'[i - 1], l)
            <4>1. i - 1 \in 1 .. n - 1
                BY <3>4
            <4>. QED
                BY <1>4, <1>7, <2>1, <3>4, <4>1
        <3>5. \A l \in Loggers \ known : handlers'[l] = <<>>
            BY <1>5, <3>2 DEF Lone
        <3>. QED
            BY <2>1, <2>4, <3>2, <3>3, <3>4, <3>5
    <2>. QED
        BY <2>3, <2>4
<1>. QED
    BY <1>9, <1>10, <1>11, <1>12, <1>13, <1>14 DEF Undisturbed

\* What is left to the next: what c, which goes, had of a logger comes first.
Inherits(c, first, next, got) ==
    /\ got = NotTaken <=> first = NotTaken /\ next = NotTaken
    /\ first = NotTaken => got = next
    /\ got # NotTaken => Right(got)
    /\ first # NotTaken =>
           /\ got.flags = first.flags
           /\ \A h \in Range(got.handlers) :
                  \/ h \in Range(first.handlers)
                  \/ next # NotTaken /\ h \in Range(next.handlers) /\ h # c
           /\ next = NotTaken \/ Range(next.handlers) \subseteq {c} => got.handlers = first.handlers

LEMMA InheritedIs ==
    ASSUME CapTyped, NotTaken \notin Kept, NEW c \in Captures, NEW s \in Captures, NEW l \in Loggers,
           NEW got, got = Inherited(c, s, l)
    PROVE  Inherits(c, saved[c][l], saved[s][l], got)
<1>1. /\ saved[c][l] # NotTaken => Right(saved[c][l])
      /\ saved[s][l] # NotTaken => Right(saved[s][l])
    BY BeforeIs
<1>2. CASE saved[c][l] = NotTaken
    BY <1>1, <1>2 DEF Inherited, Inherits
<1>3. CASE saved[c][l] # NotTaken
    <2>. DEFINE k == saved[c][l]
                later == IF saved[s][l] = NotTaken THEN <<>> ELSE saved[s][l].handlers
                more == Added(c, k.handlers, later)
                S == Anyone \ ({c} \cup Range(k.handlers))
    <2>1. k \in Kept /\ k.handlers \in Seq(Anyone) /\ IsInjective(k.handlers)
        BY <1>1, <1>3, KeptIs DEF Right
    <2>2. later \in Seq(Anyone) /\ IsInjective(later)
        <3>1. IsInjective(<<>>) /\ <<>> \in Seq(Anyone)
            BY DEF IsInjective
        <3>2. CASE saved[s][l] = NotTaken
            BY <3>1, <3>2
        <3>3. CASE saved[s][l] # NotTaken
            BY <1>1, <3>3, KeptIs DEF Right
        <3>. QED
            BY <3>2, <3>3
    <2>3. /\ \A h \in Range(later) : saved[s][l] # NotTaken /\ h \in Range(saved[s][l].handlers)
          /\ saved[s][l] = NotTaken \/ Range(saved[s][l].handlers) \subseteq {c} => Range(later) \subseteq {c}
        <3>1. Range(<<>>) = {}
            BY DEF Range
        <3>. QED
            BY <3>1
    <2>4. got = [k EXCEPT !.handlers = @ \o more]
        BY <1>3 DEF Inherited
    <2>. HIDE DEF later, k
    <2>5. /\ more \in Seq(Anyone) /\ IsInjective(more) /\ Range(more) = Range(later) \cap S
          /\ Range(later) \subseteq {c} => more = <<>>
        <3>1. more = Selected(later, S)
            BY DEF Added
        <3>2. Range(later) \subseteq {c} => Range(later) \cap S = {}
            OBVIOUS
        <3>. HIDE DEF S, more
        <3>. QED
            BY <2>2, <3>1, <3>2, InjectiveSelected, SelectedRange, SelectedNone
    <2>. HIDE DEF more
    <2>6. Range(k.handlers) \cap Range(more) = {}
        BY <2>5
    <2>7. k.handlers \o more \in Seq(Anyone) /\ IsInjective(k.handlers \o more)
        BY <2>1, <2>5, <2>6, InjectiveConcat
    <2>8. Range(k.handlers \o more) = Range(k.handlers) \cup Range(more)
        BY <2>1, <2>5, RangeConcatenation
    <2>9. got \in Kept /\ got.flags = k.flags /\ got.handlers = k.handlers \o more
        BY <2>1, <2>4, <2>7 DEF Kept
    <2>10. more = <<>> => got.handlers = k.handlers
        BY <2>1, <2>9
    <2>11. c \notin Range(more) /\ Range(more) \subseteq Range(later)
        BY <2>5
    <2>12. got # NotTaken /\ Right(got)
        BY <2>7, <2>9 DEF Right
    <2>13. \A h \in Range(got.handlers) :
               \/ h \in Range(k.handlers)
               \/ saved[s][l] # NotTaken /\ h \in Range(saved[s][l].handlers) /\ h # c
        BY <2>3, <2>8, <2>9, <2>11
    <2>. QED
        BY <1>3, <2>3, <2>5, <2>9, <2>10, <2>12, <2>13 DEF k, Inherits
<1>. QED
    BY <1>2, <1>3

\* One released earlier leaves what it found to the next.
LEMMA HandOverKeeps ==
    ASSUME CaptureAssumption, CapTyped, NEW c \in Captures,
           NEW i \in 1 .. Len(captures), i # Len(captures),
           ReleaseDoes(c, i), HandOver(c, captures[i + 1])
    PROVE  CapTyped' /\ (Undisturbed => Undisturbed')
<1>2. PICK n \in Nat : n = Len(captures)
    BY PlacesAre
<1>3. /\ DOMAIN captures = 1 .. n /\ (captures = <<>> <=> n = 0)
      /\ \A j \in 1 .. n : captures[j] \in Captures /\ captures[j] \in Range(captures)
      /\ \A j, k \in 1 .. n : captures[j] = captures[k] => j = k
    BY <1>2, PlacesAre
<1>4. PICK s \in Captures : s = captures[i + 1]
    <2>1. i + 1 \in 1 .. n
        BY <1>2
    <2>. QED
        BY <1>3, <2>1
<1>5. /\ usage' = usage /\ known' = known /\ plain' = plain /\ found' = found /\ flags' = flags
      /\ resort' = resort
      /\ i \in 1 .. n - 1 /\ i \in 1 .. n /\ i + 1 \in 1 .. n /\ i + 1 > 1 /\ n > 1
      /\ captures[i] = c /\ s # c /\ s \in Range(captures)
      /\ captures # <<>> /\ captures' # <<>>
      /\ Range(captures') = Range(captures) \ {c}
      /\ Len(captures') = n - 1 /\ DOMAIN captures' = 1 .. n - 1
      /\ captures'[n - 1] = captures[n]
    <2>1. i \in 1 .. n - 1 /\ i \in 1 .. n /\ i + 1 \in 1 .. n /\ n > 1 /\ i # i + 1 /\ i + 1 > 1
        BY <1>2
    <2>2. captures[i] = c /\ s # c /\ s \in Range(captures) /\ captures # <<>>
        BY <1>2, <1>3, <1>4, <2>1 DEF ReleaseDoes
    <2>3. captures' \in Seq(Captures) /\ Len(captures') = n - 1
        BY <1>2 DEF ReleaseDoes
    <2>4. captures' # <<>> /\ DOMAIN captures' = 1 .. n - 1
        BY <2>1, <2>3
    <2>5. captures'[n - 1] = captures[n]
        <3>1. n - 1 \in 1 .. n - 1 /\ ~(n - 1 < i) /\ (n - 1) + 1 = n
            BY <2>1
        <3>. QED
            BY <1>2, <3>1 DEF ReleaseDoes
    <2>. QED
        BY <2>1, <2>2, <2>3, <2>4, <2>5 DEF ReleaseDoes, HandOver
<1>6. \A j \in 1 .. n - 1 :
          /\ j \in 1 .. n /\ j + 1 \in 1 .. n
          /\ j < i => captures'[j] = captures[j] /\ captures[j] # c /\ captures[j] # s
          /\ j = i => captures'[j] = s
          /\ j > i => captures'[j] = captures[j + 1] /\ captures[j + 1] # c /\ captures[j + 1] # s
    <2>. SUFFICES ASSUME NEW j \in 1 .. n - 1
                  PROVE  /\ j \in 1 .. n /\ j + 1 \in 1 .. n
                         /\ j < i => captures'[j] = captures[j] /\ captures[j] # c /\ captures[j] # s
                         /\ j = i => captures'[j] = s
                         /\ j > i => captures'[j] = captures[j + 1] /\ captures[j + 1] # c /\ captures[j + 1] # s
        OBVIOUS
    <2>1. captures'[j] = IF j < i THEN captures[j] ELSE captures[j + 1]
        BY <1>2 DEF ReleaseDoes
    <2>2. j \in 1 .. n /\ j + 1 \in 1 .. n
        OBVIOUS
    <2>3. j < i => j # i /\ j # i + 1
        BY <1>5
    <2>4. j > i => j + 1 # i /\ j + 1 # i + 1 /\ ~(j < i)
        BY <1>5
    <2>. QED
        BY <1>3, <1>4, <1>5, <2>1, <2>2, <2>3, <2>4
<1>7. PICK gets \in [Loggers -> Kept \cup {NotTaken}] :
          \A l \in Loggers : gets[l] = Inherited(c, s, l)
    <2>. DEFINE G == [l \in Loggers |-> Inherited(c, s, l)]
    <2>1. NotTaken \notin Kept
        BY DEF CaptureAssumption
    <2>2. \A l \in Loggers : Inherited(c, s, l) \in Kept \cup {NotTaken}
        <3>1. \A l \in Loggers : Inherits(c, saved[c][l], saved[s][l], Inherited(c, s, l))
            BY <2>1, InheritedIs
        <3>. QED
            BY <3>1 DEF Inherits, Right
    <2>3. G \in [Loggers -> Kept \cup {NotTaken}]
        BY <2>2
    <2>. QED
        BY <2>3
<1>8. /\ \A l \in Loggers : saved'[c][l] = NotTaken
      /\ \A l \in Loggers : saved'[s][l] = gets[l]
      /\ \A d \in Captures \ {c, s} : saved'[d] = saved[d]
      /\ saved' \in [Captures -> [Loggers -> Kept \cup {NotTaken}]]
    <2>1. saved \in [Captures -> [Loggers -> Kept \cup {NotTaken}]]
        BY DEF CapTyped
    <2>2. gets = [l \in Loggers |-> Inherited(c, s, l)]
        BY <1>7
    <2>3. saved' = [saved EXCEPT ![s] = gets, ![c] = [l \in Loggers |-> NotTaken]]
        BY <1>4, <2>2 DEF HandOver
    <2>. QED
        BY <1>5, <1>7, <2>1, <2>3
<1>9. \A l \in Loggers :
          /\ Holds(i, l) = saved[c][l] /\ Holds(i + 1, l) = saved[s][l]
          /\ Holds(i, l)' = gets[l]
          /\ \A j \in 1 .. n - 1 : j < i => Holds(j, l)' = Holds(j, l)
          /\ \A j \in 1 .. n - 1 : j > i => Holds(j, l)' = Holds(j + 1, l)
    <2>. SUFFICES ASSUME NEW l \in Loggers
                  PROVE  /\ Holds(i, l) = saved[c][l] /\ Holds(i + 1, l) = saved[s][l]
                         /\ Holds(i, l)' = gets[l]
                         /\ \A j \in 1 .. n - 1 : j < i => Holds(j, l)' = Holds(j, l)
                         /\ \A j \in 1 .. n - 1 : j > i => Holds(j, l)' = Holds(j + 1, l)
        OBVIOUS
    <2>1. \A j \in 1 .. n - 1 : Holds(j, l)' = saved'[captures'[j]][l]
        BY DEF Holds
    <2>2. \A j \in 1 .. n : Holds(j, l) = saved[captures[j]][l]
        BY DEF Holds
    <2>3. \A j \in 1 .. n - 1 : j > i => captures[j + 1] \in Captures \ {c, s}
        BY <1>3, <1>6
    <2>4. \A j \in 1 .. n - 1 : j < i => captures[j] \in Captures \ {c, s}
        BY <1>3, <1>6
    <2>5. ASSUME NEW j \in 1 .. n - 1, j > i PROVE Holds(j, l)' = Holds(j + 1, l)
        BY <1>6, <1>8, <2>1, <2>2, <2>3, <2>5
    <2>6. ASSUME NEW j \in 1 .. n - 1, j < i PROVE Holds(j, l)' = Holds(j, l)
        BY <1>6, <1>8, <2>1, <2>2, <2>4, <2>6
    <2>7. Holds(i, l)' = gets[l]
        BY <1>5, <1>6, <1>8, <2>1
    <2>. QED
        BY <1>4, <1>5, <2>2, <2>5, <2>6, <2>7
<1>10. \A l \in Loggers :
          /\ gets[l] = NotTaken <=> Holds(i, l) = NotTaken /\ Holds(i + 1, l) = NotTaken
          /\ Holds(i, l) = NotTaken => gets[l] = Holds(i + 1, l)
          /\ gets[l] # NotTaken => Right(gets[l])
          /\ Holds(i, l) # NotTaken =>
                  /\ gets[l].flags = Holds(i, l).flags
                  /\ \A h \in Range(gets[l].handlers) :
                         \/ h \in Range(Holds(i, l).handlers)
                         \/ Holds(i + 1, l) # NotTaken /\ h \in Range(Holds(i + 1, l).handlers) /\ h # c
                  /\ Holds(i + 1, l) = NotTaken \/ Range(Holds(i + 1, l).handlers) \subseteq {c}
                         => gets[l].handlers = Holds(i, l).handlers
    <2>1. NotTaken \notin Kept
        BY DEF CaptureAssumption
    <2>2. \A l \in Loggers : Inherits(c, saved[c][l], saved[s][l], gets[l])
        BY <1>7, <2>1, InheritedIs
    <2>3. \A l \in Loggers : Inherits(c, Holds(i, l), Holds(i + 1, l), gets[l])
        BY <1>9, <2>2
    <2>. QED
        BY <2>3 DEF Inherits
<1>11. /\ handlers' \in [Loggers -> Seq(Anyone)]
       /\ \A l \in Loggers : /\ IsInjective(handlers'[l])
                             /\ l # Root => handlers'[l] = handlers[l]
                             /\ Range(handlers'[l]) \subseteq Range(handlers[l])
                             /\ c \notin Range(handlers[l]) => handlers'[l] = handlers[l]
    <2>1. /\ handlers \in [Loggers -> Seq(Anyone)] /\ Root \in Loggers
          /\ \A l \in Loggers : IsInjective(handlers[l])
        BY DEF CapTyped
    <2>2. handlers' = [handlers EXCEPT ![Root] = Without(@, c)]
        BY DEF HandOver
    <2>3. /\ Without(handlers[Root], c) \in Seq(Anyone) /\ IsInjective(Without(handlers[Root], c))
          /\ Range(Without(handlers[Root], c)) \subseteq Range(handlers[Root])
          /\ c \notin Range(handlers[Root]) => Without(handlers[Root], c) = handlers[Root]
        BY <2>1, WithoutIs
    <2>. QED
        BY <2>1, <2>2, <2>3
<1>12. CapTyped'
    <2>1. \A d \in Captures : \A l \in Loggers : saved'[d][l] # NotTaken =>
              saved'[d][l] \in Kept /\ IsInjective(saved'[d][l].handlers)
        <3>. SUFFICES ASSUME NEW d \in Captures, NEW l \in Loggers, saved'[d][l] # NotTaken
                      PROVE  saved'[d][l] \in Kept /\ IsInjective(saved'[d][l].handlers)
            OBVIOUS
        <3>1. CASE d = s
            BY <1>8, <1>10, <3>1 DEF Right
        <3>2. CASE d # s
            <4>1. d # c /\ saved'[d] = saved[d]
                BY <1>8, <3>2
            <4>. QED
                BY <4>1 DEF CapTyped
        <3>. QED
            BY <3>1, <3>2
    <2>2. former' \in [Captures -> Captures \cup {LastResort}]
        BY <1>4 DEF CapTyped, HandOver
    <2>3. captures' \in Seq(Captures) /\ IsInjective(captures')
        BY DEF ReleaseDoes
    <2>. QED
        BY <1>5, <1>8, <1>11, <2>1, <2>2, <2>3 DEF CapTyped
<1>13. ASSUME Undisturbed PROVE Undisturbed'
    <2>1. CapTyped /\ Taking /\ Resorts /\ Flagged /\ Attached /\ Restored
        BY <1>13 DEF Undisturbed
    <2>13. Taking'
        <3>1. \A j \in 1 .. n : Holds(j, Root) # NotTaken
            BY <2>1, <1>3 DEF Taking
        <3>2. Root \in Loggers
            BY <2>1 DEF CapTyped
        <3>3. \A j \in 1 .. n - 1 : j < i \/ j = i \/ j > i
            BY <1>5
        <3>4. \A j \in 1 .. n - 1 : Holds(j, Root)' # NotTaken
            BY <1>5, <1>6, <1>9, <1>10, <3>1, <3>2, <3>3
        <3>5. \A d \in Captures \ Range(captures') : d = c \/ d \in Captures \ Range(captures)
            BY <1>5
        <3>6. \A d \in Captures \ Range(captures') : \A l \in Loggers : saved'[d][l] = NotTaken
            <4>. SUFFICES ASSUME NEW d \in Captures \ Range(captures'), NEW l \in Loggers
                          PROVE  saved'[d][l] = NotTaken
                OBVIOUS
            <4>1. CASE d = c
                BY <1>8, <4>1
            <4>2. CASE d # c
                <5>1. d \in Captures \ Range(captures) /\ saved'[d] = saved[d]
                    BY <1>5, <1>8, <3>5, <4>2
                <5>. QED
                    BY <2>1, <5>1 DEF Taking
            <4>. QED
                BY <4>1, <4>2
        <3>. QED
            BY <1>5, <3>4, <3>6 DEF Taking
    <2>14. Resorts'
        <3>1. \A j \in 1 .. n : former[captures[j]] = IF j = 1 THEN LastResort ELSE captures[j - 1]
            BY <2>1, <1>3 DEF Resorts
        <3>2. resort = captures[n]
            BY <2>1, <1>2, <1>5 DEF Resorts
        <3>3. former[s] = c
            <4>1. i + 1 # 1 /\ (i + 1) - 1 = i
                BY <1>5
            <4>. QED
                BY <1>4, <1>5, <3>1, <4>1
        <3>4. former'[s] = former[c] /\ \A d \in Captures \ {s} : former'[d] = former[d]
            BY <2>1, <1>4, <3>3 DEF CapTyped, HandOver
        <3>5. ASSUME NEW j \in 1 .. n - 1
              PROVE  former'[captures'[j]] = IF j = 1 THEN LastResort ELSE captures'[j - 1]
            <4>1. CASE j < i
                <5>1. j # 1 => j - 1 \in 1 .. n - 1 /\ j - 1 < i
                    BY <4>1
                <5>2. captures'[j] = captures[j] /\ captures[j] # s /\ captures[j] \in Captures
                    BY <1>3, <1>6, <4>1
                <5>3. former'[captures[j]] = former[captures[j]]
                    BY ONLY <3>4, <5>2
                <5>4. former[captures[j]] = IF j = 1 THEN LastResort ELSE captures[j - 1]
                    BY <1>6, <3>1
                <5>5. j # 1 => captures'[j - 1] = captures[j - 1]
                    BY <1>6, <5>1
                <5>. QED
                    BY ONLY <5>2, <5>3, <5>4, <5>5
            <4>2. CASE j = i
                <5>1. j # 1 => j - 1 \in 1 .. n - 1 /\ j - 1 < i
                    BY <4>2
                <5>2. former[c] = IF i = 1 THEN LastResort ELSE captures[i - 1]
                    BY <1>5, <3>1
                <5>. QED
                    BY <1>6, <3>4, <4>2, <5>1, <5>2
            <4>3. CASE j > i
                <5>1. j - 1 \in 1 .. n - 1 /\ j # 1 /\ (j + 1) - 1 = j /\ j + 1 # 1 /\ (j - 1) + 1 = j
                    BY <1>5, <4>3
                <5>2. captures'[j - 1] = captures[j]
                    <6>1. CASE j - 1 = i
                        BY <1>4, <1>6, <5>1, <6>1
                    <6>2. CASE j - 1 > i
                        BY <1>6, <5>1, <6>2
                    <6>. QED
                        BY <1>5, <4>3, <6>1, <6>2
                <5>3. former[captures[j + 1]] = captures[j]
                    BY <1>6, <3>1, <5>1
                <5>. QED
                    BY <1>3, <1>6, <3>4, <4>3, <5>1, <5>2, <5>3
            <4>. QED
                BY <1>5, <4>1, <4>2, <4>3
        <3>. QED
            BY <1>5, <3>2, <3>5 DEF Resorts
    <2>15. Flagged'
        <3>. SUFFICES ASSUME NEW l \in Loggers
                      PROVE  /\ (\A j \in 1 .. n - 1 : Holds(j, l)' = NotTaken) => flags[l] = found[l]
                             /\ \A j \in 1 .. n - 1 :
                                    Holds(j, l)' # NotTaken /\ (\A k \in 1 .. n - 1 : k < j => Holds(k, l)' = NotTaken)
                                        => Holds(j, l)'.flags = found[l]
            BY <1>5 DEF Flagged
        <3>1. /\ (\A j \in 1 .. n : Holds(j, l) = NotTaken) => flags[l] = found[l]
              /\ \A j \in 1 .. n :
                     Holds(j, l) # NotTaken /\ (\A k \in 1 .. n : k < j => Holds(k, l) = NotTaken)
                         => Holds(j, l).flags = found[l]
            BY <2>1, <1>3 DEF Flagged
        <3>2. ASSUME \A j \in 1 .. n - 1 : Holds(j, l)' = NotTaken PROVE flags[l] = found[l]
            <4>. SUFFICES ASSUME NEW k \in 1 .. n PROVE Holds(k, l) = NotTaken
                BY <3>1
            <4>1. CASE k < i
                BY <1>5, <1>9, <3>2, <4>1
            <4>2. CASE k = i \/ k = i + 1
                BY <1>5, <1>9, <1>10, <3>2, <4>2
            <4>3. CASE k > i + 1
                <5>1. k - 1 \in 1 .. n - 1 /\ k - 1 > i /\ (k - 1) + 1 = k
                    BY <1>5, <4>3
                <5>. QED
                    BY <1>9, <3>2, <5>1
            <4>. QED
                BY <1>5, <4>1, <4>2, <4>3
        <3>3. ASSUME NEW j \in 1 .. n - 1, Holds(j, l)' # NotTaken,
                     \A k \in 1 .. n - 1 : k < j => Holds(k, l)' = NotTaken
              PROVE  Holds(j, l)'.flags = found[l]
            <4>1. \A k \in 1 .. n : k < i /\ k < j => Holds(k, l) = NotTaken
                BY <1>5, <1>9, <3>3
            <4>2. CASE j < i
                <5>1. \A k \in 1 .. n : k < j => Holds(k, l) = NotTaken
                    BY <1>5, <4>1, <4>2
                <5>. QED
                    BY <1>6, <1>9, <3>1, <3>3, <4>2, <5>1
            <4>3. CASE j = i
                <5>1. \A k \in 1 .. n : k < i => Holds(k, l) = NotTaken
                    BY <4>1, <4>3
                <5>2. CASE Holds(i, l) # NotTaken
                    BY <1>5, <1>9, <1>10, <3>1, <4>3, <5>1, <5>2
                <5>3. CASE Holds(i, l) = NotTaken
                    <6>1. \A k \in 1 .. n : k < i + 1 => Holds(k, l) = NotTaken
                        BY <1>5, <5>1, <5>3
                    <6>2. Holds(j, l)' = Holds(i + 1, l)
                        BY <1>9, <1>10, <4>3, <5>3
                    <6>. QED
                        BY <1>5, <3>1, <3>3, <6>1, <6>2
                <5>. QED
                    BY <5>2, <5>3
            <4>4. CASE j > i
                <5>1. ASSUME NEW k \in 1 .. n, k < j + 1 PROVE Holds(k, l) = NotTaken
                    <6>1. CASE k < i
                        BY <1>5, <4>1, <4>4, <6>1
                    <6>2. CASE k = i \/ k = i + 1
                        BY <1>5, <1>9, <1>10, <3>3, <4>4, <6>2
                    <6>3. CASE k > i + 1
                        <7>1. k - 1 \in 1 .. n - 1 /\ k - 1 > i /\ (k - 1) + 1 = k /\ k - 1 < j
                            BY <1>5, <5>1, <6>3
                        <7>. QED
                            BY <1>9, <3>3, <7>1
                    <6>. QED
                        BY <1>5, <6>1, <6>2, <6>3
                <5>. QED
                    BY <1>6, <1>9, <3>1, <3>3, <4>4, <5>1
            <4>. QED
                BY <1>5, <4>2, <4>3, <4>4
        <3>. QED
            BY <3>2, <3>3
    <2>16. Attached'
        <3>. SUFFICES ASSUME "copy" \notin usage.may, NEW l \in Loggers
                      PROVE  /\ \A h \in Range(handlers'[l]) :
                                    h \in Handlers \/ (l = Root /\ h = captures'[n - 1])
                             /\ \A j \in 1 .. n - 1 : Holds(j, l)' # NotTaken =>
                                    \A h \in Range(Holds(j, l)'.handlers) :
                                        h \in Handlers \/ (l = Root /\ j > 1 /\ h = captures'[j - 1])
            BY <1>5 DEF Attached
        <3>1. /\ \A h \in Range(handlers[l]) : h \in Handlers \/ (l = Root /\ h = captures[n])
              /\ \A j \in 1 .. n : Holds(j, l) # NotTaken =>
                         \A h \in Range(Holds(j, l).handlers) :
                             h \in Handlers \/ (l = Root /\ j > 1 /\ h = captures[j - 1])
            BY <2>1, <1>2, <1>3, <1>5 DEF Attached
        <3>2. \A h \in Range(handlers'[l]) : h \in Handlers \/ (l = Root /\ h = captures'[n - 1])
            BY <1>5, <1>11, <3>1
        <3>3. ASSUME NEW j \in 1 .. n - 1, Holds(j, l)' # NotTaken, NEW h \in Range(Holds(j, l)'.handlers)
              PROVE  h \in Handlers \/ (l = Root /\ j > 1 /\ h = captures'[j - 1])
            <4>1. CASE j < i
                <5>1. j > 1 => j - 1 \in 1 .. n - 1 /\ j - 1 < i
                    BY <4>1
                <5>. QED
                    BY <1>6, <1>9, <3>1, <3>3, <4>1, <5>1
            <4>2. CASE j = i
                <5>1. i > 1 => i - 1 \in 1 .. n - 1 /\ i - 1 < i
                    BY <1>5
                <5>2. (i + 1) - 1 = i
                    BY <1>5
                <5>3. Holds(j, l)' = gets[l]
                    BY <1>9, <4>2
                <5>4. CASE Holds(i, l) = NotTaken
                    <6>1. l # Root
                        BY <2>1, <1>3, <1>5, <5>4 DEF Taking
                    <6>. QED
                        BY <1>5, <1>10, <3>1, <3>3, <5>3, <5>4, <6>1
                <5>5. CASE Holds(i, l) # NotTaken
                    <6>1. \/ h \in Range(Holds(i, l).handlers)
                          \/ Holds(i + 1, l) # NotTaken /\ h \in Range(Holds(i + 1, l).handlers) /\ h # c
                        BY <1>10, <3>3, <5>3, <5>5
                    <6>2. h \in Handlers \/ (l = Root /\ i > 1 /\ h = captures[i - 1])
                        BY <1>5, <3>1, <5>2, <5>5, <6>1
                    <6>. QED
                        BY <1>6, <4>2, <5>1, <6>2
                <5>. QED
                    BY <5>4, <5>5
            <4>3. CASE j > i
                <5>1. j - 1 \in 1 .. n - 1 /\ j > 1 /\ (j + 1) - 1 = j /\ (j - 1) + 1 = j
                    BY <1>5, <4>3
                <5>2. captures'[j - 1] = captures[j]
                    <6>1. CASE j - 1 = i
                        BY <1>4, <1>6, <5>1, <6>1
                    <6>2. CASE j - 1 > i
                        BY <1>6, <5>1, <6>2
                    <6>. QED
                        BY <1>5, <4>3, <6>1, <6>2
                <5>. QED
                    BY <1>6, <1>9, <3>1, <3>3, <4>3, <5>1, <5>2
            <4>. QED
                BY <1>5, <4>1, <4>2, <4>3
        <3>. QED
            BY <3>2, <3>3
    <2>17. Restored'
        <3>. SUFFICES ASSUME Orderly
                      PROVE  /\ \A l \in Loggers :
                                    /\ handlers'[l] = Lone(captures'[n - 1], l)
                                    /\ plain[l] = IF Holds(1, l)' = NotTaken THEN <<>> ELSE Holds(1, l)'.handlers
                             /\ \A j \in 1 .. n - 1 : j > 1 => \A l \in Loggers :
                                    Holds(j, l)' # NotTaken => Holds(j, l)'.handlers = Lone(captures'[j - 1], l)
                             /\ \A l \in Loggers \ known : handlers'[l] = <<>> /\ plain[l] = <<>>
            BY <1>5 DEF Restored, Orderly, Lone
        <3>1. /\ \A l \in Loggers : handlers[l] = Lone(captures[n], l)
              /\ \A l \in Loggers : plain[l] = IF Holds(1, l) = NotTaken THEN <<>> ELSE Holds(1, l).handlers
              /\ \A j \in 1 .. n : j > 1 => \A l \in Loggers :
                     Holds(j, l) # NotTaken => Holds(j, l).handlers = Lone(captures[j - 1], l)
              /\ \A l \in Loggers \ known : handlers[l] = <<>> /\ plain[l] = <<>>
            BY <2>1, <1>2, <1>3, <1>5 DEF Restored
        <3>2. \A x : Range(Lone(x, Root)) = {x} /\ \A l \in Loggers \ {Root} : Lone(x, l) = <<>>
            BY DEF Range, Lone
        <3>3. c # captures[n]
            <4>1. n \in 1 .. n /\ i # n
                BY <1>2, <1>5
            <4>. QED
                BY <1>3, <1>5, <4>1
        <3>4. \A l \in Loggers : handlers'[l] = handlers[l]
            <4>1. \A l \in Loggers : c \notin Range(handlers[l]) \/ l # Root
                BY <3>1, <3>2, <3>3
            <4>. QED
                BY <1>11, <4>1
        \* The next one found on the root the handler of the one that goes, or nothing.
        <3>5. \A l \in Loggers : Holds(i, l) # NotTaken => gets[l].handlers = Holds(i, l).handlers
            <4>. SUFFICES ASSUME NEW l \in Loggers, Holds(i, l) # NotTaken
                          PROVE  gets[l].handlers = Holds(i, l).handlers
                OBVIOUS
            <4>1. (i + 1) - 1 = i
                BY <1>5
            <4>2. Holds(i + 1, l) # NotTaken => Holds(i + 1, l).handlers = Lone(c, l)
                BY <1>5, <3>1, <4>1
            <4>3. Range(Lone(c, l)) \subseteq {c}
                BY DEF Range, Lone
            <4>. QED
                BY <1>10, <4>2, <4>3
        <3>6. \A l \in Loggers : Holds(i, l) = NotTaken =>
                  l # Root /\ (gets[l] # NotTaken => gets[l].handlers = <<>>)
            <4>. SUFFICES ASSUME NEW l \in Loggers, Holds(i, l) = NotTaken
                          PROVE  l # Root /\ (gets[l] # NotTaken => gets[l].handlers = <<>>)
                OBVIOUS
            <4>1. l # Root
                BY <2>1, <1>3, <1>5 DEF Taking
            <4>2. Holds(i + 1, l) # NotTaken => Holds(i + 1, l).handlers = <<>>
                BY <1>5, <3>1, <3>2, <4>1
            <4>. QED
                BY <1>10, <4>1, <4>2
        <3>7. \A l \in Loggers : plain[l] = IF Holds(1, l)' = NotTaken THEN <<>> ELSE Holds(1, l)'.handlers
            <4>1. CASE i = 1
                <5>1. \A l \in Loggers : Holds(1, l)' = gets[l]
                    BY <1>9, <4>1
                <5>2. \A l \in Loggers : Holds(1, l) # NotTaken => gets[l] # NotTaken
                    BY <1>10, <4>1
                <5>. QED
                    BY <3>1, <3>5, <3>6, <4>1, <5>1, <5>2
            <4>2. CASE i # 1
                <5>1. 1 < i /\ 1 \in 1 .. n - 1
                    BY <1>5, <4>2
                <5>. QED
                    BY <1>9, <3>1, <5>1
            <4>. QED
                BY <4>1, <4>2
        <3>8. ASSUME NEW j \in 1 .. n - 1, j > 1, NEW l \in Loggers, Holds(j, l)' # NotTaken
              PROVE  Holds(j, l)'.handlers = Lone(captures'[j - 1], l)
            <4>1. CASE j < i
                <5>1. j - 1 \in 1 .. n - 1 /\ j - 1 < i
                    BY <3>8, <4>1
                <5>. QED
                    BY <1>6, <1>9, <3>1, <3>8, <4>1, <5>1
            <4>2. CASE j = i
                <5>1. i - 1 \in 1 .. n - 1 /\ i - 1 < i /\ i > 1
                    BY <1>5, <3>8, <4>2
                <5>2. captures'[j - 1] = captures[i - 1] /\ Holds(j, l)' = gets[l]
                    BY <1>6, <1>9, <4>2, <5>1
                <5>3. CASE Holds(i, l) = NotTaken
                    BY <3>2, <3>6, <3>8, <5>2, <5>3
                <5>4. CASE Holds(i, l) # NotTaken
                    BY <1>5, <3>1, <3>5, <5>1, <5>2, <5>4
                <5>. QED
                    BY <5>3, <5>4
            <4>3. CASE j > i
                <5>1. j - 1 \in 1 .. n - 1 /\ (j + 1) - 1 = j /\ (j - 1) + 1 = j /\ j + 1 > 1
                    BY <1>5, <4>3
                <5>2. captures'[j - 1] = captures[j]
                    <6>1. CASE j - 1 = i
                        BY <1>4, <1>6, <5>1, <6>1
                    <6>2. CASE j - 1 > i
                        BY <1>6, <5>1, <6>2
                    <6>. QED
                        BY <1>5, <4>3, <6>1, <6>2
                <5>3. Holds(j, l)' = Holds(j + 1, l) /\ j + 1 \in 1 .. n
                    BY <1>6, <1>9, <4>3
                <5>. QED
                    BY <3>1, <3>8, <5>1, <5>2, <5>3
            <4>. QED
                BY <1>5, <4>1, <4>2, <4>3
        <3>. QED
            BY <1>5, <3>1, <3>4, <3>7, <3>8
    <2>. QED
        BY <1>12, <2>13, <2>14, <2>15, <2>16, <2>17 DEF Undisturbed
<1>. QED
    BY <1>12, <1>13

-----------------------------------------------------------------------------
(* What the application does *)

\* The last capture takes loggers over, and more may be attached to what it
\* keeps of one of them; the others keep what they have.
TakesOver(c, ls, more) ==
    /\ \A l \in Loggers \ ls : more[l] = saved[c][l]
    /\ more \in [Loggers -> Kept \cup {NotTaken}]
    /\ \A l \in ls :
           /\ more[l] # NotTaken /\ Right(more[l])
           /\ more[l].flags = Before(c, l).flags
           /\ Range(more[l].handlers) \subseteq Range(Before(c, l).handlers) \cup (Range(handlers[l]) \ {c}) \cup Handlers
    /\ saved' = [saved EXCEPT ![c] = more]
    /\ handlers' = Cleared(c, ls)
    /\ flags' = Opened(ls)
    /\ UNCHANGED <<usage, known, captures, former, resort, found>>

\* Then the invariant holds, but for what Orderly asks.
TookOver(c, more) ==
    /\ CapTyped' /\ Taking' /\ Resorts' /\ Flagged' /\ Attached'
    /\ \A n \in Nat : n = Len(captures) =>
           /\ n # 0
           /\ \A l \in Loggers :
                  /\ Holds(n, l) = saved[c][l] /\ Holds(n, l)' = more[l]
                  /\ \A i \in 1 .. n - 1 : Holds(i, l)' = Holds(i, l)

LEMMA TakesOverTyped ==
    ASSUME CapTyped, NEW c \in Captures, NEW ls \in SUBSET Loggers, NEW more, TakesOver(c, ls, more),
           plain' \in [Loggers -> Seq(Handlers)], \A l \in Loggers : IsInjective(plain'[l])
    PROVE  CapTyped'
<1>1. /\ Cleared(c, ls) \in [Loggers -> Seq(Anyone)]
      /\ \A l \in Loggers : IsInjective(Cleared(c, ls)[l])
    BY ClearedIs
<1>2. Opened(ls) \in [Loggers -> Flags]
    BY OpenedIs
<1>3. /\ saved'[c] = more /\ \A d \in Captures \ {c} : saved'[d] = saved[d]
      /\ saved' \in [Captures -> [Loggers -> Kept \cup {NotTaken}]]
    <2>1. saved \in [Captures -> [Loggers -> Kept \cup {NotTaken}]]
        BY DEF CapTyped
    <2>. QED
        BY <2>1 DEF TakesOver
<1>4. \A d \in Captures : \A l \in Loggers : saved'[d][l] # NotTaken =>
          saved'[d][l] \in Kept /\ IsInjective(saved'[d][l].handlers)
    <2>. SUFFICES ASSUME NEW d \in Captures, NEW l \in Loggers, saved'[d][l] # NotTaken
                  PROVE  saved'[d][l] \in Kept /\ IsInjective(saved'[d][l].handlers)
        OBVIOUS
    <2>1. CASE d = c /\ l \in ls
        BY <1>3, <2>1 DEF Right, TakesOver
    <2>2. CASE d # c \/ l \notin ls
        <3>1. saved'[d][l] = saved[d][l]
            BY <1>3, <2>2 DEF TakesOver
        <3>. QED
            BY <3>1 DEF CapTyped
    <2>. QED
        BY <2>1, <2>2
<1>5. /\ usage' = usage /\ known' = known /\ captures' = captures /\ former' = former
      /\ resort' = resort /\ found' = found
      /\ handlers' = Cleared(c, ls) /\ flags' = Opened(ls)
    BY DEF TakesOver
<1>. QED
    BY <1>1, <1>2, <1>3, <1>4, <1>5 DEF CapTyped

LEMMA TakesOverKeeps ==
    ASSUME CaptureAssumption, Undisturbed, captures # <<>>, NEW c \in Captures, c = Top,
           NEW ls \in SUBSET Loggers, NEW more, TakesOver(c, ls, more),
           plain' \in [Loggers -> Seq(Handlers)], \A l \in Loggers : IsInjective(plain'[l])
    PROVE  TookOver(c, more)
<1>1. CapTyped /\ Taking /\ Resorts /\ Flagged /\ Attached
    BY DEF Undisturbed
<1>2. PICK n \in Nat : n = Len(captures)
    BY <1>1, PlacesAre
<1>3. /\ DOMAIN captures = 1 .. n /\ n # 0 /\ n \in 1 .. n /\ captures[n] = c
      /\ \A i \in 1 .. n : captures[i] \in Captures /\ captures[i] \in Range(captures)
      /\ \A i \in 1 .. n - 1 : i \in 1 .. n /\ captures[i] # c
    <2>1. /\ DOMAIN captures = 1 .. n /\ n # 0
          /\ \A i \in 1 .. n : captures[i] \in Captures /\ captures[i] \in Range(captures)
          /\ \A i, j \in 1 .. n : captures[i] = captures[j] => i = j
        BY <1>1, <1>2, PlacesAre
    <2>2. n \in 1 .. n /\ \A i \in 1 .. n - 1 : i \in 1 .. n /\ i # n
        BY <2>1
    <2>3. captures[n] = c
        BY <1>2 DEF Top, Last
    <2>. QED
        BY <2>1, <2>2, <2>3
<1>4. /\ usage' = usage /\ known' = known /\ captures' = captures /\ former' = former
      /\ resort' = resort /\ found' = found
      /\ handlers' = Cleared(c, ls) /\ flags' = Opened(ls) /\ c \in Range(captures)
    BY <1>3 DEF TakesOver
<1>5. /\ saved'[c] = more /\ \A d \in Captures \ {c} : saved'[d] = saved[d]
      /\ saved' \in [Captures -> [Loggers -> Kept \cup {NotTaken}]]
    <2>1. saved \in [Captures -> [Loggers -> Kept \cup {NotTaken}]]
        BY <1>1 DEF CapTyped
    <2>. QED
        BY <2>1 DEF TakesOver
<1>6. \A l \in Loggers :
          /\ Holds(n, l) = saved[c][l] /\ Holds(n, l)' = more[l]
          /\ \A i \in 1 .. n - 1 : Holds(i, l)' = Holds(i, l)
    <2>. SUFFICES ASSUME NEW l \in Loggers
                  PROVE  /\ Holds(n, l) = saved[c][l] /\ Holds(n, l)' = more[l]
                         /\ \A i \in 1 .. n - 1 : Holds(i, l)' = Holds(i, l)
        OBVIOUS
    <2>1. Holds(n, l) = saved[c][l] /\ Holds(n, l)' = saved'[c][l]
        BY <1>3, <1>4 DEF Holds
    <2>2. ASSUME NEW i \in 1 .. n - 1 PROVE Holds(i, l)' = Holds(i, l)
        <3>1. Holds(i, l)' = saved'[captures[i]][l] /\ Holds(i, l) = saved[captures[i]][l]
            BY <1>4 DEF Holds
        <3>. QED
            BY <1>3, <1>5, <3>1
    <2>. QED
        BY <1>5, <2>1, <2>2
<1>7. /\ \A l \in Loggers \ ls : more[l] = saved[c][l]
      /\ \A l \in ls :
             /\ more[l] # NotTaken /\ Right(more[l])
             /\ more[l].flags = Before(c, l).flags
             /\ Range(more[l].handlers) \subseteq Range(Before(c, l).handlers) \cup (Range(handlers[l]) \ {c}) \cup Handlers
    BY DEF TakesOver
<1>8. \A l \in ls :
          /\ Holds(n, l) # NotTaken => Before(c, l) = Holds(n, l)
          /\ Holds(n, l) = NotTaken => Range(Before(c, l).handlers) = {} /\ Before(c, l).flags = flags[l]
    <2>1. Range(<<>>) = {}
        BY DEF Range
    <2>. QED
        BY <1>1, <1>6, <2>1, BeforeIs
<1>9. CapTyped'
    BY <1>1, <1>3, TakesOverTyped
<1>10. Taking'
    <2>1. \A i \in 1 .. n : i = n \/ i \in 1 .. n - 1
        OBVIOUS
    <2>2. Root \in Loggers
        BY <1>1 DEF CapTyped
    <2>3. Holds(n, Root) # NotTaken /\ \A i \in 1 .. n - 1 : Holds(i, Root) # NotTaken
        BY <1>1, <1>3 DEF Taking
    <2>4. \A i \in 1 .. n : Holds(i, Root)' # NotTaken
        BY <1>6, <1>7, <2>1, <2>2, <2>3
    <2>5. \A d \in Captures \ Range(captures) : d # c
        BY <1>4
    <2>. QED
        BY <1>1, <1>3, <1>4, <1>5, <2>4, <2>5 DEF Taking
<1>11. Resorts'
    BY <1>1, <1>4 DEF Resorts
<1>12. Flagged'
    <2>. SUFFICES ASSUME NEW l \in Loggers
                  PROVE  /\ (\A i \in 1 .. n : Holds(i, l)' = NotTaken) => flags'[l] = found[l]
                         /\ \A i \in 1 .. n :
                                Holds(i, l)' # NotTaken /\ (\A j \in 1 .. n : j < i => Holds(j, l)' = NotTaken)
                                    => Holds(i, l)'.flags = found[l]
        BY <1>3, <1>4 DEF Flagged
    <2>1. /\ (\A i \in 1 .. n : Holds(i, l) = NotTaken) => flags[l] = found[l]
          /\ \A i \in 1 .. n :
                 Holds(i, l) # NotTaken /\ (\A j \in 1 .. n : j < i => Holds(j, l) = NotTaken)
                     => Holds(i, l).flags = found[l]
        BY <1>1, <1>3 DEF Flagged
    <2>2. \A i \in 1 .. n : i = n \/ i \in 1 .. n - 1
        OBVIOUS
    <2>3. CASE l \notin ls
        <3>1. flags'[l] = flags[l]
            BY <1>1, <1>4, <2>3, OpenedIs
        <3>2. \A i \in 1 .. n : Holds(i, l)' = Holds(i, l)
            BY <1>6, <1>7, <2>2, <2>3
        <3>. QED
            BY <2>1, <3>1, <3>2
    <2>4. CASE l \in ls
        <3>1. Holds(n, l)' # NotTaken
            BY <1>6, <1>7, <2>4
        <3>2. ASSUME NEW i \in 1 .. n, Holds(i, l)' # NotTaken,
                     \A j \in 1 .. n : j < i => Holds(j, l)' = NotTaken
              PROVE  Holds(i, l)'.flags = found[l]
            <4>1. \A j \in 1 .. n : j < i => Holds(j, l) = NotTaken
                <5>1. \A j \in 1 .. n : j < i => j \in 1 .. n - 1
                    OBVIOUS
                <5>. QED
                    BY <1>6, <3>2, <5>1
            <4>2. CASE i = n
                <5>1. Holds(i, l)'.flags = Before(c, l).flags
                    BY <1>6, <1>7, <2>4, <4>2
                <5>2. CASE Holds(n, l) # NotTaken
                    BY <1>3, <1>8, <2>1, <2>4, <4>1, <4>2, <5>1, <5>2
                <5>3. CASE Holds(n, l) = NotTaken
                    <6>1. \A j \in 1 .. n : Holds(j, l) = NotTaken
                        BY <4>1, <4>2, <5>3
                    <6>. QED
                        BY <1>8, <2>1, <2>4, <5>1, <5>3, <6>1
                <5>. QED
                    BY <5>2, <5>3
            <4>3. CASE i \in 1 .. n - 1
                BY <1>6, <2>1, <3>2, <4>1, <4>3
            <4>. QED
                BY <2>2, <4>2, <4>3
        <3>. QED
            BY <1>3, <3>1, <3>2
    <2>. QED
        BY <2>3, <2>4
<1>13. Attached'
    <2>. SUFFICES ASSUME "copy" \notin usage.may, NEW l \in Loggers
                  PROVE  /\ \A h \in Range(handlers'[l]) : h \in Handlers \/ (l = Root /\ h = captures[n])
                         /\ \A i \in 1 .. n : Holds(i, l)' # NotTaken =>
                                \A h \in Range(Holds(i, l)'.handlers) :
                                    h \in Handlers \/ (l = Root /\ i > 1 /\ h = captures[i - 1])
        BY <1>2, <1>3, <1>4 DEF Attached
    <2>1. /\ \A h \in Range(handlers[l]) : h \in Handlers \/ (l = Root /\ h = captures[n])
          /\ \A i \in 1 .. n : Holds(i, l) # NotTaken =>
                     \A h \in Range(Holds(i, l).handlers) :
                         h \in Handlers \/ (l = Root /\ i > 1 /\ h = captures[i - 1])
        BY <1>1, <1>2, <1>3 DEF Attached
    <2>2. Range(handlers'[l]) \subseteq Range(handlers[l])
        <3>1. l \in ls => Range(Cleared(c, ls)[l]) = Range(handlers[l]) \cap {c}
            BY <1>1, ClearedIs
        <3>2. l \notin ls => Cleared(c, ls)[l] = handlers[l]
            BY <1>1, ClearedIs
        <3>. QED
            BY <1>4, <3>1, <3>2
    <2>3. ASSUME Holds(n, l)' # NotTaken, NEW h \in Range(Holds(n, l)'.handlers)
          PROVE  h \in Handlers \/ (l = Root /\ n > 1 /\ h = captures[n - 1])
        <3>1. CASE l \notin ls
            <4>1. Holds(n, l)' = Holds(n, l)
                BY <1>6, <1>7, <3>1
            <4>. QED
                BY <1>3, <2>1, <2>3, <4>1
        <3>2. CASE l \in ls
            <4>1. h \in Range(Before(c, l).handlers) \/ h \in Range(handlers[l]) \ {c} \/ h \in Handlers
                BY <1>6, <1>7, <2>3, <3>2
            <4>2. h \in Range(Before(c, l).handlers) =>
                      Holds(n, l) # NotTaken /\ h \in Range(Holds(n, l).handlers)
                BY <1>8, <3>2
            <4>. QED
                BY <1>3, <2>1, <4>1, <4>2
        <3>. QED
            BY <3>1, <3>2
    <2>4. \A i \in 1 .. n : i = n \/ i \in 1 .. n - 1
        OBVIOUS
    <2>. QED
        BY <1>3, <1>6, <2>1, <2>2, <2>3, <2>4
<1>. QED
    BY <1>2, <1>3, <1>6, <1>9, <1>10, <1>11, <1>12, <1>13 DEF TookOver

\* Where nothing is put by hand there is nothing foreign to a capture.
LEMMA NothingForeign ==
    ASSUME CaptureAssumption, CapTyped, Restored, Orderly, captures # <<>>, NEW l \in Loggers
    PROVE  /\ Foreign(Top, l) = <<>> /\ Top \in Captures
           /\ \A ls \in SUBSET Loggers : Cleared(Top, ls)[l] = handlers[l]
<1>1. Top \in Captures
    <2>1. Len(captures) \in 1 .. Len(captures)
        BY PlacesAre
    <2>. QED
        BY <2>1, PlacesAre DEF Top, Last
<1>2. handlers[l] = Lone(Top, l)
    BY DEF Restored, Top, Last
<1>3. Range(handlers[l]) \subseteq {Top}
    BY <1>2 DEF Lone, Range
<1>4. \A ls \in SUBSET Loggers : Cleared(Top, ls)[l] = handlers[l]
    <2>. SUFFICES ASSUME NEW ls \in SUBSET Loggers PROVE Cleared(Top, ls)[l] = handlers[l]
        OBVIOUS
    <2>. QED
        BY <1>1, <1>3, ClearedIs
<1>. QED
    BY <1>1, <1>3, <1>4, ForeignIs

\* A handler is attached while a capture is installed: it is kept for later.
LEMMA AddTakesOver ==
    ASSUME CaptureAssumption, CapTyped, captures # <<>>,
           NEW l \in Loggers, NEW h \in Handlers, AddHandler(l, h)
    PROVE  \E more :
               /\ TakesOver(Top, {l}, more) /\ Top \in Captures
               /\ Orderly /\ Restored => more[l].handlers = With(Before(Top, l).handlers, h)
<1>. DEFINE c == Top
            base == Saving(c, {l})
            got == With(base[l].handlers, h)
            more == [base EXCEPT ![l].handlers = With(@, h)]
<1>1. CapTyped
    OBVIOUS
<1>2. c \in Captures
    <2>1. Len(captures) \in 1 .. Len(captures)
        BY <1>1, PlacesAre
    <2>. QED
        BY <1>1, <2>1, PlacesAre DEF Top, Last
<1>. HIDE DEF c
<1>3. Took(c, {l}, base)
    BY <1>1, <1>2, SavingIs DEF CaptureAssumption
<1>. HIDE DEF base
<1>4. /\ base \in [Loggers -> Kept \cup {NotTaken}]
      /\ \A k \in Loggers \ {l} : base[k] = saved[c][k]
      /\ base[l] # NotTaken /\ Right(base[l]) /\ base[l].flags = Before(c, l).flags
      /\ base[l].handlers = Before(c, l).handlers \o Foreign(c, l)
      /\ Range(base[l].handlers) = Range(Before(c, l).handlers) \cup (Range(handlers[l]) \ {c})
    BY <1>3 DEF Took
<1>5. /\ got \in Seq(Anyone) /\ IsInjective(got)
      /\ Range(got) = Range(base[l].handlers) \cup {h}
    <2>1. base[l].handlers \in Seq(Anyone) /\ IsInjective(base[l].handlers) /\ h \in Anyone
        BY <1>4, KeptIs DEF Right, Anyone
    <2>. QED
        BY <2>1, WithIs
<1>6. more = [base EXCEPT ![l] = [base[l] EXCEPT !.handlers = got]]
    OBVIOUS
<1>. HIDE DEF got
<1>7. LET r == [base[l] EXCEPT !.handlers = got] IN
          r \in Kept /\ r.handlers = got /\ r.flags = base[l].flags
    BY <1>4, <1>5 DEF Right, Kept
<1>8. /\ more \in [Loggers -> Kept \cup {NotTaken}]
      /\ \A k \in Loggers \ {l} : more[k] = saved[c][k]
      /\ more[l] \in Kept /\ more[l].handlers = got /\ more[l].flags = base[l].flags
    <2>. HIDE DEF more
    <2>. QED
        BY <1>4, <1>6, <1>7
<1>9. /\ saved' = [saved EXCEPT ![c] = more]
      /\ handlers' = Cleared(c, {l}) /\ flags' = Opened({l})
      /\ UNCHANGED <<usage, known, captures, former, resort, found>>
    BY DEF AddHandler, Held, Call, c, base
<1>. HIDE DEF more
<1>10. TakesOver(c, {l}, more)
    <2>1. more[l] # NotTaken /\ Right(more[l])
        BY <1>5, <1>8 DEF CaptureAssumption, Right
    <2>2. Range(more[l].handlers) \subseteq Range(Before(c, l).handlers) \cup (Range(handlers[l]) \ {c}) \cup Handlers
        BY <1>4, <1>5, <1>8
    <2>. QED
        BY <1>4, <1>8, <1>9, <2>1, <2>2 DEF TakesOver
<1>11. ASSUME Orderly, Restored PROVE more[l].handlers = With(Before(c, l).handlers, h)
    <2>1. Foreign(c, l) = <<>>
        BY <1>1, <1>11, NothingForeign DEF c
    <2>2. Before(c, l).handlers \in Seq(Anyone)
        BY <1>1, <1>2, BeforeIs, KeptIs DEF Right
    <2>3. base[l].handlers = Before(c, l).handlers
        BY <1>4, <2>1, <2>2
    <2>. QED
        BY <1>8, <2>3 DEF got
<1>. QED
    BY <1>2, <1>10, <1>11 DEF c

\* Without a capture it is attached.
LEMMA AddKeepsAlone ==
    ASSUME CaptureAssumption, CapTyped, captures = <<>>,
           NEW l \in Loggers, NEW h \in Handlers, AddHandler(l, h)
    PROVE  CapTyped' /\ (Undisturbed => Undisturbed')
<1>2. /\ handlers' = [handlers EXCEPT ![l] = With(@, h)]
      /\ plain' = [plain EXCEPT ![l] = With(@, h)]
      /\ l \in known
      /\ UNCHANGED <<usage, known, flags, saved, resort, captures, former, found>>
    BY DEF AddHandler, Call
<1>3. /\ handlers \in [Loggers -> Seq(Anyone)] /\ plain \in [Loggers -> Seq(Handlers)]
      /\ \A k \in Loggers : IsInjective(handlers[k]) /\ IsInjective(plain[k])
      /\ h \in Anyone
    BY DEF CapTyped, Anyone
<1>4. /\ With(handlers[l], h) \in Seq(Anyone) /\ IsInjective(With(handlers[l], h))
      /\ Range(With(handlers[l], h)) = Range(handlers[l]) \cup {h}
      /\ With(plain[l], h) \in Seq(Handlers) /\ IsInjective(With(plain[l], h))
    BY <1>3, WithIs
<1>5. CapTyped'
    BY <1>2, <1>3, <1>4 DEF CapTyped
<1>6. ASSUME Undisturbed PROVE Undisturbed'
    <2>1. CapTyped /\ Taking /\ Resorts /\ Flagged /\ Attached /\ Restored
        BY <1>6 DEF Undisturbed
    <2>6. Taking'
        BY <2>1, <1>2 DEF Taking, Holds
    <2>7. Resorts'
        BY <2>1, <1>2 DEF Resorts
    <2>8. Flagged'
        BY <2>1, <1>2 DEF Flagged, Holds
    <2>9. DOMAIN captures = {}
        OBVIOUS
    <2>10. Attached'
        <3>. SUFFICES ASSUME "copy" \notin usage.may, NEW k \in Loggers, NEW g \in Range(handlers'[k])
                      PROVE  g \in Handlers
            BY <1>2, <2>9 DEF Attached
        <3>1. g \in Range(handlers[k]) \/ g = h
            BY <1>2, <1>3, <1>4
        <3>. QED
            BY <2>1, <3>1 DEF Attached
    <2>11. Restored'
        <3>. SUFFICES ASSUME Orderly
                      PROVE  /\ handlers' = plain'
                             /\ \A k \in Loggers \ known : handlers'[k] = <<>> /\ plain'[k] = <<>>
            BY <1>2, <2>9 DEF Restored, Orderly
        <3>1. handlers = plain /\ \A k \in Loggers \ known : handlers[k] = <<>> /\ plain[k] = <<>>
            BY <2>1 DEF Restored
        <3>. QED
            BY <1>2, <1>3, <3>1
    <2>. QED
        BY <1>5, <2>6, <2>7, <2>8, <2>10, <2>11 DEF Undisturbed
<1>. QED
    BY <1>5, <1>6

LEMMA AddKeeps ==
    ASSUME CaptureAssumption, CapTyped, NEW l \in Loggers, NEW h \in Handlers, AddHandler(l, h)
    PROVE  CapTyped' /\ (Undisturbed => Undisturbed')
<1>1. CASE captures = <<>>
    BY <1>1, AddKeepsAlone
<1>2. CASE captures # <<>>
    <2>1. PICK more : /\ TakesOver(Top, {l}, more) /\ Top \in Captures
                      /\ Orderly /\ Restored => more[l].handlers = With(Before(Top, l).handlers, h)
        BY <1>2, AddTakesOver
    <2>2. /\ plain' = [plain EXCEPT ![l] = With(@, h)] /\ l \in known
          /\ plain \in [Loggers -> Seq(Handlers)] /\ \A k \in Loggers : IsInjective(plain[k])
        BY DEF AddHandler, CapTyped
    <2>3. plain' \in [Loggers -> Seq(Handlers)] /\ \A k \in Loggers : IsInjective(plain'[k])
        <3>1. With(plain[l], h) \in Seq(Handlers) /\ IsInjective(With(plain[l], h))
            BY <2>2, WithIs
        <3>. QED
            BY <2>2, <3>1
    <2>4. {l} \in SUBSET Loggers
        OBVIOUS
    <2>5. CapTyped'
        BY <2>1, <2>3, <2>4, TakesOverTyped
    <2>6. ASSUME Undisturbed PROVE Undisturbed'
        <3>1. CapTyped /\ Taking /\ Restored
            BY <2>6 DEF Undisturbed
        <3>2. PICK n \in Nat : n = Len(captures)
            BY <3>1, PlacesAre
        <3>3. /\ CapTyped' /\ Taking' /\ Resorts' /\ Flagged' /\ Attached'
              /\ n # 0
              /\ \A k \in Loggers : /\ Holds(n, k) = saved[Top][k] /\ Holds(n, k)' = more[k]
                                    /\ \A i \in 1 .. n - 1 : Holds(i, k)' = Holds(i, k)
            <4>1. {l} \in SUBSET Loggers
                OBVIOUS
            <4>2. TookOver(Top, more)
                BY <1>2, <2>1, <2>3, <2>6, <4>1, TakesOverKeeps
            <4>. QED
                BY <3>2, <4>2 DEF TookOver
        <3>4. Restored'
            <4>1. /\ UNCHANGED <<usage, known, captures>> /\ handlers' = Cleared(Top, {l})
                  /\ \A k \in Loggers \ {l} : more[k] = saved[Top][k]
                  /\ more[l] # NotTaken
                BY <2>1 DEF TakesOver
            <4>. SUFFICES ASSUME Orderly
                          PROVE  /\ \A k \in Loggers :
                                        /\ handlers'[k] = Lone(captures[n], k)
                                        /\ plain'[k] = IF Holds(1, k)' = NotTaken THEN <<>> ELSE Holds(1, k)'.handlers
                                 /\ \A i \in 1 .. n : ~(i > 1)
                                 /\ \A k \in Loggers \ known : handlers'[k] = <<>> /\ plain'[k] = <<>>
                <5>1. DOMAIN captures = 1 .. n
                    BY <3>1, <3>2, PlacesAre
                <5>. QED
                    BY <1>2, <3>2, <4>1, <5>1 DEF Restored, Orderly, Lone
            <4>2. n = 1
                <5>1. n <= 1
                    BY <3>2 DEF AddHandler, Call, Orderly
                <5>. QED
                    BY <3>3, <5>1
            <4>3. \A k \in Loggers : handlers'[k] = handlers[k]
                BY <1>2, <3>1, <4>1, NothingForeign
            <4>4. /\ \A k \in Loggers :
                        /\ handlers[k] = Lone(captures[n], k)
                        /\ plain[k] = IF Holds(1, k) = NotTaken THEN <<>> ELSE Holds(1, k).handlers
                  /\ \A k \in Loggers \ known : handlers[k] = <<>> /\ plain[k] = <<>>
                BY <1>2, <3>1, <3>2 DEF Restored
            <4>5. Before(Top, l).handlers = plain[l]
                BY <2>1, <3>1, <3>3, <4>2, <4>4, BeforeIs
            <4>6. plain'[l] = With(plain[l], h) /\ \A k \in Loggers \ {l} : plain'[k] = plain[k]
                BY <2>2
            <4>7. \A k \in Loggers : plain'[k] = IF Holds(1, k)' = NotTaken THEN <<>> ELSE Holds(1, k)'.handlers
                <5>. SUFFICES ASSUME NEW k \in Loggers
                              PROVE plain'[k] = IF Holds(1, k)' = NotTaken THEN <<>> ELSE Holds(1, k)'.handlers
                    OBVIOUS
                <5>1. Holds(1, k)' = more[k] /\ Holds(1, k) = saved[Top][k]
                    BY <3>3, <4>2
                <5>2. CASE k = l
                    <6>1. more[l].handlers = plain'[l]
                        BY <2>1, <3>1, <4>5, <4>6
                    <6>. QED
                        BY <4>1, <5>1, <5>2, <6>1
                <5>3. CASE k # l
                    BY <4>1, <4>4, <4>6, <5>1, <5>3
                <5>. QED
                    BY <5>2, <5>3
            <4>8. \A k \in Loggers \ known : handlers'[k] = <<>> /\ plain'[k] = <<>>
                BY <2>2, <4>3, <4>4, <4>6
            <4>. QED
                BY <4>2, <4>3, <4>4, <4>7, <4>8
        <3>. QED
            BY <3>3, <3>4 DEF Undisturbed
    <2>. QED
        BY <2>5, <2>6
<1>. QED
    BY <1>1, <1>2

\* Who gets a record: with no copies about, the last capture, if there is one.
LEMMA HearersAre ==
    ASSUME CaptureAssumption, CapTyped, NEW l \in Loggers
    PROVE  /\ Hearers(l) \in Seq(Captures)
           /\ Attached /\ Resorts /\ "copy" \notin usage.may =>
                  \A c \in Range(Hearers(l)) : captures # <<>> /\ c = Top
<1>. DEFINE path == Path(l)
            N == {i \in 1 .. Len(path) : Range(handlers[path[i]]) \cap Captures # {}}
            at == IF N # {} THEN Min(N) ELSE 0
            there == IF at # 0 THEN handlers[path[at]]
                     ELSE IF \A k \in Range(path) : handlers[k] = <<>> THEN <<resort>> ELSE <<>>
<1>1. path \in Seq(Loggers)
    BY PathIs
<1>2. Hearers(l) = Selected(there, Captures)
    BY DEF Hearers, SelectInSeq
<1>3. at \in 0 .. Len(path)
    <2>1. N \subseteq Nat /\ N \subseteq 1 .. Len(path)
        OBVIOUS
    <2>. HIDE DEF N
    <2>2. N # {} => Min(N) \in N
        BY <2>1, LeastIs
    <2>3. Len(path) \in Nat
        BY <1>1
    <2>. HIDE DEF path
    <2>4. CASE N = {}
        BY <2>3, <2>4
    <2>5. CASE N # {}
        <3>1. at = Min(N) /\ Min(N) \in 1 .. Len(path)
            BY <2>1, <2>2, <2>5
        <3>. QED
            BY <2>3, <3>1
    <2>. QED
        BY <2>4, <2>5
<1>. HIDE DEF path, at
<1>4. at # 0 => path[at] \in Loggers
    BY <1>1, <1>3
<1>. DEFINE T == Anyone \cup {LastResort}
<1>5. there \in Seq(T)
    <2>1. \A k \in Loggers : handlers[k] \in Seq(T)
        BY DEF CapTyped
    <2>2. <<>> \in Seq(T) /\ <<resort>> \in Seq(T)
        BY DEF CapTyped, Anyone
    <2>. QED
        BY <1>4, <2>1, <2>2
<1>. HIDE DEF there, T
<1>6. Hearers(l) \in Seq(T \cap Captures) /\ Range(Hearers(l)) = Range(there) \cap Captures
    BY <1>2, <1>5, SelectedTyped, SelectedRange
<1>7. ASSUME Attached, Resorts, "copy" \notin usage.may, NEW c \in Range(there) \cap Captures
      PROVE  captures # <<>> /\ c = Top
    <2>1. c \notin Handlers /\ c # LastResort
        BY DEF CaptureAssumption
    <2>2. Top = captures[Len(captures)]
        BY DEF Top, Last
    <2>3. CASE at # 0
        <3>1. c \in Range(handlers[path[at]])
            BY <1>7, <2>3 DEF there
        <3>. QED
            BY <1>4, <1>7, <2>1, <2>2, <2>3, <3>1 DEF Attached
    <2>4. CASE at = 0
        <3>1. there = <<resort>> \/ there = <<>>
            BY <2>4 DEF there
        <3>2. Range(<<resort>>) = {resort} /\ Range(<<>>) = {}
            BY DEF Range
        <3>3. c = resort
            BY <3>1, <3>2
        <3>. QED
            BY <1>7, <2>1, <2>2, <3>3 DEF Resorts
    <2>. QED
        BY <2>3, <2>4
<1>8. Hearers(l) \in Seq(Captures)
    BY <1>6
<1>. QED
    BY <1>6, <1>7, <1>8

LEMMA LogKeeps ==
    ASSUME CaptureAssumption, CaptureInv, NEW l \in Loggers, LogRecord(l)
    PROVE  CaptureInv'
<1>1. /\ hearing' = [i \in DOMAIN Hearers(l) |-> <<Hearers(l)[i], l>>]
      /\ UNCHANGED <<usage, known, handlers, flags, resort, captures, saved, former, plain, found, strayed>>
    BY DEF LogRecord, Call, stdVars, capVars
<1>2. CapTyped /\ Listening /\ (~strayed => Undisturbed)
    BY DEF CaptureInv
<1>3. CapTyped'
    BY <1>1, <1>2 DEF CapTyped
<1>4. Undisturbed => Undisturbed'
    BY <1>1, <1>3 DEF Undisturbed, Taking, Resorts, Flagged, Attached, Restored, Orderly, Holds
<1>5. PICK heard : heard = Hearers(l)
    OBVIOUS
<1>6. heard \in Seq(Captures)
    BY <1>2, <1>5, HearersAre
<1>7. /\ hearing' \in Seq(Captures \X Loggers)
      /\ \A i \in DOMAIN hearing' : hearing'[i][1] \in Range(heard)
    <2>1. hearing' = [i \in DOMAIN heard |-> <<heard[i], l>>]
        BY <1>1, <1>5
    <2>2. DOMAIN heard = 1 .. Len(heard) /\ Len(heard) \in Nat /\ \A i \in DOMAIN heard : heard[i] \in Captures
        BY <1>6
    <2>3. hearing' \in Seq(Captures \X Loggers)
        BY <2>1, <2>2
    <2>4. DOMAIN hearing' = DOMAIN heard /\ \A i \in DOMAIN heard : hearing'[i][1] = heard[i]
        BY <2>1
    <2>. QED
        BY <2>3, <2>4 DEF Range
<1>8. Listening'
    <2>. SUFFICES ASSUME "copy" \notin usage.may
                  PROVE  ~strayed /\ \A i \in DOMAIN hearing' : captures # <<>> /\ hearing'[i][1] = Top
        BY <1>1, <1>2, <1>7 DEF Listening, Top
    <2>1. ~strayed /\ Attached /\ Resorts
        BY <1>2 DEF Listening, Undisturbed
    <2>2. \A c \in Range(heard) : captures # <<>> /\ c = Top
        BY <1>2, <1>5, <2>1, HearersAre
    <2>. QED
        BY <1>7, <2>1, <2>2
<1>. QED
    BY <1>1, <1>2, <1>3, <1>4, <1>8 DEF CaptureInv

\* The last capture takes over what is astray: that is settled again.
LEMMA OriginSettles ==
    ASSUME CaptureAssumption, Undisturbed, captures # <<>>, NEW c \in Captures, c = Top,
           NEW ls \in SUBSET Loggers, TakeOver(c, ls),
           UNCHANGED <<usage, known, captures, former, resort, plain, found>>
    PROVE  Undisturbed'
<1>1. CapTyped /\ Taking /\ Restored
    BY DEF Undisturbed
<1>5. PICK more : more = Saving(c, ls) /\ Took(c, ls, more)
    BY <1>1, SavingIs DEF CaptureAssumption
<1>6. saved' = [saved EXCEPT ![c] = more] /\ handlers' = Cleared(c, ls) /\ flags' = Opened(ls)
    BY <1>5 DEF TakeOver
<1>7. TakesOver(c, ls, more)
    BY <1>5, <1>6 DEF Took, TakesOver
<1>8. plain' \in [Loggers -> Seq(Handlers)] /\ \A k \in Loggers : IsInjective(plain'[k])
    BY <1>1 DEF CapTyped
<1>9. PICK n \in Nat : n = Len(captures)
    BY <1>1, PlacesAre
<1>10. /\ CapTyped' /\ Taking' /\ Resorts' /\ Flagged' /\ Attached'
       /\ n # 0
       /\ \A k \in Loggers : /\ Holds(n, k) = saved[c][k] /\ Holds(n, k)' = more[k]
                             /\ \A i \in 1 .. n - 1 : Holds(i, k)' = Holds(i, k)
    <2>1. TookOver(c, more)
        BY <1>7, <1>8, TakesOverKeeps
    <2>. QED
        BY <1>9, <2>1 DEF TookOver
<1>11. Restored'
    <2>1. DOMAIN captures = 1 .. n
        BY <1>1, <1>9, PlacesAre
    <2>. SUFFICES ASSUME Orderly
                  PROVE  /\ \A k \in Loggers :
                                /\ handlers'[k] = Lone(captures[n], k)
                                /\ plain[k] = IF Holds(1, k)' = NotTaken THEN <<>> ELSE Holds(1, k)'.handlers
                         /\ \A i \in 1 .. n : i > 1 => \A k \in Loggers :
                                Holds(i, k)' # NotTaken => Holds(i, k)'.handlers = Lone(captures[i - 1], k)
                         /\ \A k \in Loggers \ known : handlers'[k] = <<>> /\ plain[k] = <<>>
        BY <1>9, <2>1 DEF Restored, Orderly, Lone
    <2>2. \A k \in Loggers : handlers'[k] = handlers[k] /\ Foreign(c, k) = <<>>
        BY <1>1, <1>6, NothingForeign
    <2>3. /\ \A k \in Loggers :
                /\ handlers[k] = Lone(captures[n], k)
                /\ plain[k] = IF Holds(1, k) = NotTaken THEN <<>> ELSE Holds(1, k).handlers
          /\ \A i \in 1 .. n : i > 1 => \A k \in Loggers :
                Holds(i, k) # NotTaken => Holds(i, k).handlers = Lone(captures[i - 1], k)
          /\ \A k \in Loggers \ known : handlers[k] = <<>> /\ plain[k] = <<>>
        BY <1>1, <1>9, <2>1 DEF Restored
    \* It keeps of a logger what it kept, or nothing where it kept nothing.
    <2>4. ASSUME NEW k \in Loggers
          PROVE  /\ Holds(n, k) # NotTaken => Holds(n, k)' # NotTaken /\ Holds(n, k)'.handlers = Holds(n, k).handlers
                 /\ Holds(n, k) = NotTaken => Holds(n, k)' = NotTaken \/ Holds(n, k)'.handlers = <<>>
        <3>1. CASE k \notin ls
            BY <1>5, <1>10, <3>1 DEF Took
        <3>2. CASE k \in ls
            <4>1. Before(c, k).handlers \in Seq(Anyone)
                BY <1>1, BeforeIs, KeptIs DEF Right
            <4>2. more[k] # NotTaken /\ more[k].handlers = Before(c, k).handlers
                BY <1>5, <2>2, <3>2, <4>1 DEF Took
            <4>. QED
                BY <1>1, <1>10, <4>2, BeforeIs
        <3>. QED
            BY <3>1, <3>2
    <2>5. \A k \in Loggers : plain[k] = IF Holds(1, k)' = NotTaken THEN <<>> ELSE Holds(1, k)'.handlers
        <3>1. CASE n = 1
            BY <2>3, <2>4, <3>1
        <3>2. CASE n # 1
            <4>1. 1 \in 1 .. n - 1
                BY <1>10, <3>2
            <4>. QED
                BY <1>10, <2>3, <4>1
        <3>. QED
            BY <3>1, <3>2
    <2>6. ASSUME NEW i \in 1 .. n, i > 1, NEW k \in Loggers, Holds(i, k)' # NotTaken
          PROVE  Holds(i, k)'.handlers = Lone(captures[i - 1], k)
        <3>1. CASE i \in 1 .. n - 1
            BY <1>10, <2>3, <2>6, <3>1
        <3>2. CASE i = n
            <4>1. CASE Holds(n, k) # NotTaken
                BY <2>3, <2>4, <2>6, <3>2, <4>1
            <4>2. CASE Holds(n, k) = NotTaken
                <5>1. k # Root
                    BY <1>1, <2>1, <2>6, <3>2, <4>2 DEF Taking
                <5>. QED
                    BY <2>4, <2>6, <3>2, <4>2, <5>1 DEF Lone
            <4>. QED
                BY <4>1, <4>2
        <3>. QED
            BY <3>1, <3>2
    <2>. QED
        BY <2>2, <2>3, <2>5, <2>6
<1>. QED
    BY <1>10, <1>11 DEF Undisturbed

\* Any other, if it takes over none, changes nothing; if it does, no more than
\* what there is may be said from then on.
LEMMA OriginKeeps ==
    ASSUME CaptureAssumption, CaptureInv, TakeOverOrigin
    PROVE  CaptureInv'
<1>1. CapTyped /\ Listening /\ (~strayed => Undisturbed)
    BY DEF CaptureInv
<1>2. PICK c \in Captures, l \in Loggers : hearing # <<>> /\ c = Head(hearing)[1] /\ l = Head(hearing)[2]
    <2>1. hearing # <<>> /\ Head(hearing) \in Captures \X Loggers
        BY <1>1 DEF Listening, TakeOverOrigin
    <2>. QED
        BY <2>1
<1>3. PICK ls \in SUBSET Loggers : ls = Strays(c, l)
    <2>1. Range(Above(l)) \subseteq Loggers
        BY <1>1, PathIs DEF CapTyped
    <2>. QED
        BY <2>1 DEF Strays
<1>4. /\ TakeOver(c, ls) /\ hearing' = Tail(hearing)
      /\ strayed' = (strayed \/ (ls # {} /\ (captures = <<>> \/ c # Top)))
      /\ UNCHANGED <<usage, known, resort, captures, former, plain, found>>
    BY <1>2, <1>3 DEF TakeOverOrigin
<1>5. PICK more : more = Saving(c, ls) /\ Took(c, ls, more)
    BY <1>1, SavingIs DEF CaptureAssumption
<1>6. TakesOver(c, ls, more)
    <2>1. saved' = [saved EXCEPT ![c] = more] /\ handlers' = Cleared(c, ls) /\ flags' = Opened(ls)
        BY <1>4, <1>5 DEF TakeOver
    <2>. QED
        BY <1>4, <1>5, <2>1 DEF Took, TakesOver
<1>7. CapTyped'
    <2>1. plain' \in [Loggers -> Seq(Handlers)] /\ \A k \in Loggers : IsInjective(plain'[k])
        BY <1>1, <1>4 DEF CapTyped
    <2>. QED
        BY <1>1, <1>6, <2>1, TakesOverTyped
<1>8. /\ hearing' \in Seq(Captures \X Loggers)
      /\ \A i \in DOMAIN hearing' : i + 1 \in DOMAIN hearing /\ hearing'[i] = hearing[i + 1]
    <2>1. hearing \in Seq(Captures \X Loggers) /\ hearing # <<>>
        BY <1>1, <1>2 DEF Listening
    <2>. QED
        BY <1>4, <2>1
<1>9. Listening'
    <2>1. strayed' \in BOOLEAN
        BY <1>1, <1>4 DEF Listening
    <2>. SUFFICES ASSUME "copy" \notin usage.may
                  PROVE  ~strayed' /\ \A i \in DOMAIN hearing' : captures # <<>> /\ hearing'[i][1] = Top
        BY <1>4, <1>8, <2>1 DEF Listening, Top
    <2>2. ~strayed /\ \A i \in DOMAIN hearing : captures # <<>> /\ hearing[i][1] = Top
        BY <1>1 DEF Listening
    <2>3. captures # <<>> /\ c = Top
        <3>1. 1 \in DOMAIN hearing /\ Head(hearing) = hearing[1]
            BY <1>1, <1>2 DEF Listening
        <3>. QED
            BY <1>2, <2>2, <3>1
    <2>. QED
        BY <1>4, <1>8, <2>2, <2>3
<1>10. ASSUME ~strayed' PROVE Undisturbed'
    <2>1. ~strayed /\ Undisturbed /\ (ls = {} \/ (captures # <<>> /\ c = Top))
        BY <1>1, <1>4, <1>10
    <2>2. CASE captures # <<>> /\ c = Top
        BY <1>4, <2>1, <2>2, OriginSettles
    <2>3. CASE ls = {}
        <3>1. /\ more = saved[c] /\ Cleared(c, {}) = handlers /\ Opened({}) = flags
            <4>1. /\ more \in [Loggers -> Kept \cup {NotTaken}] /\ \A k \in Loggers : more[k] = saved[c][k]
                  /\ saved[c] \in [Loggers -> Kept \cup {NotTaken}]
                BY <1>1, <1>5, <2>3 DEF Took, CapTyped
            <4>2. /\ handlers \in [Loggers -> Seq(Anyone)] /\ flags \in [Loggers -> Flags]
                BY <1>1 DEF CapTyped
            <4>3. Cleared(c, {}) = handlers
                BY <4>2 DEF Cleared
            <4>4. Opened({}) = flags
                BY <4>2 DEF Opened
            <4>. QED
                BY <4>1, <4>3, <4>4
        <3>2. saved' = saved /\ handlers' = handlers /\ flags' = flags
            <4>1. saved \in [Captures -> [Loggers -> Kept \cup {NotTaken}]]
                BY <1>1 DEF CapTyped
            <4>2. saved' = [saved EXCEPT ![c] = saved[c]]
                BY <1>6, <3>1 DEF TakesOver
            <4>. QED
                BY <1>6, <2>3, <3>1, <4>1, <4>2 DEF TakesOver
        <3>. QED
            BY <1>4, <1>7, <2>1, <3>2
               DEF Undisturbed, Taking, Resorts, Flagged, Attached, Restored, Orderly, Holds
    <2>. QED
        BY <2>1, <2>2, <2>3
<1>. QED
    BY <1>7, <1>9, <1>10 DEF CaptureInv

\* A handler is detached, and is no longer kept.
LEMMA RemoveKeeps ==
    ASSUME CaptureAssumption, CapTyped, NEW l \in Loggers, NEW h \in Anyone,
           RemoveHandler(l, h)
    PROVE  CapTyped' /\ (Undisturbed => Undisturbed')
<1>2. PICK n \in Nat : n = Len(captures)
    BY PlacesAre
<1>3. /\ DOMAIN captures = 1 .. n /\ (captures = <<>> <=> n = 0)
      /\ \A i \in 1 .. n : captures[i] \in Captures
      /\ \A i, j \in 1 .. n : captures[i] = captures[j] => i = j
      /\ \A d \in Range(captures) : \E i \in 1 .. n : captures[i] = d
    BY <1>2, PlacesAre
<1>4. /\ l \in known
      /\ UNCHANGED <<usage, known, flags, resort, captures, former, found>>
      /\ plain' = [plain EXCEPT ![l] = Without(@, h)]
    BY DEF RemoveHandler, Call
<1>5. /\ handlers \in [Loggers -> Seq(Anyone)] /\ plain \in [Loggers -> Seq(Handlers)]
      /\ saved \in [Captures -> [Loggers -> Kept \cup {NotTaken}]]
      /\ \A k \in Loggers : IsInjective(handlers[k]) /\ IsInjective(plain[k])
      /\ Handlers \subseteq Anyone
    BY DEF CapTyped, Anyone
<1>6. /\ Without(plain[l], h) \in Seq(Handlers) /\ IsInjective(Without(plain[l], h))
      /\ h \notin Range(plain[l]) => Without(plain[l], h) = plain[l]
      /\ Without(handlers[l], h) \in Seq(Anyone) /\ IsInjective(Without(handlers[l], h))
      /\ Range(Without(handlers[l], h)) \subseteq Range(handlers[l])
      /\ h \notin Range(handlers[l]) => Without(handlers[l], h) = handlers[l]
    BY <1>5, WithoutIs
<1>7. plain' \in [Loggers -> Seq(Handlers)] /\ \A k \in Loggers : IsInjective(plain'[k])
    BY <1>4, <1>5, <1>6
\* It is kept as it was, but for the handler.
<1>. DEFINE Lost(before, after) ==
                /\ after = NotTaken <=> before = NotTaken
                /\ before # NotTaken =>
                       /\ after \in Kept /\ IsInjective(after.handlers) /\ after.flags = before.flags
                       /\ Range(after.handlers) \subseteq Range(before.handlers)
<1>8. ASSUME NEW r \in Kept, IsInjective(r.handlers)
      PROVE  LET t == [r EXCEPT !.handlers = Without(@, h)] IN
                 /\ t \in Kept /\ IsInjective(t.handlers) /\ t.flags = r.flags
                 /\ t.handlers = Without(r.handlers, h)
                 /\ Range(t.handlers) \subseteq Range(r.handlers)
    <2>1. r.handlers \in Seq(Anyone)
        BY KeptIs
    <2>2. /\ Without(r.handlers, h) \in Seq(Anyone) /\ IsInjective(Without(r.handlers, h))
          /\ Range(Without(r.handlers, h)) \subseteq Range(r.handlers)
        BY <1>8, <2>1, WithoutIs
    <2>. QED
        BY <2>2 DEF Kept
<1>9. /\ saved' \in [Captures -> [Loggers -> Kept \cup {NotTaken}]]
      /\ \A d \in Captures : \A k \in Loggers :
             /\ d # Top \/ k # l \/ saved[d][k] = NotTaken => saved'[d][k] = saved[d][k]
             /\ Lost(saved[d][k], saved'[d][k])
    <2>1. \A d \in Captures : \A k \in Loggers : saved[d][k] # NotTaken =>
              saved[d][k] \in Kept /\ IsInjective(saved[d][k].handlers)
        BY DEF CapTyped
    <2>2. \A d \in Captures : \A k \in Loggers : Lost(saved[d][k], saved[d][k])
        BY <2>1
    <2>3. CASE saved' = saved
        BY <1>5, <2>2, <2>3
    <2>4. CASE saved' # saved
        <3>1. PICK c \in Captures : c = Top
            <4>1. captures # <<>>
                BY <2>4 DEF RemoveHandler
            <4>2. n \in 1 .. n
                BY <1>3, <4>1
            <4>. QED
                BY <1>2, <1>3, <4>2 DEF Top, Last
        <3>2. saved[c][l] # NotTaken /\ saved' = [saved EXCEPT ![c][l].handlers = Without(@, h)]
            BY <2>4, <3>1 DEF RemoveHandler, Forgotten
        <3>. DEFINE t == [saved[c][l] EXCEPT !.handlers = Without(@, h)]
        <3>3. saved' = [saved EXCEPT ![c] = [saved[c] EXCEPT ![l] = t]]
            BY <3>2
        <3>4. saved[c][l] \in Kept /\ IsInjective(saved[c][l].handlers)
            BY <2>1, <3>2
        <3>5. /\ t \in Kept /\ IsInjective(t.handlers) /\ t.flags = saved[c][l].flags
              /\ Range(t.handlers) \subseteq Range(saved[c][l].handlers)
            BY <1>8, <3>4
        <3>6. Lost(saved[c][l], t)
            BY <3>2, <3>5 DEF CaptureAssumption
        <3>. HIDE DEF t, Lost
        <3>7. /\ saved' \in [Captures -> [Loggers -> Kept \cup {NotTaken}]]
              /\ \A d \in Captures : \A k \in Loggers :
                     saved'[d][k] = IF d = c /\ k = l THEN t ELSE saved[d][k]
            BY <1>5, <3>3, <3>5
        <3>. QED
            BY <2>2, <3>1, <3>2, <3>6, <3>7
    <2>. QED
        BY <2>3, <2>4
<1>10. /\ handlers' \in [Loggers -> Seq(Anyone)]
       /\ \A k \in Loggers :
              /\ IsInjective(handlers'[k]) /\ Range(handlers'[k]) \subseteq Range(handlers[k])
              /\ h \notin Range(handlers[k]) => handlers'[k] = handlers[k]
    <2>1. handlers' = handlers \/ handlers' = [handlers EXCEPT ![l] = Without(@, h)]
        BY DEF RemoveHandler
    <2>. QED
        BY <1>5, <1>6, <2>1
<1>11. \A i \in 1 .. n : \A k \in Loggers : Lost(Holds(i, k), Holds(i, k)')
    <2>. HIDE DEF Lost
    <2>1. \A i \in 1 .. n : \A k \in Loggers :
              Holds(i, k) = saved[captures[i]][k] /\ Holds(i, k)' = saved'[captures[i]][k]
        BY <1>4 DEF Holds
    <2>. QED
        BY <1>3, <1>9, <2>1
<1>12. CapTyped'
    <2>1. \A d \in Captures : \A k \in Loggers : saved'[d][k] # NotTaken =>
              saved'[d][k] \in Kept /\ IsInjective(saved'[d][k].handlers)
        BY <1>9
    <2>. HIDE DEF Lost
    <2>. QED
        BY <1>4, <1>7, <1>9, <1>10, <2>1 DEF CapTyped
<1>13. ASSUME Undisturbed PROVE Undisturbed'
    <2>1. CapTyped /\ Taking /\ Resorts /\ Flagged /\ Attached /\ Restored
        BY <1>13 DEF Undisturbed
    <2>13. Taking'
        <3>1. Root \in Loggers
            BY <2>1 DEF CapTyped
        <3>2. \A d \in Captures : \A k \in Loggers : saved[d][k] = NotTaken => saved'[d][k] = NotTaken
            BY <1>9
        <3>3. \A i \in 1 .. n : Holds(i, Root)' # NotTaken
            BY <2>1, <1>3, <1>11, <3>1 DEF Taking
        <3>. HIDE DEF Lost
        <3>. QED
            BY <2>1, <1>3, <1>4, <3>2, <3>3 DEF Taking
    <2>14. Resorts'
        BY <2>1, <1>4 DEF Resorts
    <2>15. Flagged'
        <3>. SUFFICES ASSUME NEW k \in Loggers
                      PROVE  /\ (\A i \in 1 .. n : Holds(i, k)' = NotTaken) => flags[k] = found[k]
                             /\ \A i \in 1 .. n :
                                    Holds(i, k)' # NotTaken /\ (\A j \in 1 .. n : j < i => Holds(j, k)' = NotTaken)
                                        => Holds(i, k)'.flags = found[k]
            BY <1>3, <1>4 DEF Flagged
        <3>1. /\ (\A i \in 1 .. n : Holds(i, k) = NotTaken) => flags[k] = found[k]
              /\ \A i \in 1 .. n :
                     Holds(i, k) # NotTaken /\ (\A j \in 1 .. n : j < i => Holds(j, k) = NotTaken)
                         => Holds(i, k).flags = found[k]
            BY <2>1, <1>3 DEF Flagged
        <3>2. \A i \in 1 .. n : /\ Holds(i, k)' = NotTaken <=> Holds(i, k) = NotTaken
                                /\ Holds(i, k) # NotTaken => Holds(i, k)'.flags = Holds(i, k).flags
            BY <1>11
        <3>. HIDE DEF Lost
        <3>. QED
            BY <3>1, <3>2
    <2>16. Attached'
        <3>. SUFFICES ASSUME "copy" \notin usage.may, NEW k \in Loggers
                      PROVE  /\ \A g \in Range(handlers'[k]) :
                                    g \in Handlers \/ (k = Root /\ captures # <<>> /\ g = captures[n])
                             /\ \A i \in 1 .. n : Holds(i, k)' # NotTaken =>
                                    \A g \in Range(Holds(i, k)'.handlers) :
                                        g \in Handlers \/ (k = Root /\ i > 1 /\ g = captures[i - 1])
            BY <1>2, <1>3, <1>4 DEF Attached
        <3>1. /\ \A g \in Range(handlers[k]) :
                     g \in Handlers \/ (k = Root /\ captures # <<>> /\ g = captures[n])
              /\ \A i \in 1 .. n : Holds(i, k) # NotTaken =>
                     \A g \in Range(Holds(i, k).handlers) :
                         g \in Handlers \/ (k = Root /\ i > 1 /\ g = captures[i - 1])
            BY <2>1, <1>2, <1>3 DEF Attached
        <3>2. \A i \in 1 .. n : Holds(i, k)' # NotTaken =>
                  Holds(i, k) # NotTaken /\ Range(Holds(i, k)'.handlers) \subseteq Range(Holds(i, k).handlers)
            BY <1>11
        <3>. HIDE DEF Lost
        <3>. QED
            BY <1>10, <3>1, <3>2
    <2>17. Restored'
        <3>. SUFFICES ASSUME Orderly PROVE Restored'
            BY <1>4 DEF Restored, Orderly
        <3>. HIDE DEF Lost
        <3>1. CASE n = 0
            <4>1. handlers' = [handlers EXCEPT ![l] = Without(@, h)] /\ handlers = plain
                BY <2>1, <1>3, <3>1 DEF RemoveHandler, Restored
            <4>2. handlers' = plain' /\ DOMAIN captures = {} /\ captures' = <<>>
                BY <1>3, <1>4, <3>1, <4>1
            <4>3. \A k \in Loggers \ known : plain[k] = <<>>
                BY <2>1 DEF Restored
            <4>4. \A k \in Loggers \ known : plain'[k] = <<>>
                BY <1>4, <1>5, <4>3
            <4>. QED
                BY <1>4, <4>2, <4>4 DEF Restored
        <3>2. CASE n # 0
            <4>1. n = 1
                <5>1. n <= 1
                    BY <1>2 DEF RemoveHandler, Call, Orderly
                <5>. QED
                    BY <3>2, <5>1
            <4>2. PICK c \in Captures : c = Top /\ c = captures[1]
                BY <1>2, <1>3, <4>1 DEF Top, Last
            <4>3. c \notin Handlers
                BY DEF CaptureAssumption
            <4>4. /\ \A k \in Loggers :
                        /\ handlers[k] = Lone(c, k)
                        /\ plain[k] = IF Holds(1, k) = NotTaken THEN <<>> ELSE Holds(1, k).handlers
                  /\ \A k \in Loggers \ known : handlers[k] = <<>> /\ plain[k] = <<>>
                BY <2>1, <1>2, <1>3, <3>2, <4>1, <4>2 DEF Restored
            <4>5. \A k \in Loggers : handlers'[k] = handlers[k]
                <5>1. CASE h = c
                    <6>1. handlers' = handlers
                        BY <1>3, <3>2, <4>2, <5>1 DEF RemoveHandler
                    <6>. QED
                        BY <6>1
                <5>2. CASE h # c
                    <6>1. \A k \in Loggers : Range(handlers[k]) \subseteq {c}
                        BY <4>4 DEF Lone, Range
                    <6>. QED
                        BY <1>10, <5>2, <6>1
                <5>. QED
                    BY <5>1, <5>2
            <4>6. \A k \in Loggers : Holds(1, k)' = saved'[c][k] /\ Holds(1, k) = saved[c][k]
                BY <1>4, <4>2 DEF Holds
            <4>7. \A k \in Loggers : plain'[k] = IF Holds(1, k)' = NotTaken THEN <<>> ELSE Holds(1, k)'.handlers
                <5>. SUFFICES ASSUME NEW k \in Loggers
                              PROVE  plain'[k] = IF saved'[c][k] = NotTaken THEN <<>> ELSE saved'[c][k].handlers
                    BY <4>6
                <5>1. plain[k] = IF saved[c][k] = NotTaken THEN <<>> ELSE saved[c][k].handlers
                    BY <4>4, <4>6
                <5>2. CASE k # l
                    BY <1>4, <1>5, <1>9, <5>1, <5>2
                <5>3. CASE k = l
                    <6>1. plain'[l] = Without(plain[l], h)
                        BY <1>4, <1>5
                    <6>2. CASE h = c
                        <7>1. saved' = saved
                            BY <1>3, <3>2, <4>2, <6>2 DEF RemoveHandler
                        <7>2. h \notin Range(plain[l])
                            <8>1. Range(plain[l]) \subseteq Handlers
                                BY <1>5 DEF Range
                            <8>. QED
                                BY <4>3, <6>2, <8>1
                        <7>. QED
                            BY <1>6, <5>1, <5>3, <6>1, <7>1, <7>2
                    <6>3. CASE h # c
                        <7>1. saved' = Forgotten(Top, l, h)
                            BY <1>3, <3>2, <4>2, <6>3 DEF RemoveHandler
                        <7>2. CASE saved[c][l] = NotTaken
                            <8>1. saved'[c][l] = NotTaken /\ plain[l] = <<>>
                                BY <4>2, <5>1, <5>3, <7>1, <7>2 DEF Forgotten
                            <8>2. Range(<<>>) = {}
                                BY DEF Range
                            <8>. QED
                                BY <1>6, <5>3, <6>1, <8>1, <8>2
                        <7>3. CASE saved[c][l] # NotTaken
                            <8>. DEFINE t == [saved[c][l] EXCEPT !.handlers = Without(@, h)]
                            <8>1. saved' = [saved EXCEPT ![c] = [saved[c] EXCEPT ![l] = t]]
                                BY <4>2, <7>1, <7>3 DEF Forgotten
                            <8>2. saved[c][l] \in Kept /\ IsInjective(saved[c][l].handlers)
                                BY <2>1, <7>3 DEF CapTyped
                            <8>3. t.handlers = Without(saved[c][l].handlers, h) /\ t \in Kept
                                BY <1>8, <8>2
                            <8>. HIDE DEF t
                            <8>4. saved'[c][l] = t /\ t # NotTaken
                                BY <1>5, <8>1, <8>3 DEF CaptureAssumption
                            <8>. QED
                                BY <5>1, <5>3, <6>1, <7>3, <8>3, <8>4
                        <7>. QED
                            BY <7>2, <7>3
                    <6>. QED
                        BY <6>2, <6>3
                <5>. QED
                    BY <5>2, <5>3
            <4>8. \A k \in Loggers \ known : plain'[k] = <<>>
                BY <1>4, <1>5, <4>4
            <4>9. \A i \in 1 .. n : ~(i > 1)
                BY <4>1
            <4>. QED
                BY <1>2, <1>3, <1>4, <3>2, <4>1, <4>2, <4>4, <4>5, <4>7, <4>8, <4>9 DEF Restored, Lone
        <3>. QED
            BY <3>1, <3>2
    <2>. QED
        BY <1>12, <2>13, <2>14, <2>15, <2>16, <2>17 DEF Undisturbed
<1>. QED
    BY <1>12, <1>13

\* A handler put by hand, or the capture's own in a second place, breaks no more
\* than the good order.
LEMMA PutKeeps ==
    ASSUME CaptureAssumption, CapTyped, NEW l \in Loggers, NEW h \in Handlers, PutByHand(l, h)
    PROVE  CapTyped' /\ (Undisturbed => Undisturbed')
<1>2. /\ "put" \in usage.may /\ l \in known /\ h \notin Range(handlers[l])
      /\ handlers' = [handlers EXCEPT ![l] = Append(@, h)]
      /\ plain' = [plain EXCEPT ![l] = With(@, h)]
      /\ UNCHANGED <<usage, known, flags, resort, captures, saved, former, found>>
    BY DEF PutByHand, Call, capVars
<1>3. /\ handlers \in [Loggers -> Seq(Anyone)] /\ plain \in [Loggers -> Seq(Handlers)]
      /\ \A k \in Loggers : IsInjective(handlers[k]) /\ IsInjective(plain[k])
      /\ h \in Anyone
    BY DEF CapTyped, Anyone
<1>4. /\ Append(handlers[l], h) \in Seq(Anyone) /\ IsInjective(Append(handlers[l], h))
      /\ Range(Append(handlers[l], h)) = Range(handlers[l]) \cup {h}
      /\ With(plain[l], h) \in Seq(Handlers) /\ IsInjective(With(plain[l], h))
    BY <1>2, <1>3, WithIs, InjectiveAppend, RangeAppend
<1>5. CapTyped'
    BY <1>2, <1>3, <1>4 DEF CapTyped
<1>6. ASSUME Undisturbed PROVE Undisturbed'
    <2>1. CapTyped /\ Taking /\ Resorts /\ Flagged /\ Attached /\ Restored
        BY <1>6 DEF Undisturbed
    <2>6. Taking' /\ Resorts' /\ Flagged'
        BY <2>1, <1>2 DEF Taking, Resorts, Flagged, Holds
    <2>7. Attached'
        <3>. SUFFICES ASSUME "copy" \notin usage.may, NEW k \in Loggers
                      PROVE  \A g \in Range(handlers'[k]) :
                                 g \in Handlers \/ (k = Root /\ captures # <<>> /\ g = captures[Len(captures)])
            BY <2>1, <1>2 DEF Attached, Holds
        <3>1. \A g \in Range(handlers'[k]) : g \in Range(handlers[k]) \/ g = h
            BY <1>2, <1>3, <1>4
        <3>. QED
            BY <2>1, <3>1 DEF Attached
    <2>8. Restored'
        BY <1>2 DEF Restored, Orderly
    <2>. QED
        BY <1>5, <2>6, <2>7, <2>8 DEF Undisturbed
<1>. QED
    BY <1>5, <1>6

LEMMA CopyKeeps ==
    ASSUME CaptureAssumption, CapTyped, NEW l \in Loggers, CopyHandler(l)
    PROVE  CapTyped' /\ (Undisturbed => Undisturbed')
<1>2. /\ "copy" \in usage.may /\ captures # <<>>
      /\ handlers' = [handlers EXCEPT ![l] = With(@, Top)]
      /\ UNCHANGED <<usage, known, flags, resort, captures, saved, former, plain, found>>
    BY DEF CopyHandler, Call, capVars
<1>3. Top \in Anyone
    <2>1. Len(captures) \in 1 .. Len(captures)
        BY <1>2, PlacesAre
    <2>. QED
        BY <2>1, PlacesAre DEF Top, Last, Anyone
<1>4. /\ handlers \in [Loggers -> Seq(Anyone)] /\ \A k \in Loggers : IsInjective(handlers[k])
    BY DEF CapTyped
<1>5. With(handlers[l], Top) \in Seq(Anyone) /\ IsInjective(With(handlers[l], Top))
    BY <1>3, <1>4, WithIs
<1>6. CapTyped'
    <2>1. handlers' \in [Loggers -> Seq(Anyone)] /\ \A k \in Loggers : IsInjective(handlers'[k])
        BY <1>2, <1>4, <1>5
    <2>. QED
        BY <1>2, <2>1 DEF CapTyped
<1>7. ASSUME Undisturbed PROVE Undisturbed'
    <2>1. CapTyped /\ Taking /\ Resorts /\ Flagged /\ Attached /\ Restored
        BY <1>7 DEF Undisturbed
    <2>7. Taking' /\ Resorts' /\ Flagged'
        BY <2>1, <1>2 DEF Taking, Resorts, Flagged, Holds
    <2>8. Attached' /\ Restored'
        BY <1>2 DEF Attached, Restored, Orderly
    <2>. QED
        BY <1>6, <2>7, <2>8 DEF Undisturbed
<1>. QED
    BY <1>6, <1>7

LEMMA FlagsKeep ==
    ASSUME CaptureAssumption, CapTyped, NEW l \in Loggers, NEW f \in Flags, SetFlags(l, f)
    PROVE  CapTyped' /\ (Undisturbed => Undisturbed')
<1>2. /\ flags' = [flags EXCEPT ![l] = f]
      /\ found' = IF \A c \in Captures : saved[c][l] = NotTaken THEN [found EXCEPT ![l] = f] ELSE found
      /\ UNCHANGED <<usage, known, handlers, resort, captures, saved, former, plain>>
    BY DEF SetFlags, Call, capVars
<1>3. CapTyped'
    BY <1>2 DEF CapTyped
<1>4. ASSUME Undisturbed PROVE Undisturbed'
    <2>1. CapTyped /\ Taking /\ Resorts /\ Flagged /\ Attached /\ Restored
        BY <1>4 DEF Undisturbed
    <2>4. Taking' /\ Resorts' /\ Attached' /\ Restored'
        BY <2>1, <1>2 DEF Taking, Resorts, Attached, Restored, Orderly, Holds
    <2>5. Flagged'
        <3>1. flags \in [Loggers -> Flags] /\ found \in [Loggers -> Flags]
            BY <2>1 DEF CapTyped
        <3>2. (\A c \in Captures : saved[c][l] = NotTaken) <=> \A i \in DOMAIN captures : Holds(i, l) = NotTaken
            <4>1. \A c \in Captures : c \in Range(captures) => \E i \in DOMAIN captures : captures[i] = c
                BY DEF Range
            <4>2. \A i \in DOMAIN captures : captures[i] \in Captures
                BY <2>1, PlacesAre
            <4>. QED
                BY <2>1, <4>1, <4>2 DEF Taking, Holds
        <3>3. \A k \in Loggers : \A i \in DOMAIN captures : Holds(i, k)' = Holds(i, k)
            BY <1>2 DEF Holds
        <3>. SUFFICES ASSUME NEW k \in Loggers
                      PROVE  /\ (\A i \in DOMAIN captures : Holds(i, k) = NotTaken) => flags'[k] = found'[k]
                             /\ \A i \in DOMAIN captures :
                                    Holds(i, k) # NotTaken /\ (\A j \in DOMAIN captures : j < i => Holds(j, k) = NotTaken)
                                        => Holds(i, k).flags = found'[k]
            BY <1>2, <3>3 DEF Flagged
        <3>4. /\ (\A i \in DOMAIN captures : Holds(i, k) = NotTaken) => flags[k] = found[k]
              /\ \A i \in DOMAIN captures :
                     Holds(i, k) # NotTaken /\ (\A j \in DOMAIN captures : j < i => Holds(j, k) = NotTaken)
                         => Holds(i, k).flags = found[k]
            BY <2>1 DEF Flagged
        <3>5. CASE k # l
            <4>1. flags'[k] = flags[k] /\ found'[k] = found[k]
                BY <1>2, <3>1, <3>5
            <4>. QED
                BY <3>4, <4>1
        <3>6. CASE k = l /\ \A i \in DOMAIN captures : Holds(i, l) = NotTaken
            <4>1. flags'[l] = f /\ found'[l] = f
                BY <1>2, <3>1, <3>2, <3>6
            <4>. QED
                BY <3>6, <4>1
        <3>7. CASE k = l /\ ~\A i \in DOMAIN captures : Holds(i, l) = NotTaken
            <4>1. found' = found
                BY <1>2, <3>2, <3>7
            <4>. QED
                BY <3>4, <3>7, <4>1
        <3>. QED
            BY <3>5, <3>6, <3>7
    <2>. QED
        BY <1>3, <2>4, <2>5 DEF Undisturbed
<1>. QED
    BY <1>3, <1>4

LEMMA CreateKeeps ==
    ASSUME CaptureAssumption, CapTyped, NEW l \in Loggers, CreateLogger(l)
    PROVE  CapTyped' /\ (Undisturbed => Undisturbed')
<1>2. /\ known' = known \cup {l}
      /\ UNCHANGED <<usage, handlers, flags, resort, captures, saved, former, plain, found>>
    BY DEF CreateLogger, Call, capVars
<1>3. CapTyped'
    BY <1>2 DEF CapTyped
<1>4. ASSUME Undisturbed PROVE Undisturbed'
    <2>1. CapTyped /\ Taking /\ Resorts /\ Flagged /\ Attached /\ Restored
        BY <1>4 DEF Undisturbed
    <2>4. Taking' /\ Resorts' /\ Flagged' /\ Attached'
        BY <2>1, <1>2 DEF Taking, Resorts, Flagged, Attached, Holds
    <2>5. Restored'
        BY <2>1, <1>2 DEF Restored, Orderly, Holds
    <2>. QED
        BY <1>3, <2>4, <2>5 DEF Undisturbed
<1>. QED
    BY <1>3, <1>4

-----------------------------------------------------------------------------
(* The invariant holds from the start, and stays *)

LEMMA CaptureStarts ==
    ASSUME CaptureAssumption, CaptureInit PROVE CaptureInv
<1>1. /\ usage \in Usages /\ known = AtStart /\ handlers = Wired /\ plain = Wired
      /\ flags = [l \in Loggers |-> Default] /\ found = flags /\ resort = LastResort
      /\ captures = <<>> /\ saved = [c \in Captures |-> [l \in Loggers |-> NotTaken]]
      /\ former = [c \in Captures |-> LastResort] /\ hearing = <<>> /\ strayed = FALSE
    BY DEF CaptureInit
<1>2. /\ Root \in AtStart /\ AtStart \subseteq Loggers /\ Wired \in [Loggers -> Seq(Handlers)]
      /\ \A l \in Loggers : IsInjective(Wired[l]) /\ (l \notin AtStart => Wired[l] = <<>>)
    BY DEF CaptureAssumption
<1>3. DOMAIN captures = {} /\ Range(captures) = {} /\ IsInjective(captures) /\ captures \in Seq(Captures)
    BY <1>1 DEF Range, IsInjective
<1>4. CapTyped
    <2>1. Wired \in [Loggers -> Seq(Anyone)]
        BY <1>2 DEF Anyone
    <2>2. Default \in Flags
        BY DEF Default, Flags
    <2>3. flags \in [Loggers -> Flags] /\ found \in [Loggers -> Flags]
        BY <1>1, <2>2
    <2>4. \A c \in Captures : \A l \in Loggers : saved[c][l] = NotTaken
        BY <1>1
    <2>5. saved \in [Captures -> [Loggers -> Kept \cup {NotTaken}]]
        BY <1>1
    <2>6. former \in [Captures -> Captures \cup {LastResort}]
        BY <1>1
    <2>. QED
        BY <1>1, <1>2, <1>3, <2>1, <2>3, <2>4, <2>5, <2>6 DEF CapTyped
<1>5. Taking
    BY <1>1, <1>3 DEF Taking
<1>6. Resorts
    BY <1>1, <1>3 DEF Resorts
<1>7. Flagged
    BY <1>1, <1>3 DEF Flagged
<1>8. Attached
    <2>1. \A l \in Loggers : \A h \in Range(handlers[l]) : h \in Handlers
        BY <1>1, <1>2 DEF Range
    <2>. QED
        BY <1>3, <2>1 DEF Attached
<1>9. Restored
    BY <1>1, <1>2, <1>3 DEF Restored
<1>10. Listening
    <2>1. hearing \in Seq(Captures \X Loggers) /\ DOMAIN hearing = {}
        BY <1>1
    <2>. QED
        BY <1>1, <2>1 DEF Listening
<1>. QED
    BY <1>4, <1>5, <1>6, <1>7, <1>8, <1>9, <1>10 DEF CaptureInv, Undisturbed

LEMMA QuietStep ==
    ASSUME CaptureInv, hearing = <<>>, UNCHANGED <<usage, hearing, strayed>>,
           CapTyped', Undisturbed => Undisturbed'
    PROVE  CaptureInv'
<1>1. DOMAIN hearing = {}
    OBVIOUS
<1>. QED
    BY <1>1 DEF CaptureInv, Listening

LEMMA CaptureKeeps ==
    ASSUME CaptureAssumption, CaptureInv, CaptureNext PROVE CaptureInv'
<1>1. CapTyped
    BY DEF CaptureInv
<1>2. ASSUME NEW c \in Captures, Install(c) PROVE CaptureInv'
    <2>1. InstallDoes(c)
        BY <1>1, <1>2, InstallEffect
    <2>2. hearing = <<>> /\ UNCHANGED <<usage, hearing, strayed>>
        BY <1>2 DEF Install, historyVars
    <2>. QED
        BY <1>1, <2>1, <2>2, InstallTyped, InstallKeeps, QuietStep
<1>3. ASSUME NEW c \in Captures, Release(c) PROVE CaptureInv'
    <2>1. PICK i \in 1 .. Len(captures) :
              /\ ReleaseDoes(c, i)
              /\ \/ i = Len(captures) /\ PutBack(c)
                 \/ i # Len(captures) /\ HandOver(c, captures[i + 1])
        BY <1>1, <1>3, ReleaseEffect
    <2>2. hearing = <<>> /\ UNCHANGED <<usage, hearing, strayed>>
        BY <1>3 DEF Release, historyVars
    <2>3. CASE i = Len(captures)
        <3>1. captures # <<>>
            OBVIOUS
        <3>2. CapTyped' /\ (Undisturbed => Undisturbed')
            BY <1>1, <2>1, <2>3, <3>1, PutBackTyped, PutBackKeeps
        <3>. QED
            BY <2>2, <3>2, QuietStep
    <2>4. CASE i # Len(captures)
        <3>1. CapTyped' /\ (Undisturbed => Undisturbed')
            BY <1>1, <2>1, <2>4, HandOverKeeps
        <3>. QED
            BY <2>2, <3>1, QuietStep
    <2>. QED
        BY <2>3, <2>4
<1>4. ASSUME NEW l \in Loggers, NEW p \in BOOLEAN, NEW d \in BOOLEAN,
             SetFlags(l, [level |-> Application, propagate |-> p, disabled |-> d])
      PROVE  CapTyped' /\ (Undisturbed => Undisturbed')
    <2>1. [level |-> Application, propagate |-> p, disabled |-> d] \in Flags
        BY DEF Flags
    <2>. QED
        BY <1>1, <1>4, <2>1, FlagsKeep
<1>5. ASSUME NEW l \in Loggers,
             \/ \E h \in Handlers : AddHandler(l, h) \/ PutByHand(l, h)
             \/ \E h \in Anyone : RemoveHandler(l, h)
             \/ CopyHandler(l) \/ CreateLogger(l)
             \/ \E p, d \in BOOLEAN : SetFlags(l, [level |-> Application, propagate |-> p, disabled |-> d])
      PROVE  CaptureInv'
    <2>1. CapTyped' /\ (Undisturbed => Undisturbed')
        BY <1>1, <1>4, <1>5, AddKeeps, PutKeeps, RemoveKeeps, CopyKeeps, CreateKeeps
    <2>2. hearing = <<>> /\ UNCHANGED <<usage, hearing, strayed>>
        BY <1>5 DEF AddHandler, PutByHand, RemoveHandler, CopyHandler, CreateLogger, SetFlags, Call
    <2>. QED
        BY <2>1, <2>2, QuietStep
<1>6. ASSUME ApplicationCalls PROVE CaptureInv'
    BY <1>5, <1>6, LogKeeps DEF ApplicationCalls
<1>. QED
    BY <1>2, <1>3, <1>6, OriginKeeps DEF CaptureNext

LEMMA CaptureStutters ==
    ASSUME CaptureInv, UNCHANGED captureVars PROVE CaptureInv'
<1>1. UNCHANGED <<usage, known, handlers, flags, resort, captures, saved, former, plain, found>>
    BY DEF captureVars, stdVars, capVars, historyVars
<1>2. CapTyped'
    BY <1>1 DEF CaptureInv, CapTyped
<1>3. Undisturbed => Undisturbed'
    BY <1>1, <1>2 DEF Undisturbed, Taking, Resorts, Flagged, Attached, Restored, Orderly, Holds
<1>4. UNCHANGED <<hearing, strayed>>
    BY DEF captureVars, historyVars
<1>5. Listening'
    BY <1>1, <1>4 DEF CaptureInv, Listening, Top
<1>. QED
    BY <1>2, <1>3, <1>4, <1>5 DEF CaptureInv

-----------------------------------------------------------------------------
(* What follows *)

LEMMA GivenBackFollows ==
    ASSUME CaptureAssumption, CaptureInv
    PROVE  HandlersGivenBack /\ FlagsGivenBack /\ GoneForGood
<1>1. CapTyped /\ ("copy" \notin usage.may => ~strayed) /\ (~strayed => Undisturbed)
    BY DEF CaptureInv, Listening
<1>2. HandlersGivenBack
    BY <1>1 DEF HandlersGivenBack, Orderly, Undisturbed, Restored, Resorts
<1>3. FlagsGivenBack
    <2>. SUFFICES ASSUME captures = <<>>, "copy" \in usage.may => ~strayed PROVE flags = found
        BY DEF FlagsGivenBack
    <2>1. DOMAIN captures = {} /\ Flagged
        BY <1>1 DEF Undisturbed
    <2>2. \A l \in Loggers : flags[l] = found[l]
        BY <2>1 DEF Flagged
    <2>. QED
        BY <1>1, <2>2 DEF CapTyped
<1>4. GoneForGood
    <2>1. PICK n \in Nat : n = Len(captures)
        BY <1>1, PlacesAre
    <2>2. /\ DOMAIN captures = 1 .. n /\ (captures = <<>> <=> n = 0)
          /\ \A i \in 1 .. n : captures[i] \in Captures /\ captures[i] \in Range(captures)
          /\ \A d \in Range(captures) : \E i \in 1 .. n : captures[i] = d
        BY <1>1, <2>1, PlacesAre
    <2>. SUFFICES ASSUME "copy" \notin usage.may, NEW c \in Captures \ Range(captures)
                  PROVE  /\ resort # c
                         /\ \A l \in Loggers : c \notin Range(handlers[l])
                         /\ \A d \in Range(captures) :
                                /\ former[d] # c
                                /\ \A l \in Loggers :
                                       saved[d][l] # NotTaken => c \notin Range(saved[d][l].handlers)
        BY DEF GoneForGood
    <2>3. c \notin Handlers /\ c # LastResort /\ Resorts /\ Attached
        BY <1>1 DEF CaptureAssumption, Undisturbed
    <2>4. resort # c
        BY <2>1, <2>2, <2>3 DEF Resorts
    <2>5. \A l \in Loggers : c \notin Range(handlers[l])
        BY <2>1, <2>2, <2>3 DEF Attached
    <2>6. ASSUME NEW i \in 1 .. n
          PROVE  /\ former[captures[i]] # c
                 /\ \A l \in Loggers :
                        saved[captures[i]][l] # NotTaken => c \notin Range(saved[captures[i]][l].handlers)
        <3>1. i > 1 \/ i = 1
            OBVIOUS
        <3>2. i > 1 => i - 1 \in 1 .. n
            OBVIOUS
        <3>3. former[captures[i]] # c
            BY <2>2, <2>3, <3>1, <3>2 DEF Resorts
        <3>4. \A l \in Loggers : Holds(i, l) # NotTaken => c \notin Range(Holds(i, l).handlers)
            BY <2>2, <2>3, <3>2 DEF Attached
        <3>. QED
            BY <3>3, <3>4 DEF Holds
    <2>. QED
        BY <2>2, <2>4, <2>5, <2>6
<1>. QED
    BY <1>2, <1>3, <1>4

LEMMA OneWayOutFollows ==
    ASSUME CaptureAssumption, CaptureInv PROVE OneWayOut
<1>. SUFFICES ASSUME Orderly, captures # <<>>, NEW l \in known PROVE Outputs(l) = <<Top>>
    BY DEF OneWayOut
<1>1. CapTyped /\ Resorts /\ Restored
    BY DEF CaptureInv, Listening, Undisturbed, Orderly
<1>2. l \in Loggers
    BY <1>1 DEF CapTyped
<1>3. PICK c : c = Top
    OBVIOUS
<1>4. resort = c /\ \A k \in Loggers : handlers[k] = IF k = Root THEN <<c>> ELSE <<>>
    BY <1>1, <1>3 DEF Resorts, Restored, Lone, Top, Last
<1>5. PICK path : path = Path(l) /\ path \in Seq(Loggers) /\ IsInjective(path)
    BY <1>2, PathIs
<1>6. PICK q : q = [i \in DOMAIN path |-> handlers[path[i]]]
    OBVIOUS
<1>7. /\ Len(q) = Len(path) /\ Len(q) \in Nat /\ (q = <<>> \/ Len(q) # 0)
      /\ \A i \in 1 .. Len(q) : q[i] = handlers[path[i]] /\ path[i] \in Loggers /\ i \in DOMAIN path
    <2>1. DOMAIN path = 1 .. Len(path) /\ Len(path) \in Nat /\ \A i \in 1 .. Len(path) : path[i] \in Loggers
        BY <1>5
    <2>2. q \in Seq({handlers[k] : k \in Loggers}) /\ Len(q) = Len(path)
        BY <1>6, <2>1
    <2>. QED
        BY <1>6, <2>1, <2>2
<1>8. FlattenSeq(q) \in {<<>>, <<c>>}
    <2>1. \A i \in 1 .. Len(q) : q[i] \in {<<>>, <<c>>} /\ (q[i] = <<c>> => path[i] = Root)
        <3>. SUFFICES ASSUME NEW i \in 1 .. Len(q)
                      PROVE  q[i] \in {<<>>, <<c>>} /\ (q[i] = <<c>> => path[i] = Root)
            OBVIOUS
        <3>1. q[i] = IF path[i] = Root THEN <<c>> ELSE <<>>
            BY <1>4, <1>7
        <3>2. <<c>> # <<>>
            OBVIOUS
        <3>. QED
            BY <3>1, <3>2, Zenon
    <2>2. \A i, j \in 1 .. Len(q) : q[i] = <<c>> /\ q[j] = <<c>> => i = j
        BY <1>5, <1>7, <2>1 DEF IsInjective
    <2>. QED
        BY <1>7, <2>1, <2>2, FlattenOne
<1>9. Outputs(l) = IF FlattenSeq(q) = <<>> THEN <<resort>> ELSE FlattenSeq(q)
    BY <1>5, <1>6 DEF Outputs
<1>. QED
    BY <1>3, <1>4, <1>8, <1>9

LEMMA SweepsFollows ==
    ASSUME CaptureAssumption, CaptureInv PROVE Sweeps
<1>1. CapTyped
    BY DEF CaptureInv
<1>. SUFFICES ASSUME TakeOverOrigin, NEW k \in Range(Above(Head(hearing)[2]))
              PROVE  /\ Range(handlers'[k]) \subseteq {Head(hearing)[1]}
                     /\ flags'[k].propagate /\ ~flags'[k].disabled
    BY DEF Sweeps
<1>2. PICK c \in Captures, l \in Loggers : c = Head(hearing)[1] /\ l = Head(hearing)[2]
    <2>1. Head(hearing) \in Captures \X Loggers
        BY DEF CaptureInv, Listening, TakeOverOrigin
    <2>. QED
        BY <2>1
<1>3. Range(Above(l)) \subseteq Loggers
    BY <1>1, PathIs DEF CapTyped
<1>4. PICK ls \in SUBSET Loggers : ls = Strays(c, l)
    BY <1>3 DEF Strays
<1>5. handlers' = Cleared(c, ls) /\ flags' = Opened(ls)
    BY <1>2, <1>4 DEF TakeOverOrigin, TakeOver
<1>6. CASE k \in ls
    <2>1. Range(Cleared(c, ls)[k]) = Range(handlers[k]) \cap {c}
        BY <1>1, <1>6, ClearedIs
    <2>2. Opened(ls)[k].propagate /\ ~Opened(ls)[k].disabled
        BY <1>1, <1>6, OpenedIs
    <2>. QED
        BY <1>2, <1>5, <2>1, <2>2
<1>7. CASE k \notin ls
    <2>1. Cleared(c, ls)[k] = handlers[k] /\ Opened(ls)[k] = flags[k]
        BY <1>1, <1>2, <1>3, <1>7, ClearedIs, OpenedIs
    <2>2. ~Astray(c, k)
        BY <1>2, <1>4, <1>7 DEF Strays
    <2>. QED
        BY <1>2, <1>5, <2>1, <2>2 DEF Astray
<1>. QED
    BY <1>6, <1>7

-----------------------------------------------------------------------------
(* Records that cross the bridge: the invariant *)

Passing == {"stdlib", "channel"}
Passers == Relays \cup {CaptureHandler}

CrossingRecord == [id : Nat, name : Names, level : Levels, number : Int, marked : BOOLEAN,
                   through : SUBSET Passers]

Frame ==
    [at : {"stdlib"}, record : CrossingRecord, left : Seq(DOMAIN Threshold)]
    \cup [at : {"channel"}, record : CrossingRecord, left : Seq(DOMAIN MinLevel)]
    \cup [at : {"look", "make", "added"}, record : CrossingRecord]

\* The frames of a thread, by where they are: the application logs, the capture
\* emits, and a record that was handed over is the last.
Placed(fs, k) ==
    LET f == fs[k]
        r == f.record
    IN  /\ r.id = fs[1].record.id
        /\ f.at \in Passing => IsInjective(f.left)
        /\ f.at = "stdlib" =>
               IF k = 1 THEN ~r.marked /\ r.through = {}
               ELSE /\ k \in {2, 4} /\ r.marked /\ fs[k - 1].at = "channel"
                    /\ \E h \in Relays : r.through = fs[k - 1].record.through \cup {h}
        /\ f.at = "channel" =>
               /\ ~r.marked
               /\ IF k = 1 THEN r.through = {}
                  ELSE /\ k = 3 /\ fs[2].at = "added" /\ r.through = {CaptureHandler}
                       /\ r.level = FromStdlib(fs[1].record.number)
        /\ f.at \in {"look", "make", "added"} =>
               /\ k = 2 /\ fs[1].at = "stdlib" /\ r = fs[1].record
               /\ CaptureHandler \notin Range(fs[1].left)
               /\ f.at # "added" => Len(fs) = 2

\* No handler that is still to be offered a record has passed it on, and none of
\* two frames holds it the same way.
Apart(fs) == \A k, m \in DOMAIN fs :
    k < m /\ fs[k].at \in Passing /\ fs[m].at \in Passing =>
        /\ fs[k].record.through # fs[m].record.through
        /\ Range(fs[k].left) \cap fs[m].record.through = {}

Formed(fs) == fs \in Seq(Frame) /\ (\A k \in DOMAIN fs : Placed(fs, k)) /\ Apart(fs)

\* The record is what was logged.
Original(fs) == fs # <<>> =>
    LET r == fs[1].record
    IN  /\ r.id \in DOMAIN origin
        /\ fs[1].at = "channel" => origin[r.id].kind = "channel"
        /\ fs[1].at = "stdlib" =>
               /\ origin[r.id].kind # "channel"
               /\ r.name = origin[r.id].name /\ r.number = origin[r.id].number

\* The handler g was not given r yet, nor has r come back through it.
Ungiven(r, g) == \A i \in DOMAIN written : written[i].id = r.id =>
    /\ ~(written[i].by = g /\ written[i].through = r.through)
    /\ r.marked \/ ~(r.through \cup {g} \subseteq written[i].through)

\* The capture has not put the record on a channel yet.
Uncaptured(id) ==
    /\ \A i \in DOMAIN added : added[i].id # id
    /\ \A i \in DOMAIN written : written[i].id = id => CaptureHandler \notin written[i].through

Fresh(fs) == \A k \in DOMAIN fs :
    /\ fs[k].at \in Passing => \A g \in Range(fs[k].left) : Ungiven(fs[k].record, g)
    /\ fs[k].at \in {"look", "make"} => Uncaptured(fs[k].record.id)
    /\ k = 1 /\ fs[1].at = "stdlib" /\ CaptureHandler \in Range(fs[1].left) =>
           Uncaptured(fs[k].record.id)

Emits(fs) == \E k \in DOMAIN fs : fs[k].at \in {"look", "make", "added"}

\* The records of the logger n are for a channel of their own, which is to be made.
ToMake(n) == fromName /\ Matching(n) = {} /\ n \notin byName

Making(fs) == \A k \in DOMAIN fs : fs[k].at = "make" => ToMake(fs[k].record.name)

\* Threads have records of their own, and one of them at most is in emit().
AloneInEmit == \A t, u \in Threads : t # u =>
    /\ frames[t] # <<>> /\ frames[u] # <<>> => frames[t][1].record.id # frames[u][1].record.id
    /\ ~(Emits(frames[t]) /\ Emits(frames[u]))

Origins == [kind : {"stdlib", "adapted", "channel"}, name : Names, level : Levels, number : Int]

OriginOK ==
    /\ origin \in Seq(Origins)
    /\ \A i \in DOMAIN origin :
           origin[i].kind = "adapted" => origin[i].number = ToStdlib[origin[i].level]

NamedOK ==
    /\ named \in Seq(Names) /\ IsInjective(named) /\ byName = Range(named)

Narrow(T) == \E h \in Relays \cup {CaptureHandler} : T \subseteq {h, CaptureHandler}

WrittenFits(w) ==
    /\ w.id \in DOMAIN origin /\ Narrow(w.through)
    /\ origin[w.id].kind = "channel" => CaptureHandler \notin w.through
    /\ origin[w.id].kind # "channel" /\ w.by \in DOMAIN MinLevel =>
           w.level = FromStdlib(origin[w.id].number)

Entries == [id : Nat, by : DOMAIN Threshold \cup DOMAIN MinLevel, level : Levels,
            through : SUBSET Passers]

WrittenOK ==
    /\ written \in Seq(Entries)
    /\ \A i \in DOMAIN written : WrittenFits(written[i])
    /\ \A i, j \in DOMAIN written :
           written[i].id = written[j].id /\ written[i].by = written[j].by
           /\ written[i].through = written[j].through => i = j

Additions == [id : Nat, channel : DOMAIN Stack \cup Names]

AddedFits(d) ==
    /\ d.id \in DOMAIN origin /\ origin[d.id].kind # "channel"
    /\ LET n == origin[d.id].name
       IN  IF Matching(n) = {} THEN d.channel = IF fromName THEN n ELSE Base
           ELSE d.channel \in Matching(n) /\ \A m \in Matching(n) : m \in Dotted[d.channel]

AddedOK ==
    /\ added \in Seq(Additions)
    /\ \A i \in DOMAIN added : AddedFits(added[i])
    /\ \A i, j \in DOMAIN added : added[i].id = added[j].id => i = j

ThrownOK == \A i \in thrown : i \in DOMAIN origin /\ origin[i].kind = "channel"

StackOK(fs) == Formed(fs) /\ Original(fs) /\ Fresh(fs) /\ Making(fs)

BridgeInv ==
    /\ fromName \in BOOLEAN /\ DOMAIN frames = Threads
    /\ \A fs \in Range(frames) : StackOK(fs)
    /\ AloneInEmit /\ OriginOK /\ NamedOK /\ WrittenOK /\ AddedOK /\ ThrownOK

-----------------------------------------------------------------------------
(* Levels, and routes *)

LEMMA LevelsAre ==
    /\ ToStdlib = [l \in Levels |-> ToStdlib[l]]
    /\ ToStdlib[DEBUG] = 10 /\ ToStdlib[INFO] = 20 /\ ToStdlib[NOTICE] = 25 /\ ToStdlib[WARNING] = 30
    /\ ToStdlib[ERROR] = 40 /\ ToStdlib[CRITICAL] = 50 /\ ToStdlib[ALERT] = 55 /\ ToStdlib[EMERGENCY] = 60
BY DEF ToStdlib, Levels, DEBUG, INFO, NOTICE, WARNING, ERROR, CRITICAL, ALERT, EMERGENCY

\* The bounds of the levels, one after another.
LEMMA FromStdlibIs ==
    ASSUME NEW number \in Int
    PROVE  FromStdlib(number) =
               IF number < 20 THEN DEBUG ELSE IF number < 25 THEN INFO
               ELSE IF number < 30 THEN NOTICE ELSE IF number < 40 THEN WARNING
               ELSE IF number < 50 THEN ERROR ELSE IF number < 55 THEN CRITICAL
               ELSE IF number < 60 THEN ALERT ELSE EMERGENCY
<1>. DEFINE over(i) == CASE i = 1 -> 20 [] i = 2 -> 25 [] i = 3 -> 30 [] i = 4 -> 40
                         [] i = 5 -> 50 [] i = 6 -> 55 [] i = 7 -> 60
            lower == {i \in 1 .. 7 : Under(number, Below[i][1])}
            first(i) == i \in lower /\ \A j \in lower : i <= j
<1>1. \A i \in 1 .. 7 : Under(number, Below[i][1]) <=> number < over(i)
    BY LevelsAre DEF Under, Below
<1>2. lower = {i \in 1 .. 7 : number < over(i)}
    BY <1>1
<1>3. \A i \in lower : FromStdlib(number) = Below[CHOOSE j \in lower : \A k \in lower : j <= k][2]
    BY DEF FromStdlib
<1>4. lower = {} => FromStdlib(number) = EMERGENCY
    BY DEF FromStdlib
<1>. HIDE DEF lower
<1>5. ASSUME NEW i \in 1 .. 7, first(i) PROVE FromStdlib(number) = Below[i][2]
    <2>1. \A j \in lower : (\A k \in lower : j <= k) => j = i
        <3>1. \A j \in lower : j \in 1 .. 7
            BY <1>2
        <3>. QED
            BY <1>5, <3>1
    <2>2. (CHOOSE j \in lower : \A k \in lower : j <= k) = i
        BY <1>5, <2>1, Zenon
    <2>. QED
        BY <1>3, <1>5, <2>2, Zenon
<1>6. /\ number < 20 => first(1)
      /\ 20 <= number /\ number < 25 => first(2)
      /\ 25 <= number /\ number < 30 => first(3)
      /\ 30 <= number /\ number < 40 => first(4)
      /\ 40 <= number /\ number < 50 => first(5)
      /\ 50 <= number /\ number < 55 => first(6)
      /\ 55 <= number /\ number < 60 => first(7)
      /\ 60 <= number => lower = {}
    BY <1>2
<1>. HIDE DEF first, over
<1>7. /\ Below[1][2] = DEBUG /\ Below[2][2] = INFO /\ Below[3][2] = NOTICE /\ Below[4][2] = WARNING
      /\ Below[5][2] = ERROR /\ Below[6][2] = CRITICAL /\ Below[7][2] = ALERT
    BY DEF Below
<1>. QED
    BY <1>4, <1>5, <1>6, <1>7

LEMMA FromStdlibTyped == ASSUME NEW number \in Int PROVE FromStdlib(number) \in Levels
BY FromStdlibIs DEF Levels

\* What is asked for at a level comes back at it.
LEMMA ThereAndBack == ASSUME NEW l \in Levels PROVE ToStdlib[l] \in Int /\ FromStdlib(ToStdlib[l]) = l
<1>1. ToStdlib[l] \in Int
    BY LevelsAre DEF Levels
<1>. QED
    BY <1>1, LevelsAre, FromStdlibIs DEF Levels, DEBUG, INFO, NOTICE, WARNING, ERROR, CRITICAL, ALERT, EMERGENCY

\* A number reaches a level where it reaches the number of the level.
LEMMA SameOrder ==
    ASSUME NEW number \in Int, NEW l \in Levels \ {DEBUG}
    PROVE  number >= ToStdlib[l] <=> FromStdlib(number) >= l
BY LevelsAre, FromStdlibIs DEF Levels, DEBUG, INFO, NOTICE, WARNING, ERROR, CRITICAL, ALERT, EMERGENCY

\* The first route that matches is the longest, and begins with all the others.
LEMMA RouteIs ==
    ASSUME BridgeAssumption, NEW n \in Names, Matching(n) # {}
    PROVE  Route(n) \in Matching(n) /\ \A m \in Matching(n) : m \in Dotted[Route(n)]
<1>. DEFINE M == Matching(n)
            Over(m) == {k \in M : NameLength[k] > NameLength[m]}
            less == StrictSubsetOrdering(M)
<1>1. /\ M \subseteq Dotted[n] /\ M \subseteq Names /\ IsFiniteSet(M)
      /\ NameLength \in [Names -> Nat]
      /\ \A m, k \in M : m # k => NameLength[m] # NameLength[k]
      /\ \A m, k \in M : m # k /\ NameLength[m] < NameLength[k] => m \in Dotted[k]
      /\ \A m \in M : m \in Dotted[m]
    <2>1. IsFiniteSet(M)
        <3>1. IsFiniteSet(Dotted[n]) /\ M \in SUBSET Dotted[n]
            BY DEF BridgeAssumption, Matching
        <3>. HIDE DEF M
        <3>. QED
            BY <3>1, FS_Subset
    <2>. QED
        BY <2>1 DEF BridgeAssumption, Matching
<1>. HIDE DEF M
<1>2. IsWellFoundedOn(less, FiniteSubsetsOf(M))
    BY FS_StrictSubsetOrderingWellFounded
<1>3. PICK m \in M : \A k \in M : <<Over(k), Over(m)>> \notin less
    <2>. DEFINE all == {Over(k) : k \in M}
    <2>1. all \subseteq FiniteSubsetsOf(M) /\ all # {}
        <3>1. \A k \in M : Over(k) \in SUBSET M /\ IsFiniteSet(Over(k))
            <4>. SUFFICES ASSUME NEW k \in M PROVE Over(k) \in SUBSET M /\ IsFiniteSet(Over(k))
                OBVIOUS
            <4>1. Over(k) \in SUBSET M
                OBVIOUS
            <4>. HIDE DEF Over
            <4>. QED
                BY <1>1, <4>1, FS_Subset
        <3>2. M # {}
            BY DEF M
        <3>. QED
            BY <3>1, <3>2 DEF FiniteSubsetsOf
    <2>. HIDE DEF all, less
    <2>2. PICK o \in all : \A p \in all : <<p, o>> \notin less
        BY <1>2, <2>1, WFMin
    <2>. QED
        BY <2>2 DEF all
<1>4. \A k \in M \ {m} : Longer(m, k)
    <2>. SUFFICES ASSUME NEW k \in M, k # m, ~(NameLength[m] > NameLength[k]) PROVE FALSE
        BY DEF Longer
    <2>1. NameLength[k] > NameLength[m]
        BY <1>1
    <2>2. Over(k) \subseteq Over(m) /\ k \in Over(m) /\ k \notin Over(k)
        BY <1>1, <2>1
    <2>3. <<Over(k), Over(m)>> \in less
        BY <2>2 DEF StrictSubsetOrdering
    <2>. QED
        BY <1>3, <2>3
<1>5. Route(n) \in M /\ \A k \in M \ {Route(n)} : Longer(Route(n), k)
    <2>1. \E j \in M : \A k \in M \ {j} : Longer(j, k)
        BY <1>4
    <2>. QED
        BY <2>1, Zenon DEF Route, M
<1>6. \A k \in M : k \in Dotted[Route(n)]
    <2>. SUFFICES ASSUME NEW k \in M PROVE k \in Dotted[Route(n)]
        OBVIOUS
    <2>1. CASE k = Route(n)
        BY <1>1, <1>5, <2>1
    <2>2. CASE k # Route(n)
        <3>1. NameLength[k] < NameLength[Route(n)]
            BY <1>1, <1>5, <2>2 DEF Longer
        <3>. QED
            BY <1>1, <1>5, <2>2, <3>1
    <2>. QED
        BY <2>1, <2>2
<1>. QED
    BY <1>5, <1>6 DEF M

-----------------------------------------------------------------------------
(* The frames of a thread: some are left, the last is another, one is put on *)

LEMMA PushIs ==
    ASSUME NEW S, NEW fs \in Seq(S), NEW x \in S
    PROVE  /\ Len(fs) \in Nat /\ DOMAIN fs = 1 .. Len(fs)
           /\ Append(fs, x) \in Seq(S) /\ Append(fs, x) # <<>>
           /\ Len(Append(fs, x)) = Len(fs) + 1 /\ DOMAIN Append(fs, x) = 1 .. Len(fs) + 1
           /\ Append(fs, x)[Len(fs) + 1] = x
           /\ \A k \in 1 .. Len(fs) : Append(fs, x)[k] = fs[k]
OBVIOUS

LEMMA ThirdIs ==
    ASSUME NEW S, NEW fs \in Seq(S), Len(fs) = 2, NEW x \in S
    PROVE  /\ Append(fs, x) \in Seq(S) /\ DOMAIN Append(fs, x) = 1 .. 3
           /\ Append(fs, x)[1] = fs[1] /\ Append(fs, x)[2] = fs[2] /\ Append(fs, x)[3] = x
<1>1. /\ Append(fs, x) \in Seq(S)
      /\ DOMAIN Append(fs, x) = 1 .. Len(fs) + 1 /\ Append(fs, x)[Len(fs) + 1] = x
      /\ \A k \in 1 .. Len(fs) : Append(fs, x)[k] = fs[k]
    <2>1. fs \in Seq(S) /\ x \in S
        OBVIOUS
    <2>. QED
        BY ONLY <2>1, PushIs
<1>4. Len(fs) + 1 = 3 /\ 1 \in 1 .. Len(fs) /\ 2 \in 1 .. Len(fs)
    OBVIOUS
<1>5. DOMAIN Append(fs, x) = 1 .. 3 /\ Append(fs, x)[3] = x
    BY ONLY <1>1, <1>4, Zenon
<1>. QED
    BY ONLY <1>1, <1>4, <1>5, Zenon

LEMMA FrontIs ==
    ASSUME NEW S, NEW fs \in Seq(S), fs # <<>>
    PROVE  /\ Len(fs) \in Nat \ {0} /\ DOMAIN fs = 1 .. Len(fs) /\ Len(fs) \in DOMAIN fs
           /\ Last(fs) = fs[Len(fs)] /\ Last(fs) \in S
           /\ Front(fs) = SubSeq(fs, 1, Len(fs) - 1) /\ Front(fs) \in Seq(S)
           /\ Len(Front(fs)) = Len(fs) - 1
           /\ \A k \in 1 .. Len(fs) - 1 : Front(fs)[k] = fs[k]
           /\ \A x \in S :
                  /\ Append(Front(fs), x) \in Seq(S) /\ Len(Append(Front(fs), x)) = Len(fs)
                  /\ Append(Front(fs), x)[Len(fs)] = x /\ Append(Front(fs), x) # <<>>
                  /\ \A k \in 1 .. Len(fs) - 1 : Append(Front(fs), x)[k] = fs[k]
           /\ \A x, y \in S : Front(fs) \o <<x, y>> = Append(Append(Front(fs), x), y)
<1>1. Len(fs) \in Nat \ {0} /\ DOMAIN fs = 1 .. Len(fs) /\ Len(fs) \in DOMAIN fs
    OBVIOUS
<1>2. Last(fs) = fs[Len(fs)] /\ Last(fs) \in S
    BY <1>1 DEF Last
<1>3. /\ Front(fs) = SubSeq(fs, 1, Len(fs) - 1) /\ Front(fs) \in Seq(S)
      /\ Len(Front(fs)) = Len(fs) - 1 /\ \A k \in 1 .. Len(fs) - 1 : Front(fs)[k] = fs[k]
    BY <1>1 DEF Front
<1>4. PICK b \in Seq(S) : b = Front(fs)
    BY <1>3
<1>5. Len(b) \in Nat /\ Len(fs) = Len(b) + 1 /\ \A k \in 1 .. Len(b) : b[k] = fs[k]
    BY <1>1, <1>3, <1>4
<1>6. ASSUME NEW x \in S
      PROVE  /\ Append(b, x) \in Seq(S) /\ Len(Append(b, x)) = Len(fs)
             /\ Append(b, x)[Len(fs)] = x /\ Append(b, x) # <<>>
             /\ \A k \in 1 .. Len(fs) - 1 : Append(b, x)[k] = fs[k]
    <2>1. /\ Append(b, x) \in Seq(S) /\ Append(b, x) # <<>> /\ Len(b) \in Nat
          /\ Len(Append(b, x)) = Len(b) + 1 /\ Append(b, x)[Len(b) + 1] = x
          /\ \A k \in 1 .. Len(b) : Append(b, x)[k] = b[k]
        BY <1>6, <1>5, PushIs
    <2>. QED
        BY <1>5, <2>1
<1>7. ASSUME NEW x \in S, NEW y \in S PROVE b \o <<x, y>> = Append(Append(b, x), y)
    <2>1. <<x, y>> \in Seq(S) /\ Len(<<x, y>>) = 2 /\ <<x, y>>[1] = x /\ <<x, y>>[2] = y
        BY <1>7
    <2>2. b \in Seq(S) /\ Append(b, x) \in Seq(S)
        BY <1>7, <1>5, PushIs
    <2>3. /\ b \o <<x, y>> \in Seq(S) /\ Len(b \o <<x, y>>) = Len(b) + 2
          /\ \A i \in 1 .. Len(b) + 2 :
                 (b \o <<x, y>>)[i] = IF i <= Len(b) THEN b[i] ELSE <<x, y>>[i - Len(b)]
        BY <2>1, <2>2, ConcatProperties
    <2>4. /\ Len(Append(b, x)) = Len(b) + 1 /\ Append(b, x)[Len(b) + 1] = x
          /\ \A k \in 1 .. Len(b) : Append(b, x)[k] = b[k]
        BY <1>7, <1>5, PushIs
    <2>. DEFINE c == Append(b, x)
    <2>. HIDE DEF c
    <2>5. /\ Append(c, y) \in Seq(S) /\ Len(Append(c, y)) = Len(c) + 1 /\ Append(c, y)[Len(c) + 1] = y
          /\ \A k \in 1 .. Len(c) : Append(c, y)[k] = c[k]
        BY <1>7, <2>2, PushIs DEF c
    <2>6. Len(b) \in Nat
        BY <1>5
    <2>7. ASSUME NEW i \in 1 .. Len(b) + 2 PROVE (b \o <<x, y>>)[i] = Append(c, y)[i]
        BY <2>1, <2>3, <2>4, <2>5, <2>6, <2>7 DEF c
    <2>8. Len(Append(c, y)) = Len(b) + 2
        BY <2>4, <2>5, <2>6 DEF c
    <2>. QED
        BY <2>3, <2>5, <2>7, <2>8, SeqEqual DEF c
<1>. QED
    BY <1>1, <1>2, <1>3, <1>6, <1>7, <1>4

LEMMA CutIs ==
    ASSUME NEW S, NEW fs \in Seq(S), NEW n \in 0 .. Len(fs)
    PROVE  /\ SubSeq(fs, 1, n) \in Seq(S) /\ Len(SubSeq(fs, 1, n)) = n
           /\ DOMAIN SubSeq(fs, 1, n) = 1 .. n /\ DOMAIN fs = 1 .. Len(fs) /\ Len(fs) \in Nat
           /\ \A k \in 1 .. n : SubSeq(fs, 1, n)[k] = fs[k]
OBVIOUS

LEMMA FrameIs ==
    ASSUME NEW f \in Frame
    PROVE  /\ f.record \in CrossingRecord /\ f.at \in Passing \cup {"look", "make", "added"}
           /\ f.at = "stdlib" => f.left \in Seq(DOMAIN Threshold)
           /\ f.at = "channel" => f.left \in Seq(DOMAIN MinLevel)
           /\ f.at \in Passing => f = [at |-> f.at, record |-> f.record, left |-> f.left]
           /\ f.at \notin Passing => f = [at |-> f.at, record |-> f.record]
BY DEF Frame, Passing

\* What x takes the place of: a record that went on, or the next step of emit().
Follows(f, x) ==
    /\ x \in Frame /\ x.record = f.record
    /\ \/ /\ f.at \in Passing /\ x.at = f.at
          /\ IsInjective(x.left) /\ Range(x.left) \subseteq Range(f.left)
       \/ f.at \in {"look", "make"} /\ x.at \in {"make", "added"}

LEMMA FormedCut ==
    ASSUME NEW fs, Formed(fs), NEW n \in 0 .. Len(fs)
    PROVE  Formed(SubSeq(fs, 1, n))
<1>. DEFINE gs == SubSeq(fs, 1, n)
<1>1. /\ gs \in Seq(Frame) /\ Len(gs) = n /\ DOMAIN gs = 1 .. n
      /\ DOMAIN fs = 1 .. Len(fs) /\ Len(fs) \in Nat /\ \A k \in 1 .. n : gs[k] = fs[k]
    BY CutIs DEF Formed
<1>. HIDE DEF gs
<1>2. ASSUME NEW k \in DOMAIN gs PROVE Placed(gs, k)
    <2>1. k \in DOMAIN fs /\ Placed(fs, k) /\ gs[k] = fs[k] /\ gs[1] = fs[1]
        BY <1>1, <1>2 DEF Formed
    <2>2. k > 1 => gs[k - 1] = fs[k - 1]
        BY <1>1, <1>2
    <2>3. k = 3 => gs[2] = fs[2]
        BY <1>1, <1>2
    <2>4. k = 2 /\ Len(fs) = 2 => Len(gs) = 2
        BY <1>1, <1>2
    <2>. QED
        BY <2>1, <2>2, <2>3, <2>4 DEF Placed
<1>3. Apart(gs)
    BY <1>1 DEF Formed, Apart
<1>. QED
    BY <1>1, <1>2, <1>3 DEF Formed, gs

LEMMA FormedReplaced ==
    ASSUME NEW fs, Formed(fs), fs # <<>>, NEW x, Follows(Last(fs), x)
    PROVE  Formed(Append(Front(fs), x))
<1>. DEFINE gs == Append(Front(fs), x)
            n == Len(fs)
<1>1. /\ n \in Nat \ {0} /\ DOMAIN fs = 1 .. n /\ Last(fs) = fs[n] /\ fs \in Seq(Frame)
      /\ gs \in Seq(Frame) /\ Len(gs) = n /\ DOMAIN gs = 1 .. n /\ gs[n] = x
      /\ \A k \in 1 .. n - 1 : gs[k] = fs[k]
    BY FrontIs DEF Formed, Follows
<1>. HIDE DEF gs
<1>2. \A k \in 1 .. n : gs[k].record = fs[k].record /\ fs[k] \in Frame /\ gs[k] \in Frame
    BY <1>1 DEF Follows
<1>3. \A k \in 1 .. n : gs[k].at \in Passing =>
          fs[k].at = gs[k].at /\ Range(gs[k].left) \subseteq Range(fs[k].left) /\ (IsInjective(fs[k].left) => IsInjective(gs[k].left))
    BY <1>1 DEF Follows, Passing
<1>4. \A k \in 1 .. n : fs[k].at \in Passing => gs[k].at = fs[k].at
    BY <1>1 DEF Follows, Passing
<1>5. ASSUME NEW k \in DOMAIN gs PROVE Placed(gs, k)
    <2>1. k \in 1 .. n /\ Placed(fs, k) /\ (k > 1 => k - 1 \in 1 .. n - 1 /\ 1 \in 1 .. n - 1)
        BY <1>1, <1>5 DEF Formed
    <2>2. gs[k].record.id = gs[1].record.id /\ (gs[k].at \in Passing => IsInjective(gs[k].left))
        BY <1>1, <1>2, <1>3, <2>1 DEF Placed
    <2>3. CASE gs[k].at = "stdlib"
        <3>1. fs[k].at = "stdlib"
            BY <1>3, <2>1, <2>3 DEF Passing
        <3>. QED
            BY <1>1, <1>2, <2>1, <2>2, <2>3, <3>1 DEF Placed
    <2>4. CASE gs[k].at = "channel"
        <3>1. fs[k].at = "channel"
            BY <1>3, <2>1, <2>4 DEF Passing
        <3>2. k = 3 => gs[2] = fs[2]
            BY <1>1, <2>1
        <3>. QED
            BY <1>1, <1>2, <2>1, <2>2, <2>4, <3>1, <3>2 DEF Placed
    <2>5. CASE gs[k].at \in {"look", "make", "added"}
        <3>1. fs[k].at \in {"look", "make", "added"}
            BY <1>1, <2>1, <2>5 DEF Follows, Passing
        <3>2. k = 2 /\ gs[1] = fs[1]
            BY <1>1, <2>1, <3>1 DEF Placed
        <3>3. gs[k].at # "added" => Len(gs) = 2
            <4>1. gs[k].at # "added" => fs[k].at # "added"
                BY <1>1, <2>1, <2>5 DEF Follows, Passing
            <4>. QED
                BY <1>1, <2>1, <3>1, <4>1 DEF Placed
        <3>. QED
            BY <1>2, <2>1, <2>2, <2>5, <3>1, <3>2, <3>3 DEF Placed
    <2>6. gs[k].at \in Passing \cup {"look", "make", "added"}
        BY <1>2, <2>1, FrameIs
    <2>. QED
        BY <2>3, <2>4, <2>5, <2>6 DEF Passing
<1>6. Apart(gs)
    <2>. SUFFICES ASSUME NEW k \in 1 .. n, NEW m \in 1 .. n, k < m, gs[k].at \in Passing, gs[m].at \in Passing
                  PROVE  /\ gs[k].record.through # gs[m].record.through
                         /\ Range(gs[k].left) \cap gs[m].record.through = {}
        BY <1>1 DEF Apart
    <2>1. fs[k].at \in Passing /\ fs[m].at \in Passing
        BY <1>3
    <2>2. /\ fs[k].record.through # fs[m].record.through
          /\ Range(fs[k].left) \cap fs[m].record.through = {}
        BY <1>1, <2>1 DEF Formed, Apart
    <2>. QED
        BY <1>2, <1>3, <2>2
<1>. QED
    BY <1>1, <1>5, <1>6 DEF Formed, gs

LEMMA FormedPushed ==
    ASSUME NEW fs, Formed(fs), fs # <<>>, Last(fs).at \notin {"look", "make"}, NEW x \in Frame,
           Placed(Append(fs, x), Len(fs) + 1),
           x.at \in Passing => \A k \in DOMAIN fs : fs[k].at \in Passing =>
               /\ fs[k].record.through # x.record.through
               /\ Range(fs[k].left) \cap x.record.through = {}
    PROVE  Formed(Append(fs, x))
<1>. DEFINE gs == Append(fs, x)
            n == Len(fs)
<1>1. /\ n \in Nat \ {0} /\ DOMAIN fs = 1 .. n /\ Last(fs) = fs[n] /\ fs \in Seq(Frame)
      /\ gs \in Seq(Frame) /\ Len(gs) = n + 1 /\ DOMAIN gs = 1 .. n + 1 /\ gs[n + 1] = x
      /\ \A k \in 1 .. n : gs[k] = fs[k]
    <2>1. fs \in Seq(Frame) /\ x \in Frame /\ fs # <<>>
        BY DEF Formed
    <2>2. n \in Nat \ {0} /\ DOMAIN fs = 1 .. n /\ Last(fs) = fs[n]
        BY <2>1, FrontIs
    <2>3. /\ gs \in Seq(Frame) /\ Len(gs) = n + 1 /\ DOMAIN gs = 1 .. n + 1 /\ gs[n + 1] = x
          /\ \A k \in 1 .. n : gs[k] = fs[k]
        BY <2>1, PushIs
    <2>. QED
        BY <2>1, <2>2, <2>3
<1>2. Placed(gs, n + 1)
    OBVIOUS
<1>. HIDE DEF gs
<1>3. ASSUME NEW k \in 1 .. n PROVE Placed(gs, k)
    <2>1. Placed(fs, k) /\ gs[k] = fs[k] /\ gs[1] = fs[1] /\ (k > 1 => gs[k - 1] = fs[k - 1])
          /\ (k = 3 => gs[2] = fs[2])
        BY <1>1 DEF Formed
    <2>2. fs[k].at \notin {"look", "make"}
        <3>1. fs[k].at \in {"look", "make"} => fs[k].at # "added" /\ fs[k].at \in {"look", "make", "added"}
            OBVIOUS
        <3>2. fs[k].at \in {"look", "make"} => k = 2 /\ n = 2
            BY <2>1, <3>1, Zenon DEF Placed
        <3>. QED
            BY <1>1, <3>2
    <2>. QED
        BY <2>1, <2>2 DEF Placed
<1>4. Apart(gs)
    <2>. SUFFICES ASSUME NEW k \in 1 .. n + 1, NEW m \in 1 .. n + 1, k < m,
                         gs[k].at \in Passing, gs[m].at \in Passing
                  PROVE  /\ gs[k].record.through # gs[m].record.through
                         /\ Range(gs[k].left) \cap gs[m].record.through = {}
        BY <1>1 DEF Apart
    <2>1. k \in 1 .. n /\ gs[k] = fs[k]
        BY <1>1
    <2>2. CASE m = n + 1
        BY <1>1, <2>1, <2>2
    <2>3. CASE m \in 1 .. n
        BY <1>1, <2>1, <2>3 DEF Formed, Apart
    <2>. QED
        BY <2>2, <2>3
<1>. QED
    BY <1>1, <1>2, <1>3, <1>4 DEF Formed, gs

\* What is true of the frames is true of those that are left,
LEMMA StackCut ==
    ASSUME NEW fs, StackOK(fs), NEW n \in 0 .. Len(fs)
    PROVE  StackOK(SubSeq(fs, 1, n))
<1>. DEFINE gs == SubSeq(fs, 1, n)
<1>1. /\ Len(gs) = n /\ DOMAIN gs = 1 .. n /\ DOMAIN fs = 1 .. Len(fs) /\ Len(fs) \in Nat
      /\ \A k \in 1 .. n : gs[k] = fs[k]
    BY CutIs DEF StackOK, Formed
<1>2. Formed(gs)
    BY FormedCut DEF StackOK
<1>. HIDE DEF gs
<1>3. gs # <<>> => 1 \in DOMAIN gs /\ fs # <<>> /\ gs[1] = fs[1]
    <2>1. gs \in Seq(Frame) /\ fs \in Seq(Frame)
        BY <1>2 DEF StackOK, Formed
    <2>2. gs # <<>> => n > 0
        BY <1>1, <2>1, EmptySeq
    <2>. QED
        BY <1>1, <2>1, <2>2
<1>4. Original(gs)
    BY <1>3 DEF StackOK, Original
<1>5. \A k \in DOMAIN gs : k \in DOMAIN fs /\ gs[k] = fs[k]
    BY <1>1
<1>6. Fresh(gs) /\ Making(gs)
    BY <1>5 DEF StackOK, Fresh, Making
<1>. QED
    BY <1>2, <1>4, <1>6 DEF StackOK, gs

\* where another frame takes the place of the last,
LEMMA StackReplaced ==
    ASSUME NEW fs, StackOK(fs), fs # <<>>, NEW x, Follows(Last(fs), x),
           x.at = "make" => ToMake(x.record.name)
    PROVE  StackOK(Append(Front(fs), x)) /\ Append(Front(fs), x) # <<>>
<1>. DEFINE gs == Append(Front(fs), x)
            n == Len(fs)
<1>1. /\ n \in Nat \ {0} /\ DOMAIN fs = 1 .. n /\ Last(fs) = fs[n] /\ fs \in Seq(Frame)
      /\ gs \in Seq(Frame) /\ Len(gs) = n /\ DOMAIN gs = 1 .. n /\ gs[n] = x /\ gs # <<>>
      /\ \A k \in 1 .. n - 1 : gs[k] = fs[k]
    BY FrontIs DEF StackOK, Formed, Follows
<1>2. Formed(gs)
    BY FormedReplaced DEF StackOK
<1>. HIDE DEF gs
<1>3. \A k \in 1 .. n : gs[k].record = fs[k].record
    BY <1>1 DEF Follows
<1>4. \A k \in 1 .. n : gs[k].at \in Passing =>
          fs[k].at = gs[k].at /\ Range(gs[k].left) \subseteq Range(fs[k].left)
    BY <1>1 DEF Follows, Passing
<1>5. 1 \in 1 .. n /\ gs[1].at \in Passing
    <2>1. 1 \in DOMAIN gs /\ Placed(gs, 1) /\ gs[1] \in Frame
        BY <1>1, <1>2 DEF Formed
    <2>. QED
        BY <1>1, <2>1, FrameIs DEF Placed
<1>6. gs[1].at = fs[1].at /\ gs[1].record = fs[1].record
    BY <1>3, <1>4, <1>5
<1>7. Original(gs)
    BY <1>6 DEF StackOK, Original
<1>8. ASSUME NEW k \in 1 .. n, gs[k].at \in {"look", "make"} PROVE Uncaptured(gs[k].record.id)
    <2>1. fs[k].at \in {"look", "make"}
        BY <1>1, <1>8 DEF Follows, Passing
    <2>. QED
        BY <1>1, <1>3, <2>1 DEF StackOK, Fresh
<1>9. Fresh(gs)
    <2>1. ASSUME NEW k \in 1 .. n, gs[k].at \in Passing, NEW g \in Range(gs[k].left)
          PROVE  Ungiven(gs[k].record, g)
        BY <1>1, <1>3, <1>4, <2>1 DEF StackOK, Fresh
    <2>2. gs[1].at = "stdlib" /\ CaptureHandler \in Range(gs[1].left) => Uncaptured(gs[1].record.id)
        BY <1>1, <1>4, <1>5, <1>6 DEF StackOK, Fresh
    <2>. QED
        BY <1>1, <1>8, <2>1, <2>2 DEF Fresh
<1>10. Making(gs)
    BY <1>1 DEF StackOK, Making
<1>. QED
    BY <1>1, <1>2, <1>7, <1>9, <1>10 DEF StackOK, gs

\* and where one is put on.
LEMMA StackPushed ==
    ASSUME NEW fs, StackOK(fs), fs # <<>>, NEW x \in Frame, Formed(Append(fs, x)), x.at # "make",
           x.at \in Passing => \A g \in Range(x.left) : Ungiven(x.record, g),
           x.at = "look" => Uncaptured(x.record.id)
    PROVE  StackOK(Append(fs, x)) /\ Append(fs, x) # <<>>
<1>. DEFINE gs == Append(fs, x)
            n == Len(fs)
<1>1. n \in Nat \ {0} /\ DOMAIN fs = 1 .. n
    BY FrontIs DEF StackOK, Formed
<1>2. /\ gs # <<>> /\ DOMAIN gs = 1 .. n + 1 /\ gs[n + 1] = x
      /\ \A k \in 1 .. n : gs[k] = fs[k]
    BY PushIs DEF StackOK, Formed
<1>. HIDE DEF gs
<1>3. gs[1] = fs[1] /\ 1 # n + 1
    BY <1>1, <1>2
<1>4. Original(gs)
    BY <1>3 DEF StackOK, Original
<1>5. ASSUME NEW k \in 1 .. n + 1
      PROVE  /\ gs[k].at \in Passing => \A g \in Range(gs[k].left) : Ungiven(gs[k].record, g)
             /\ gs[k].at \in {"look", "make"} => Uncaptured(gs[k].record.id)
             /\ k = 1 /\ gs[1].at = "stdlib" /\ CaptureHandler \in Range(gs[1].left) =>
                    Uncaptured(gs[k].record.id)
             /\ gs[k].at = "make" => ToMake(gs[k].record.name)
    <2>1. CASE k = n + 1
        BY <1>2, <1>3, <2>1
    <2>2. CASE k \in 1 .. n
        BY <1>1, <1>2, <1>3, <2>2 DEF StackOK, Fresh, Making
    <2>. QED
        BY <1>1, <2>1, <2>2
<1>6. Fresh(gs) /\ Making(gs)
    BY <1>2, <1>5 DEF Fresh, Making
<1>. QED
    BY <1>2, <1>4, <1>6 DEF StackOK, gs

-----------------------------------------------------------------------------
(* What is logged, written and added goes by *)

\* A history goes on by one or none.
Grows(h, hNext, S) == hNext = h \/ \E e \in S : hNext = Append(h, e)

LEMMA GrowsIs ==
    ASSUME NEW S, NEW h \in Seq(S), NEW g, Grows(h, g, S)
    PROVE  /\ g \in Seq(S) /\ DOMAIN h \subseteq DOMAIN g /\ \A i \in DOMAIN h : g[i] = h[i]
<1>1. CASE g = h
    BY <1>1
<1>2. ASSUME NEW e \in S, g = Append(h, e)
      PROVE  g \in Seq(S) /\ DOMAIN h \subseteq DOMAIN g /\ \A i \in DOMAIN h : g[i] = h[i]
    BY <1>2, PushIs
<1>. QED
    BY <1>1, <1>2 DEF Grows

\* The frames of a thread stay as they were where the records are another's.
LEMMA StackKept ==
    ASSUME NEW fs, StackOK(fs), NEW id, fs # <<>> => fs[1].record.id # id,
           origin \in Seq(Origins), written \in Seq(Entries), added \in Seq(Additions),
           Grows(origin, origin', Origins),
           written' = written \/ \E w \in Entries : w.id = id /\ written' = Append(written, w),
           added' = added \/ \E d \in Additions : d.id = id /\ added' = Append(added, d),
           byName' = byName \/ ~Emits(fs), UNCHANGED fromName
    PROVE  StackOK(fs)'
<1>1. Formed(fs)
    BY DEF StackOK
<1>2. Original(fs)'
    <2>1. DOMAIN origin \subseteq DOMAIN origin' /\ \A i \in DOMAIN origin : origin'[i] = origin[i]
        BY GrowsIs
    <2>. QED
        BY <2>1 DEF StackOK, Original
<1>3. \A i \in DOMAIN written' : (i \in DOMAIN written /\ written'[i] = written[i]) \/ written'[i].id = id
    <2>1. ASSUME NEW w \in Entries, w.id = id, written' = Append(written, w)
          PROVE  \A i \in DOMAIN written' :
                     (i \in DOMAIN written /\ written'[i] = written[i]) \/ written'[i].id = id
        BY <2>1, PushIs
    <2>. QED
        BY <2>1
<1>4. \A i \in DOMAIN added' : (i \in DOMAIN added /\ added'[i] = added[i]) \/ added'[i].id = id
    <2>1. ASSUME NEW d \in Additions, d.id = id, added' = Append(added, d)
          PROVE  \A i \in DOMAIN added' :
                     (i \in DOMAIN added /\ added'[i] = added[i]) \/ added'[i].id = id
        BY <2>1, PushIs
    <2>. QED
        BY <2>1
<1>5. \A k \in DOMAIN fs : fs[k].record.id # id
    <2>. SUFFICES ASSUME NEW k \in DOMAIN fs PROVE fs[k].record.id # id
        OBVIOUS
    <2>1. fs # <<>>
        BY <1>1 DEF Formed
    <2>. QED
        BY <1>1, <2>1 DEF Formed, Placed
<1>6. ASSUME NEW k \in DOMAIN fs, NEW g, Ungiven(fs[k].record, g) PROVE Ungiven(fs[k].record, g)'
    BY <1>3, <1>5, <1>6 DEF Ungiven
<1>7. ASSUME NEW k \in DOMAIN fs, Uncaptured(fs[k].record.id) PROVE Uncaptured(fs[k].record.id)'
    BY <1>3, <1>4, <1>5, <1>7 DEF Uncaptured
<1>8. Fresh(fs)'
    <2>. SUFFICES ASSUME NEW k \in DOMAIN fs
                  PROVE  /\ fs[k].at \in Passing => \A g \in Range(fs[k].left) : Ungiven(fs[k].record, g)'
                         /\ fs[k].at \in {"look", "make"} => Uncaptured(fs[k].record.id)'
                         /\ k = 1 /\ fs[1].at = "stdlib" /\ CaptureHandler \in Range(fs[1].left) =>
                                Uncaptured(fs[k].record.id)'
        BY DEF Fresh
    <2>1. /\ fs[k].at \in Passing => \A g \in Range(fs[k].left) : Ungiven(fs[k].record, g)
          /\ fs[k].at \in {"look", "make"} => Uncaptured(fs[k].record.id)
          /\ k = 1 /\ fs[1].at = "stdlib" /\ CaptureHandler \in Range(fs[1].left) =>
                 Uncaptured(fs[k].record.id)
        BY DEF StackOK, Fresh
    <2>. QED
        BY <1>6, <1>7, <2>1
<1>9. Making(fs)'
    BY DEF StackOK, Making, ToMake, Emits
<1>10. Formed(fs)'
    BY <1>1 DEF Formed, Placed, Apart
<1>. QED
    BY <1>2, <1>8, <1>9, <1>10 DEF StackOK

\* A handler that is no longer to be offered the record writes it.
LEMMA StackWritten ==
    ASSUME BridgeAssumption,
           NEW fs, StackOK(fs), fs # <<>>, Last(fs).at \in Passing,
           NEW w \in Entries, w.id = fs[1].record.id, w.through = Last(fs).record.through,
           w.by \notin Range(Last(fs).left),
           written \in Seq(Entries), written' = Append(written, w), UNCHANGED <<fromName, origin, added, byName>>
    PROVE  StackOK(fs)'
<1>. DEFINE n == Len(fs)
<1>1. Formed(fs) /\ fs \in Seq(Frame)
    BY DEF StackOK, Formed
<1>2. n \in Nat \ {0} /\ DOMAIN fs = 1 .. n /\ Last(fs) = fs[n]
    BY <1>1, FrontIs
<1>3. \A i \in DOMAIN written' : (i \in DOMAIN written /\ written'[i] = written[i]) \/ written'[i] = w
    BY PushIs
<1>4. ASSUME NEW k \in DOMAIN fs, fs[k].at \in Passing, NEW g \in Range(fs[k].left)
      PROVE  /\ ~(w.by = g /\ w.through = fs[k].record.through)
             /\ fs[k].record.marked \/ ~(fs[k].record.through \cup {g} \subseteq w.through)
    <2>1. CASE k < n
        <3>1. fs[k].record.through # w.through /\ Range(fs[k].left) \cap w.through = {}
            BY <1>1, <1>2, <1>4, <2>1 DEF Formed, Apart
        <3>. QED
            BY <1>4, <3>1
    <2>2. CASE k = n
        <3>1. g # w.by
            BY <1>2, <1>4, <2>2
        <3>2. Placed(fs, k) /\ fs[k] \in Frame
            BY <1>1, <1>2 DEF Formed
        <3>3. CASE fs[k].at = "stdlib"
            <4>1. fs[k].record.marked \/ w.through = {}
                BY <1>2, <2>2, <3>2, <3>3 DEF Placed
            <4>. QED
                BY <3>1, <4>1
        <3>4. CASE fs[k].at = "channel"
            <4>1. w.through \subseteq {CaptureHandler}
                BY <1>2, <2>2, <3>2, <3>4 DEF Placed
            <4>2. g \in DOMAIN MinLevel
                <5>1. fs[k].left \in Seq(DOMAIN MinLevel)
                    BY <3>2, <3>4, FrameIs
                <5>. QED
                    BY <1>4, <5>1, RangeTyped
            <4>3. g # CaptureHandler
                BY <4>2 DEF BridgeAssumption
            <4>. QED
                BY <3>1, <4>1, <4>3
        <3>. QED
            BY <1>4, <3>3, <3>4 DEF Passing
    <2>. QED
        BY <1>2, <2>1, <2>2
<1>5. ASSUME NEW k \in DOMAIN fs, fs[k].at \in Passing, NEW g \in Range(fs[k].left)
      PROVE  Ungiven(fs[k].record, g)'
    <2>1. Ungiven(fs[k].record, g)
        BY <1>5 DEF StackOK, Fresh
    <2>. QED
        BY <1>3, <1>4, <1>5, <2>1 DEF Ungiven
<1>6. ASSUME NEW k \in DOMAIN fs PROVE fs[k].at \notin {"look", "make"}
    <2>. SUFFICES ASSUME fs[k].at \in {"look", "make"} PROVE FALSE
        OBVIOUS
    <2>1. Placed(fs, k)
        BY <1>1 DEF Formed
    <2>2. fs[k].at \in {"look", "make", "added"} /\ fs[k].at # "added"
        OBVIOUS
    <2>3. k = 2 /\ n = 2
        BY <2>1, <2>2, Zenon DEF Placed
    <2>. QED
        BY <1>2, <2>3 DEF Passing
<1>7. ASSUME fs[1].at = "stdlib", CaptureHandler \in Range(fs[1].left), 1 \in DOMAIN fs
      PROVE  Uncaptured(fs[1].record.id)'
    <2>1. Uncaptured(fs[1].record.id)
        BY <1>7 DEF StackOK, Fresh
    <2>2. CaptureHandler \notin w.through
        <3>1. CASE n = 1
            BY <1>1, <1>2, <1>7, <3>1 DEF Formed, Placed
        <3>2. CASE n # 1
            <4>1. 1 < n /\ n \in DOMAIN fs /\ fs[1].at \in Passing
                BY <1>2, <1>7, <3>2 DEF Passing
            <4>2. Range(fs[1].left) \cap fs[n].record.through = {}
                BY <1>1, <1>2, <1>7, <4>1 DEF Formed, Apart
            <4>. QED
                BY <1>2, <1>7, <4>2
        <3>. QED
            BY <3>1, <3>2
    <2>. QED
        BY <1>3, <2>1, <2>2 DEF Uncaptured
<1>8. Fresh(fs)'
    BY <1>5, <1>6, <1>7 DEF Fresh
<1>9. Original(fs)' /\ Making(fs)' /\ Formed(fs)'
    BY DEF StackOK, Original, Making, ToMake, Formed, Placed, Apart
<1>. QED
    BY <1>8, <1>9 DEF StackOK

\* The capture puts the record on a channel.
LEMMA StackAdded ==
    ASSUME NEW fs, StackOK(fs), fs # <<>>, \A k \in DOMAIN fs : fs[k].at \notin {"look", "make"},
           fs[1].at = "stdlib" => CaptureHandler \notin Range(fs[1].left),
           UNCHANGED <<origin, written>>
    PROVE  StackOK(fs)'
<1>1. \A k \in DOMAIN fs : \A g : Ungiven(fs[k].record, g) => Ungiven(fs[k].record, g)'
    BY DEF Ungiven
<1>2. Fresh(fs)'
    BY <1>1 DEF StackOK, Fresh
<1>3. Original(fs)' /\ Making(fs)' /\ Formed(fs)'
    BY DEF StackOK, Original, Making, ToMake, Formed, Placed, Apart
<1>. QED
    BY <1>2, <1>3 DEF StackOK

-----------------------------------------------------------------------------
(* One thread takes a step *)

Histories ==
    origin \in Seq(Origins) /\ written \in Seq(Entries) /\ added \in Seq(Additions)

LEMMA InvIs ==
    ASSUME BridgeInv
    PROVE  /\ Histories /\ DOMAIN frames = Threads
           /\ \A t \in Threads : /\ StackOK(frames[t]) /\ frames[t] \in Seq(Frame)
                                 /\ \A k \in DOMAIN frames[t] : frames[t][k].record.id = frames[t][1].record.id
<1>1. Histories
    BY DEF BridgeInv, OriginOK, WrittenOK, AddedOK, Histories
<1>2. \A t \in Threads : StackOK(frames[t])
    BY DEF BridgeInv, Range
<1>3. DOMAIN frames = Threads
    BY DEF BridgeInv
<1>4. \A t \in Threads : /\ frames[t] \in Seq(Frame)
                         /\ \A k \in DOMAIN frames[t] : frames[t][k].record.id = frames[t][1].record.id
    BY <1>2 DEF StackOK, Formed, Placed
<1>. QED
    BY <1>1, <1>2, <1>3, <1>4

\* The others keep theirs, whatever it adds of its own record.
LEMMA ThreadsKeep ==
    ASSUME BridgeInv, NEW t \in Threads, NEW gs, NEW id,
           frames' = [frames EXCEPT ![t] = gs], StackOK(gs)',
           frames[t] # <<>> => frames[t][1].record.id = id,
           gs # <<>> => gs[1].record.id = id,
           frames[t] = <<>> => id \notin DOMAIN origin,
           Emits(gs) => Emits(frames[t]) \/ Free(t),
           Grows(origin, origin', Origins),
           written' = written \/ \E w \in Entries : w.id = id /\ written' = Append(written, w),
           added' = added \/ \E d \in Additions : d.id = id /\ added' = Append(added, d),
           byName' = byName \/ Emits(frames[t]), UNCHANGED fromName
    PROVE  DOMAIN frames' = Threads /\ (\A fs \in Range(frames) : StackOK(fs))' /\ AloneInEmit'
<1>1. /\ Histories /\ DOMAIN frames = Threads
      /\ \A u \in Threads : StackOK(frames[u]) /\ frames[u] \in Seq(Frame)
    BY InvIs
<1>2. DOMAIN frames' = Threads /\ frames'[t] = gs /\ \A u \in Threads \ {t} : frames'[u] = frames[u]
    BY <1>1
<1>3. AloneInEmit
    BY DEF BridgeInv
<1>4. ASSUME NEW u \in Threads \ {t}, NEW fs, fs = frames[u] PROVE StackOK(fs)'
    <2>1. StackOK(fs) /\ fs \in Seq(Frame)
        BY <1>1, <1>4
    <2>2. fs # <<>> => fs[1].record.id # id
        <3>. SUFFICES ASSUME fs # <<>>, fs[1].record.id = id PROVE FALSE
            OBVIOUS
        <3>1. id \in DOMAIN origin
            BY <2>1 DEF StackOK, Original
        <3>. QED
            BY <1>3, <1>4, <3>1 DEF AloneInEmit
    <2>3. byName' = byName \/ ~Emits(fs)
        BY <1>3, <1>4 DEF AloneInEmit
    <2>. QED
        BY <1>1, <2>1, <2>2, <2>3, StackKept DEF Histories
<1>5. (\A fs \in Range(frames) : StackOK(fs))'
    <2>. SUFFICES ASSUME NEW fs \in Range(frames)' PROVE StackOK(fs)'
        OBVIOUS
    <2>1. PICK u \in Threads : fs = frames'[u]
        BY <1>2 DEF Range
    <2>. QED
        BY <1>2, <1>4, <2>1
<1>6. ASSUME NEW u \in Threads \ {t}
      PROVE  /\ gs # <<>> /\ frames[u] # <<>> => gs[1].record.id # frames[u][1].record.id
             /\ ~(Emits(gs) /\ Emits(frames[u]))
    <2>1. ~(Emits(gs) /\ Emits(frames[u]))
        <3>1. Free(t) => ~Emits(frames[u])
            BY DEF Free, Emits
        <3>. QED
            BY <1>3, <3>1 DEF AloneInEmit
    <2>2. gs # <<>> /\ frames[u] # <<>> => gs[1].record.id # frames[u][1].record.id
        <3>. SUFFICES ASSUME gs # <<>>, frames[u] # <<>>, frames[u][1].record.id = id PROVE FALSE
            OBVIOUS
        <3>1. id \in DOMAIN origin
            BY <1>1 DEF StackOK, Original
        <3>. QED
            BY <1>3, <3>1 DEF AloneInEmit
    <2>. QED
        BY <2>1, <2>2
<1>7. AloneInEmit'
    <2>. SUFFICES ASSUME NEW u \in Threads, NEW v \in Threads, u # v
                  PROVE  /\ frames'[u] # <<>> /\ frames'[v] # <<>> => frames'[u][1].record.id # frames'[v][1].record.id
                         /\ ~(Emits(frames'[u]) /\ Emits(frames'[v]))
        BY DEF AloneInEmit, Emits
    <2>1. CASE u # t /\ v # t
        BY <1>2, <1>3, <2>1 DEF AloneInEmit
    <2>2. CASE u = t
        BY <1>2, <1>6, <2>2
    <2>3. CASE v = t
        BY <1>2, <1>6, <2>3
    <2>. QED
        BY <2>1, <2>2, <2>3
<1>. QED
    BY <1>2, <1>5, <1>7

-----------------------------------------------------------------------------
(* What each step makes of the frames *)

\* A record that goes on to the next handler, or no further.
LEMMA PassedOn ==
    ASSUME NEW f \in Frame, f.at \in Passing, IsInjective(f.left), f.left # <<>>
    PROVE  /\ Follows(f, [f EXCEPT !.left = Tail(@)]) /\ Follows(f, [f EXCEPT !.left = <<>>])
           /\ [f EXCEPT !.left = Tail(@)].at = f.at /\ [f EXCEPT !.left = <<>>].at = f.at
           /\ Head(f.left) \in Range(f.left)
           /\ Head(f.left) \notin Range([f EXCEPT !.left = Tail(@)].left)
           /\ Head(f.left) \notin Range([f EXCEPT !.left = <<>>].left)
<1>1. PICK S \in {DOMAIN Threshold, DOMAIN MinLevel} :
          f.left \in Seq(S) /\ \A l \in Seq(S) : [f EXCEPT !.left = l] \in Frame
    <2>1. CASE f.at = "stdlib"
        <3>1. f \in [at : {"stdlib"}, record : CrossingRecord, left : Seq(DOMAIN Threshold)]
            BY <2>1 DEF Frame
        <3>2. \A l \in Seq(DOMAIN Threshold) : [f EXCEPT !.left = l] \in Frame
            BY <3>1 DEF Frame
        <3>. QED
            BY <3>1, <3>2
    <2>2. CASE f.at = "channel"
        <3>1. f \in [at : {"channel"}, record : CrossingRecord, left : Seq(DOMAIN MinLevel)]
            BY <2>2 DEF Frame
        <3>2. \A l \in Seq(DOMAIN MinLevel) : [f EXCEPT !.left = l] \in Frame
            BY <3>1 DEF Frame
        <3>. QED
            BY <3>1, <3>2
    <2>. QED
        BY <2>1, <2>2 DEF Passing
<1>2. PICK q \in Seq(S) : q = f.left
    BY <1>1
<1>3. /\ q # <<>> /\ Tail(q) \in Seq(S) /\ <<>> \in Seq(S) /\ Len(q) \in Nat \ {0} /\ DOMAIN q = 1 .. Len(q)
      /\ Head(q) = q[1] /\ Len(Tail(q)) = Len(q) - 1 /\ DOMAIN Tail(q) = 1 .. Len(q) - 1
      /\ \A i \in 1 .. Len(q) - 1 : Tail(q)[i] = q[i + 1]
    BY <1>2
<1>4. \A i, j \in 1 .. Len(q) : q[i] = q[j] => i = j
    BY <1>2, <1>3 DEF IsInjective
<1>5. Range(Tail(q)) \subseteq Range(q) /\ Range(<<>>) = {} /\ Head(q) \in Range(q)
    <2>1. \A i \in 1 .. Len(q) - 1 : i + 1 \in 1 .. Len(q)
        BY <1>3
    <2>2. DOMAIN <<>> = {} /\ 1 \in DOMAIN q
        BY <1>3
    <2>. QED
        BY <1>3, <2>1, <2>2 DEF Range
<1>6. Head(q) \notin Range(Tail(q))
    <2>. SUFFICES ASSUME NEW i \in 1 .. Len(q) - 1, Tail(q)[i] = q[1] PROVE FALSE
        BY <1>3 DEF Range
    <2>. QED
        BY <1>3, <1>4
<1>7. IsInjective(Tail(q)) /\ IsInjective(<<>>)
    <2>1. \A i, j \in 1 .. Len(q) - 1 : Tail(q)[i] = Tail(q)[j] => i = j
        BY <1>3, <1>4
    <2>. QED
        BY <1>3, <2>1 DEF IsInjective
<1>. DEFINE d == [f EXCEPT !.left = Tail(q)]
            b == [f EXCEPT !.left = <<>>]
<1>8. /\ d \in Frame /\ b \in Frame /\ d.record = f.record /\ b.record = f.record
      /\ d.at = f.at /\ b.at = f.at
    <2>1. f = [at |-> f.at, record |-> f.record, left |-> f.left]
        BY FrameIs
    <2>. QED
        BY <1>1, <1>3, <2>1
<1>9. d.left = Tail(q) /\ b.left = <<>>
    <2>1. f = [at |-> f.at, record |-> f.record, left |-> f.left]
        BY FrameIs
    <2>. QED
        BY <2>1
<1>10. d = [f EXCEPT !.left = Tail(@)]
    BY <1>2
<1>. HIDE DEF d, b
<1>11. Follows(f, d) /\ Follows(f, b)
    BY <1>2, <1>5, <1>7, <1>8, <1>9 DEF Follows
<1>. QED
    BY <1>2, <1>5, <1>6, <1>8, <1>9, <1>10, <1>11 DEF b

\* The record that the last frame holds: where it was logged, and its way from there.
LEMMA LastIs ==
    ASSUME BridgeAssumption, NEW fs, StackOK(fs), fs # <<>>, Last(fs).at \in Passing
    PROVE  LET r == Last(fs).record
               o == origin[r.id]
           IN  /\ r.id \in DOMAIN origin /\ r.id = fs[1].record.id /\ Narrow(r.through)
               /\ o.kind = "channel" => CaptureHandler \notin r.through
               /\ Last(fs).at = "channel" /\ o.kind # "channel" =>
                      r.level = FromStdlib(o.number) /\ Len(fs) = 3 /\ fs[2].at = "added"
<1>. DEFINE n == Len(fs)
            r == Last(fs).record
<1>1. n \in Nat \ {0} /\ DOMAIN fs = 1 .. n /\ Last(fs) = fs[n] /\ fs \in Seq(Frame)
    BY FrontIs DEF StackOK, Formed
<1>2. \A k \in 1 .. n : Placed(fs, k)
    BY <1>1 DEF StackOK, Formed
<1>3. /\ r.id = fs[1].record.id /\ r.id \in DOMAIN origin
      /\ fs[1].at = "channel" => origin[r.id].kind = "channel"
      /\ fs[1].at = "stdlib" => /\ origin[r.id].kind # "channel"
                                /\ fs[1].record.number = origin[r.id].number
    <2>1. r.id = fs[1].record.id
        BY <1>1, <1>2 DEF Placed
    <2>. QED
        BY <2>1 DEF StackOK, Original
<1>4. CASE Last(fs).at = "channel"
    <2>1. fs[n].at = "channel" /\ Placed(fs, n)
        BY <1>1, <1>2, <1>4
    <2>2. CASE n = 1
        <3>1. r.through = {} /\ origin[r.id].kind = "channel"
            BY <1>1, <1>3, <2>1, <2>2 DEF Placed
        <3>. QED
            BY <1>3, <3>1 DEF Narrow
    <2>3. CASE n # 1
        <3>1. /\ n = 3 /\ fs[2].at = "added" /\ r.through = {CaptureHandler}
              /\ r.level = FromStdlib(fs[1].record.number)
            BY <1>1, <2>1, <2>3 DEF Placed
        <3>2. fs[1].at = "stdlib"
            BY <1>1, <1>2, <3>1 DEF Placed
        <3>. QED
            BY <1>3, <3>1, <3>2 DEF Narrow
    <2>. QED
        BY <2>2, <2>3
<1>5. CASE Last(fs).at = "stdlib"
    <2>1. fs[n].at = "stdlib" /\ Placed(fs, n)
        BY <1>1, <1>2, <1>5
    <2>2. CASE n = 1
        <3>1. r.through = {}
            BY <1>1, <2>1, <2>2 DEF Placed
        <3>. QED
            BY <1>3, <1>5, <3>1 DEF Narrow
    <2>3. CASE n # 1
        <3>1. n \in {2, 4} /\ fs[n - 1].at = "channel" /\ \E h \in Relays : r.through = fs[n - 1].record.through \cup {h}
            BY <1>1, <2>1, <2>3 DEF Placed
        <3>2. PICK h \in Relays : r.through = fs[n - 1].record.through \cup {h}
            BY <3>1
        <3>3. n - 1 \in 1 .. n /\ Placed(fs, n - 1)
            BY <1>1, <1>2, <3>1
        <3>4. CASE n = 2
            <4>1. fs[1].record.through = {} /\ fs[1].at = "channel"
                BY <3>1, <3>3, <3>4 DEF Placed
            <4>2. r.through = {h}
                BY <3>2, <3>4, <4>1
            <4>3. CaptureHandler \notin r.through
                BY <4>2 DEF BridgeAssumption
            <4>. QED
                BY <1>3, <1>5, <4>1, <4>2, <4>3 DEF Narrow
        <3>5. CASE n = 4
            <4>1. fs[3].record.through = {CaptureHandler} /\ fs[2].at = "added"
                BY <3>1, <3>3, <3>5 DEF Placed
            <4>2. fs[1].at = "stdlib"
                BY <1>1, <1>2, <3>5, <4>1 DEF Placed
            <4>3. r.through = {h, CaptureHandler}
                BY <3>2, <3>5, <4>1
            <4>. QED
                BY <1>3, <1>5, <4>2, <4>3 DEF Narrow
        <3>. QED
            BY <3>1, <3>4, <3>5
    <2>. QED
        BY <2>2, <2>3
<1>. QED
    BY <1>4, <1>5 DEF Passing

\* A StdlibHandler hands the record over: it is marked from there on.
LEMMA HandedOver ==
    ASSUME BridgeAssumption, NEW gs, StackOK(gs), gs # <<>>, Last(gs).at = "channel",
           NEW h \in Relays, h \notin Range(Last(gs).left), Ungiven(Last(gs).record, h)
    PROVE  LET x == ToLogger(RelayTo[h], Marked(Last(gs).record, h))
           IN  x \in Frame /\ StackOK(Append(gs, x)) /\ Append(gs, x) # <<>>
<1>. DEFINE n == Len(gs)
            r == Last(gs).record
            m == Marked(r, h)
            x == ToLogger(RelayTo[h], m)
<1>1. n \in Nat \ {0} /\ DOMAIN gs = 1 .. n /\ Last(gs) = gs[n] /\ gs \in Seq(Frame) /\ Last(gs) \in Frame
    BY FrontIs DEF StackOK, Formed
<1>2. \A k \in 1 .. n : Placed(gs, k) /\ gs[k] \in Frame
    BY <1>1 DEF StackOK, Formed
<1>3. r \in CrossingRecord /\ Last(gs).left \in Seq(DOMAIN MinLevel)
    BY <1>1, FrameIs
<1>4. /\ m.id = r.id /\ m.marked /\ m.number = ToStdlib[r.level] /\ m.through = r.through \cup {h}
      /\ m \in CrossingRecord
    <2>1. RelayTo[h] \in Names /\ ToStdlib[r.level] \in Int /\ h \in Passers
        BY <1>3, ThereAndBack DEF BridgeAssumption, CrossingRecord, Passers
    <2>. QED
        BY <1>3, <2>1 DEF Marked, CrossingRecord
<1>. HIDE DEF m
<1>5. /\ x \in Frame /\ x.at = "stdlib" /\ x.record = m /\ x.left \in Seq(DOMAIN Threshold)
      /\ IsInjective(x.left)
    <2>1. RelayTo[h] \in Names
        BY DEF BridgeAssumption
    <2>2. PICK q \in Seq(DOMAIN Threshold) : q = HandlersOf(RelayTo[h]) /\ IsInjective(q)
        BY <2>1 DEF BridgeAssumption
    <2>3. <<>> \in Seq(DOMAIN Threshold) /\ IsInjective(<<>>)
        BY DEF IsInjective
    <2>4. PICK l \in Seq(DOMAIN Threshold) : IsInjective(l) /\ x = [at |-> "stdlib", record |-> m, left |-> l]
        <3>1. x = [at |-> "stdlib", record |-> m, left |-> q] \/ x = [at |-> "stdlib", record |-> m, left |-> <<>>]
            BY <2>2 DEF ToLogger
        <3>. HIDE DEF x
        <3>. QED
            BY <2>2, <2>3, <3>1
    <2>. HIDE DEF x
    <2>5. x \in [at : {"stdlib"}, record : CrossingRecord, left : Seq(DOMAIN Threshold)]
        BY <1>4, <2>4
    <2>. QED
        BY <2>4, <2>5 DEF Frame
<1>. HIDE DEF x
<1>6. Placed(gs, n) /\ gs[n].at = "channel" /\ r.id = gs[1].record.id
    BY <1>1, <1>2 DEF Placed
<1>7. n \in {1, 3} /\ r.through \subseteq {CaptureHandler} /\ ~r.marked
    BY <1>1, <1>6 DEF Placed
<1>8. h \in DOMAIN MinLevel /\ h # CaptureHandler /\ DOMAIN Threshold \cap DOMAIN MinLevel = {}
      /\ CaptureHandler \in DOMAIN Threshold
    BY DEF BridgeAssumption
<1>9. ASSUME NEW k \in DOMAIN gs, gs[k].at \in Passing
      PROVE  gs[k].record.through # m.through /\ Range(gs[k].left) \cap m.through = {}
    <2>1. gs[k].record.through \subseteq {CaptureHandler} /\ h \notin Range(gs[k].left)
          /\ Range(gs[k].left) \cap r.through = {}
        <3>1. CASE k = n
            <4>1. Range(gs[k].left) \subseteq DOMAIN MinLevel
                BY <1>1, <1>3, <3>1, RangeTyped
            <4>. QED
                BY <1>1, <1>7, <1>8, <3>1, <4>1
        <3>2. CASE k # n
            <4>1. n = 3 /\ k < n /\ gs[2].at = "added" /\ k \in {1, 2}
                BY <1>1, <1>6, <1>7, <3>2 DEF Placed
            <4>2. k = 1
                BY <1>9, <4>1 DEF Passing
            <4>3. gs[1].at = "stdlib" /\ Placed(gs, 1) /\ gs[1] \in Frame
                BY <1>1, <1>2, <4>1 DEF Placed
            <4>4. gs[1].record.through = {} /\ Range(gs[1].left) \subseteq DOMAIN Threshold
                BY <4>3, FrameIs, RangeTyped DEF Placed
            <4>5. Range(gs[k].left) \cap r.through = {}
                BY <1>1, <1>6, <1>9, <4>1 DEF StackOK, Formed, Apart, Passing
            <4>. QED
                BY <1>8, <4>2, <4>4, <4>5
        <3>. QED
            BY <3>1, <3>2
    <2>. QED
        BY <1>4, <1>8, <2>1
<1>10. Placed(Append(gs, x), n + 1)
    <2>3. /\ Append(gs, x) \in Seq(Frame) /\ Append(gs, x)[n + 1] = x
          /\ \A k \in 1 .. n : Append(gs, x)[k] = gs[k]
        BY <1>1, <1>5, PushIs
    <2>1. PICK ps \in Seq(Frame) : ps = Append(gs, x) /\ ps[n + 1] = x /\ \A k \in 1 .. n : ps[k] = gs[k]
        BY <2>3
    <2>5. n \in {1, 3}
        BY <1>7
    <2>4. (n + 1) - 1 = n /\ 1 \in 1 .. n /\ n \in 1 .. n /\ n + 1 \in {2, 4} /\ n + 1 # 1
        <3>1. CASE n = 1
            BY ONLY <3>1
        <3>2. CASE n = 3
            BY ONLY <3>2
        <3>. QED
            BY ONLY <2>5, <3>1, <3>2
    <2>2. ps[1] = gs[1] /\ ps[(n + 1) - 1] = gs[n] /\ n + 1 \in {2, 4} /\ n + 1 # 1
        <3>. HIDE DEF n
        <3>. QED
            BY <2>1, <2>4
    <2>. QED
        BY <1>1, <1>4, <1>5, <1>6, <2>1, <2>2 DEF Placed
<1>11. Formed(Append(gs, x))
    BY <1>1, <1>5, <1>9, <1>10, FormedPushed DEF StackOK
<1>12. ASSUME NEW g PROVE Ungiven(x.record, g)
    BY <1>4, <1>5, <1>7 DEF Ungiven
<1>. QED
    BY <1>5, <1>11, <1>12, StackPushed DEF x, m

\* The capture puts a record on the channel c, for the first time.
LEMMA PutOnChannel ==
    ASSUME BridgeAssumption, NEW fs, StackOK(fs), fs # <<>>, Last(fs).at \in {"look", "make"}, NEW c
    PROVE  LET d == [Last(fs) EXCEPT !.at = "added"]
               x == ToChannel(c, Captured(Last(fs).record))
               gs == Append(Append(Front(fs), d), x)
           IN  /\ d \in Frame /\ x \in Frame /\ StackOK(gs) /\ gs # <<>>
               /\ gs[1].record.id = Last(fs).record.id
               /\ \A k \in DOMAIN gs : gs[k].at \notin {"look", "make"}
               /\ CaptureHandler \notin Range(gs[1].left)
               /\ Last(fs).record = fs[1].record /\ fs[1].at = "stdlib"
               /\ Uncaptured(fs[1].record.id)
<1>. DEFINE n == Len(fs)
            r == Last(fs).record
            d == [Last(fs) EXCEPT !.at = "added"]
            x == ToChannel(c, Captured(r))
            bs == Append(Front(fs), d)
<1>1. n \in Nat \ {0} /\ DOMAIN fs = 1 .. n /\ Last(fs) = fs[n] /\ fs \in Seq(Frame) /\ Last(fs) \in Frame
    BY FrontIs DEF StackOK, Formed
<1>2. Placed(fs, n) /\ fs[n].at \in {"look", "make", "added"} /\ fs[n].at # "added"
    BY <1>1 DEF StackOK, Formed
<1>3. n = 2 /\ fs[1].at = "stdlib" /\ r = fs[1].record /\ CaptureHandler \notin Range(fs[1].left)
    BY <1>1, <1>2, Zenon DEF Placed
<1>4. Placed(fs, 1) /\ fs[1] \in Frame
    BY <1>1, <1>3 DEF StackOK, Formed
<1>5. r \in CrossingRecord /\ ~r.marked /\ r.through = {} /\ Range(fs[1].left) \cap {CaptureHandler} = {}
    BY <1>3, <1>4, FrameIs DEF Placed
<1>6. d \in Frame /\ d.at = "added" /\ d.record = r
    <2>1. Last(fs) = [at |-> Last(fs).at, record |-> r]
        BY <1>1, FrameIs DEF Passing
    <2>2. d = [at |-> "added", record |-> r]
        BY <2>1
    <2>. HIDE DEF d
    <2>. QED
        BY <1>5, <2>2 DEF Frame
<1>. HIDE DEF d
<1>7. Follows(Last(fs), d)
    BY <1>6 DEF Follows
<1>8. StackOK(bs) /\ bs # <<>>
    BY <1>6, <1>7, StackReplaced
<1>9. bs \in Seq(Frame) /\ Len(bs) = 2 /\ bs[2] = d /\ bs[1] = fs[1] /\ DOMAIN bs = 1 .. 2
    BY <1>1, <1>3, <1>6, FrontIs
<1>10. Last(bs) = d
    BY <1>9 DEF Last
<1>11. /\ x \in Frame /\ x.at = "channel" /\ IsInjective(x.left)
       /\ x.record.id = r.id /\ x.record.through = {CaptureHandler} /\ ~x.record.marked
       /\ x.record.level = FromStdlib(r.number)
    <2>1. PICK y \in CrossingRecord :
              /\ y = Captured(r) /\ y.id = r.id /\ y.through = {CaptureHandler} /\ ~y.marked
              /\ y.level = FromStdlib(r.number)
        <3>1. FromStdlib(r.number) \in Levels
            BY <1>5, FromStdlibTyped DEF CrossingRecord
        <3>2. /\ Captured(r).id = r.id /\ Captured(r).through = {CaptureHandler} /\ ~Captured(r).marked
              /\ Captured(r).level = FromStdlib(r.number)
            BY <1>5 DEF Captured, CrossingRecord
        <3>3. Captured(r) \in CrossingRecord
            BY <1>5, <3>1 DEF Captured, CrossingRecord, Passers
        <3>. QED
            BY <3>2, <3>3
    <2>2. PICK q \in Seq(DOMAIN MinLevel) : q = Stack[IF c \in Routed THEN c ELSE Base] /\ IsInjective(q)
        BY DEF BridgeAssumption
    <2>3. x = [at |-> "channel", record |-> y, left |-> q]
        BY <2>1, <2>2 DEF ToChannel
    <2>. HIDE DEF x
    <2>. QED
        BY <2>1, <2>2, <2>3 DEF Frame
<1>. HIDE DEF x, bs
<1>12. PICK gs \in Seq(Frame) : /\ gs = Append(bs, x) /\ DOMAIN gs = 1 .. 3
                                /\ gs[1] = fs[1] /\ gs[2] = d /\ gs[3] = x
    <2>1. bs \in Seq(Frame) /\ Len(bs) = 2 /\ x \in Frame
        BY <1>9, <1>11
    <2>2. /\ Append(bs, x) \in Seq(Frame) /\ DOMAIN Append(bs, x) = 1 .. 3
          /\ Append(bs, x)[1] = bs[1] /\ Append(bs, x)[2] = bs[2] /\ Append(bs, x)[3] = x
        BY ONLY <2>1, ThirdIs
    <2>. QED
        BY <1>9, <2>2
<1>13. Placed(gs, 3)
    BY <1>3, <1>6, <1>11, <1>12 DEF Placed
<1>14. ASSUME NEW k \in DOMAIN bs, bs[k].at \in Passing
       PROVE  bs[k].record.through # x.record.through /\ Range(bs[k].left) \cap x.record.through = {}
    <2>1. k = 1
        BY <1>6, <1>9, <1>14 DEF Passing
    <2>. QED
        BY <1>3, <1>5, <1>9, <1>11, <2>1
<1>15. Formed(gs)
    <2>1. Formed(bs) /\ Last(bs).at \notin {"look", "make"} /\ Placed(Append(bs, x), Len(bs) + 1)
        BY <1>6, <1>8, <1>9, <1>10, <1>12, <1>13 DEF StackOK
    <2>. QED
        BY <1>8, <1>11, <1>12, <1>14, <2>1, FormedPushed
<1>16. Uncaptured(r.id)
    BY <1>1 DEF StackOK, Fresh
<1>17. ASSUME NEW g PROVE Ungiven(x.record, g)
    BY <1>11, <1>16 DEF Uncaptured, Ungiven
<1>18. StackOK(gs) /\ gs # <<>>
    BY <1>8, <1>11, <1>12, <1>15, <1>17, StackPushed
<1>19. \A k \in DOMAIN gs : gs[k].at \notin {"look", "make"}
    BY <1>3, <1>6, <1>11, <1>12
<1>20. /\ gs[1].record.id = r.id /\ CaptureHandler \notin Range(gs[1].left)
    BY <1>3, <1>12
<1>. QED
    BY <1>3, <1>6, <1>11, <1>12, <1>16, <1>18, <1>19, <1>20 DEF d, x, bs

-----------------------------------------------------------------------------
(* The steps *)

\* What was written, added and thrown is still so when another record is logged.
LEMMA HistoriesKeep ==
    ASSUME BridgeInv, Grows(origin, origin', Origins), UNCHANGED <<fromName, written, added, thrown>>
    PROVE  WrittenOK' /\ AddedOK' /\ ThrownOK' /\ fromName' \in BOOLEAN
<1>1. DOMAIN origin \subseteq DOMAIN origin' /\ \A i \in DOMAIN origin : origin'[i] = origin[i]
    BY GrowsIs DEF BridgeInv, OriginOK
<1>2. ASSUME NEW w, WrittenFits(w) PROVE WrittenFits(w)'
    BY <1>1, <1>2 DEF WrittenFits
<1>3. WrittenOK'
    <2>1. \A i \in DOMAIN written' : WrittenFits(written[i])'
        BY <1>1 DEF BridgeInv, WrittenOK, WrittenFits
    <2>. QED
        BY <2>1 DEF BridgeInv, WrittenOK
<1>4. AddedOK'
    <2>1. \A i \in DOMAIN added' : AddedFits(added[i])'
        BY <1>1 DEF BridgeInv, AddedOK, AddedFits
    <2>. QED
        BY <2>1 DEF BridgeInv, AddedOK
<1>5. ThrownOK'
    BY <1>1 DEF BridgeInv, ThrownOK
<1>. QED
    BY <1>3, <1>4, <1>5 DEF BridgeInv

LEMMA LogStarts ==
    ASSUME BridgeAssumption, BridgeInv, NEW t \in Threads, NEW kind \in {"stdlib", "adapted", "channel"},
           NEW n \in Names, NEW level \in Levels, NEW number \in Int,
           kind = "adapted" => number = ToStdlib[level],
           Log(t, kind, n, level, number)
    PROVE  BridgeInv'
<1>. DEFINE id == Len(origin) + 1
            r == [id |-> id, name |-> n, level |-> level, number |-> number,
                  marked |-> FALSE, through |-> {}]
            o == [kind |-> kind, name |-> n, level |-> level, number |-> number]
            x == IF kind = "channel" THEN ToChannel(Base, r) ELSE ToLogger(n, r)
<1>1. /\ frames[t] = <<>> /\ origin' = Append(origin, o) /\ frames' = [frames EXCEPT ![t] = <<x>>]
      /\ UNCHANGED <<fromName, byName, named, added, written, thrown>>
    BY DEF Log, To
<1>2. Histories
    BY InvIs
<1>3. /\ o \in Origins /\ origin \in Seq(Origins) /\ id \in Nat /\ id \notin DOMAIN origin
      /\ id \in DOMAIN origin' /\ origin'[id] = o /\ \A i \in DOMAIN origin : origin'[i] = origin[i]
      /\ DOMAIN origin' = DOMAIN origin \cup {id} /\ origin' \in Seq(Origins)
    <2>1. o \in Origins /\ origin \in Seq(Origins)
        BY <1>2 DEF Histories, Origins
    <2>. HIDE DEF o
    <2>2. /\ Len(origin) \in Nat /\ DOMAIN origin = 1 .. Len(origin) /\ Append(origin, o) \in Seq(Origins)
          /\ DOMAIN Append(origin, o) = 1 .. Len(origin) + 1 /\ Append(origin, o)[Len(origin) + 1] = o
          /\ \A i \in 1 .. Len(origin) : Append(origin, o)[i] = origin[i]
        BY <2>1, PushIs
    <2>. QED
        BY <1>1, <2>1, <2>2
<1>4. r \in CrossingRecord /\ r.id = id /\ ~r.marked /\ r.through = {} /\ r.name = n /\ r.number = number
    BY <1>3 DEF CrossingRecord
<1>. HIDE DEF r, id
<1>5. /\ x \in Frame /\ x.record = r /\ IsInjective(x.left)
      /\ IF kind = "channel" THEN x.at = "channel" ELSE x.at = "stdlib"
    <2>1. CASE kind = "channel"
        <3>1. PICK q \in Seq(DOMAIN MinLevel) : q = Stack[IF Base \in Routed THEN Base ELSE Base] /\ IsInjective(q)
            BY DEF BridgeAssumption
        <3>2. x = [at |-> "channel", record |-> r, left |-> q]
            BY <2>1, <3>1 DEF ToChannel
        <3>. HIDE DEF x
        <3>3. x \in [at : {"channel"}, record : CrossingRecord, left : Seq(DOMAIN MinLevel)]
            BY <1>4, <3>2
        <3>. QED
            BY <2>1, <3>1, <3>2, <3>3 DEF Frame
    <2>2. CASE kind # "channel"
        <3>1. PICK q \in Seq(DOMAIN Threshold) :
                  q = (IF r.number < Enabled[n] THEN <<>> ELSE HandlersOf(n)) /\ IsInjective(q)
            <4>1. <<>> \in Seq(DOMAIN Threshold) /\ IsInjective(<<>>)
                BY DEF IsInjective
            <4>2. HandlersOf(n) \in Seq(DOMAIN Threshold) /\ IsInjective(HandlersOf(n))
                BY DEF BridgeAssumption
            <4>. QED
                BY <4>1, <4>2, Zenon
        <3>2. x = [at |-> "stdlib", record |-> r, left |-> q]
            BY <2>2, <3>1 DEF ToLogger
        <3>. HIDE DEF x
        <3>3. x \in [at : {"stdlib"}, record : CrossingRecord, left : Seq(DOMAIN Threshold)]
            BY <1>4, <3>2
        <3>. QED
            BY <2>2, <3>1, <3>2, <3>3 DEF Frame
    <2>. QED
        BY <2>1, <2>2
<1>. HIDE DEF x
<1>6. PICK gs \in Seq(Frame) : gs = <<x>> /\ DOMAIN gs = {1} /\ gs[1] = x /\ gs # <<>>
    <2>1. x \in Frame
        BY <1>5
    <2>2. <<x>> \in Seq(Frame) /\ DOMAIN <<x>> = {1} /\ <<x>>[1] = x /\ <<x>> # <<>>
        BY ONLY <2>1
    <2>. QED
        BY <2>2
<1>7. /\ \A i \in DOMAIN written : written[i].id # id
      /\ \A i \in DOMAIN added : added[i].id # id
    BY <1>3 DEF BridgeInv, WrittenOK, WrittenFits, AddedOK, AddedFits
<1>8. Formed(gs)
    <2>1. Placed(gs, 1)
        BY <1>4, <1>5, <1>6 DEF Placed
    <2>2. Apart(gs)
        BY <1>6 DEF Apart
    <2>. QED
        BY <1>6, <2>1, <2>2 DEF Formed
<1>9. Original(gs)'
    BY <1>3, <1>4, <1>5, <1>6 DEF Original
<1>10. Fresh(gs)' /\ Making(gs)'
    BY <1>1, <1>4, <1>5, <1>6, <1>7 DEF Fresh, Making, ToMake, Ungiven, Uncaptured
<1>11. StackOK(gs)'
    <2>1. Formed(gs)'
        BY <1>8 DEF Formed, Placed, Apart
    <2>. QED
        BY <1>9, <1>10, <2>1 DEF StackOK
<1>12. /\ Grows(origin, origin', Origins) /\ frames' = [frames EXCEPT ![t] = gs] /\ ~Emits(gs)
       /\ gs[1].record.id = id
    BY <1>1, <1>3, <1>4, <1>5, <1>6 DEF Grows, Emits
<1>13. DOMAIN frames' = Threads /\ (\A fs \in Range(frames) : StackOK(fs))' /\ AloneInEmit'
    BY <1>1, <1>3, <1>11, <1>12, ThreadsKeep
<1>14. OriginOK'
    BY <1>3 DEF BridgeInv, OriginOK
<1>15. NamedOK'
    BY <1>1 DEF BridgeInv, NamedOK
<1>. QED
    BY <1>1, <1>12, <1>13, <1>14, <1>15, HistoriesKeep DEF BridgeInv

LEMMA ReplacedIs ==
    ASSUME NEW fs, Formed(fs), fs # <<>>, NEW x, Follows(Last(fs), x)
    PROVE  LET gs == Append(Front(fs), x)
           IN  /\ gs # <<>> /\ gs \in Seq(Frame) /\ Len(gs) = Len(fs) /\ Last(gs) = x
               /\ gs[1].record = fs[1].record /\ (Emits(gs) => Emits(fs))
<1>. DEFINE gs == Append(Front(fs), x)
            n == Len(fs)
<1>1. /\ n \in Nat \ {0} /\ DOMAIN fs = 1 .. n /\ Last(fs) = fs[n]
      /\ gs \in Seq(Frame) /\ Len(gs) = n /\ DOMAIN gs = 1 .. n /\ gs[n] = x /\ gs # <<>>
      /\ \A k \in 1 .. n - 1 : gs[k] = fs[k]
    BY FrontIs DEF Formed, Follows
<1>. HIDE DEF gs
<1>2. gs[1].record = fs[1].record
    BY <1>1 DEF Follows
<1>3. Emits(gs) => Emits(fs)
    <2>1. \A k \in 1 .. n : gs[k].at \in {"look", "make", "added"} => fs[k].at \in {"look", "make", "added"}
        BY <1>1 DEF Follows, Passing
    <2>. QED
        BY <1>1, <2>1 DEF Emits
<1>. QED
    BY <1>1, <1>2, <1>3 DEF gs, Last

LEMMA PushedIs ==
    ASSUME NEW fs \in Seq(Frame), fs # <<>>, NEW x \in Frame
    PROVE  LET gs == Append(fs, x)
           IN  /\ gs[1] = fs[1]
               /\ Emits(gs) => Emits(fs) \/ x.at \in {"look", "make", "added"}
<1>. DEFINE gs == Append(fs, x)
            n == Len(fs)
<1>1. /\ n \in Nat \ {0} /\ DOMAIN fs = 1 .. n /\ DOMAIN gs = 1 .. n + 1 /\ gs[n + 1] = x
      /\ \A k \in 1 .. n : gs[k] = fs[k]
    <2>1. n \in Nat \ {0}
        BY FrontIs
    <2>. QED
        BY <2>1, PushIs
<1>. HIDE DEF gs
<1>2. gs[1] = fs[1]
    BY <1>1
<1>3. ASSUME NEW k \in 1 .. n + 1, gs[k].at \in {"look", "make", "added"}
      PROVE  Emits(fs) \/ x.at \in {"look", "make", "added"}
    <2>1. CASE k = n + 1
        BY <1>1, <1>3, <2>1
    <2>2. CASE k \in 1 .. n
        BY <1>1, <1>3, <2>2 DEF Emits
    <2>. QED
        BY <1>1, <1>3, <2>1, <2>2
<1>4. Emits(gs) => Emits(fs) \/ x.at \in {"look", "make", "added"}
    BY <1>1, <1>3 DEF Emits
<1>. QED
    BY <1>2, <1>4 DEF gs

LEMMA Holding ==
    ASSUME BridgeInv, NEW t \in Threads, frames[t] # <<>>
    PROVE  /\ StackOK(frames[t]) /\ Formed(frames[t]) /\ frames[t] \in Seq(Frame)
           /\ Innermost(t) = Last(frames[t]) /\ Innermost(t) \in Frame /\ Rest(t) = Front(frames[t])
           /\ Innermost(t).at \in Passing => IsInjective(Innermost(t).left)
           /\ Innermost(t).record.id = frames[t][1].record.id
           /\ DOMAIN frames = Threads
<1>1. StackOK(frames[t]) /\ Formed(frames[t]) /\ frames[t] \in Seq(Frame) /\ DOMAIN frames = Threads
    BY InvIs DEF StackOK, Formed
<1>2. PICK fs \in Seq(Frame) : fs = frames[t]
    BY <1>1
<1>3. Len(fs) \in DOMAIN fs /\ Last(fs) = fs[Len(fs)] /\ Last(fs) \in Frame
    BY <1>2, FrontIs
<1>4. Placed(fs, Len(fs))
    BY <1>1, <1>2, <1>3 DEF Formed
<1>5. (Last(fs).at \in Passing => IsInjective(Last(fs).left)) /\ Last(fs).record.id = fs[1].record.id
    BY <1>3, <1>4 DEF Placed
<1>. QED
    BY <1>1, <1>2, <1>3, <1>5 DEF Innermost, Rest

\* A step that only moves the frames of its thread, and may raise.
LEMMA MayRaise ==
    ASSUME BridgeInv, NEW t \in Threads, frames[t] # <<>>, NEW gs, StackOK(gs),
           gs # <<>> => gs[1].record.id = frames[t][1].record.id,
           Emits(gs) => Emits(frames[t]) \/ Free(t),
           frames' = [frames EXCEPT ![t] = gs],
           UNCHANGED <<fromName, byName, named, origin, added, written>>, ThrownOK'
    PROVE  BridgeInv'
<1>1. StackOK(gs)'
    <2>1. Formed(gs)' /\ Original(gs)' /\ Making(gs)'
        BY DEF StackOK, Formed, Placed, Apart, Original, Making, ToMake
    <2>2. \A r, g : Ungiven(r, g) => Ungiven(r, g)'
        BY DEF Ungiven
    <2>3. \A id : Uncaptured(id) => Uncaptured(id)'
        BY DEF Uncaptured
    <2>4. Fresh(gs)'
        BY <2>2, <2>3 DEF StackOK, Fresh
    <2>. QED
        BY <2>1, <2>4 DEF StackOK
<1>2. PICK id : id = frames[t][1].record.id
    OBVIOUS
<1>3. Grows(origin, origin', Origins)
    BY DEF Grows
<1>4. DOMAIN frames' = Threads /\ (\A fs \in Range(frames) : StackOK(fs))' /\ AloneInEmit'
    BY <1>1, <1>2, <1>3, ThreadsKeep
<1>5. OriginOK' /\ NamedOK' /\ WrittenOK' /\ AddedOK'
    BY DEF BridgeInv, OriginOK, NamedOK, WrittenOK, WrittenFits, AddedOK, AddedFits
<1>. QED
    BY <1>4, <1>5 DEF BridgeInv

\* A step that only moves the frames of its thread.
LEMMA OnlyMoves ==
    ASSUME BridgeInv, NEW t \in Threads, frames[t] # <<>>, NEW gs, StackOK(gs),
           gs # <<>> => gs[1].record.id = frames[t][1].record.id,
           Emits(gs) => Emits(frames[t]) \/ Free(t),
           frames' = [frames EXCEPT ![t] = gs],
           UNCHANGED <<fromName, byName, named, origin, added, written, thrown>>
    PROVE  BridgeInv'
<1>1. ThrownOK'
    BY DEF BridgeInv, ThrownOK
<1>. QED
    BY <1>1, MayRaise

\* A handler writes the record the last frame holds.
LEMMA Writes ==
    ASSUME BridgeAssumption, BridgeInv, NEW t \in Threads, frames[t] # <<>>,
           Innermost(t).at \in Passing, NEW h \in Range(Innermost(t).left),
           NEW x, Follows(Innermost(t), x), h \notin Range(x.left),
           frames' = [frames EXCEPT ![t] = Append(Rest(t), x)],
           written' = Append(written, Entry(Innermost(t).record, h)),
           UNCHANGED <<fromName, byName, named, origin, added, thrown>>
    PROVE  BridgeInv'
<1>1. PICK fs \in Seq(Frame) :
          /\ fs = frames[t] /\ StackOK(fs) /\ Formed(fs) /\ fs # <<>>
          /\ Innermost(t) = Last(fs) /\ Rest(t) = Front(fs) /\ Last(fs) \in Frame
          /\ Last(fs).record.id = fs[1].record.id
    BY Holding
<1>. DEFINE r == Last(fs).record
            w == Entry(r, h)
            gs == Append(Front(fs), x)
<1>2. /\ StackOK(gs) /\ gs # <<>> /\ Last(gs) = x
      /\ gs[1].record = fs[1].record /\ (Emits(gs) => Emits(fs))
    <2>1. x.at # "make"
        BY <1>1 DEF Follows, Passing
    <2>. QED
        BY <1>1, <2>1, StackReplaced, ReplacedIs
<1>3. x.record = r /\ x.at = Last(fs).at
    BY <1>1 DEF Follows, Passing
<1>4. /\ w.id = r.id /\ w.by = h /\ w.level = r.level /\ w.through = r.through
      /\ h \in DOMAIN Threshold \cup DOMAIN MinLevel
      /\ (Last(fs).at = "stdlib" => h \in DOMAIN Threshold)
    <2>1. /\ Last(fs).at = "stdlib" => h \in DOMAIN Threshold
          /\ Last(fs).at = "channel" => h \in DOMAIN MinLevel
        BY <1>1, FrameIs, RangeTyped
    <2>. QED
        BY <1>1, <2>1 DEF Entry, Passing
<1>5. w \in Entries
    BY <1>1, <1>4, FrameIs DEF Entry, Entries, CrossingRecord
<1>6. /\ r.id \in DOMAIN origin /\ Narrow(r.through)
      /\ origin[r.id].kind = "channel" => CaptureHandler \notin r.through
      /\ Last(fs).at = "channel" /\ origin[r.id].kind # "channel" =>
             r.level = FromStdlib(origin[r.id].number)
    BY <1>1, LastIs
<1>. HIDE DEF w, gs
<1>7. Histories /\ written' = Append(written, w)
    BY <1>1, InvIs DEF w
<1>8. StackOK(gs)'
    BY <1>1, <1>2, <1>3, <1>4, <1>5, <1>7, StackWritten DEF Histories
<1>9. DOMAIN frames' = Threads /\ (\A f \in Range(frames) : StackOK(f))' /\ AloneInEmit'
    <2>1. Grows(origin, origin', Origins)
        BY DEF Grows
    <2>2. written' = written \/ \E e \in Entries : e.id = r.id /\ written' = Append(written, e)
        BY <1>4, <1>5, <1>7
    <2>3. frames' = [frames EXCEPT ![t] = gs]
        BY <1>1 DEF gs
    <2>4. PICK id : id = r.id
        OBVIOUS
    <2>5. /\ frames[t] # <<>> => frames[t][1].record.id = id
          /\ gs # <<>> => gs[1].record.id = id
          /\ frames[t] = <<>> => id \notin DOMAIN origin
          /\ Emits(gs) => Emits(frames[t]) \/ Free(t)
          /\ added' = added \/ \E d \in Additions : d.id = id /\ added' = Append(added, d)
          /\ byName' = byName \/ Emits(frames[t])
        BY <1>1, <1>2, <2>4
    <2>6. written' = written \/ \E e \in Entries : e.id = id /\ written' = Append(written, e)
        BY <2>2, <2>4
    <2>. QED
        BY <1>8, <2>1, <2>3, <2>5, <2>6, ThreadsKeep
<1>10. PICK n \in Nat : n = Len(written) /\ DOMAIN written = 1 .. n
    BY <1>7 DEF Histories
<1>11. /\ written' \in Seq(Entries) /\ DOMAIN written' = 1 .. n + 1 /\ written'[n + 1] = w
       /\ \A i \in 1 .. n : written'[i] = written[i]
    BY <1>5, <1>7, <1>10, PushIs DEF Histories
<1>12. WrittenFits(w)
    <2>1. origin[w.id].kind # "channel" /\ w.by \in DOMAIN MinLevel => w.level = FromStdlib(origin[w.id].number)
        <3>1. DOMAIN Threshold \cap DOMAIN MinLevel = {}
            BY DEF BridgeAssumption
        <3>. QED
            BY <1>1, <1>4, <1>6, <3>1 DEF Passing
    <2>. QED
        BY <1>4, <1>6, <2>1 DEF WrittenFits
<1>13. ASSUME NEW i \in 1 .. n, written[i].id = w.id, written[i].by = w.by, written[i].through = w.through
       PROVE  FALSE
    <2>1. Len(fs) \in DOMAIN fs /\ Last(fs) = fs[Len(fs)]
        BY <1>1, FrontIs
    <2>2. Ungiven(r, h)
        BY <1>1, <2>1 DEF StackOK, Fresh
    <2>. QED
        BY <1>4, <1>10, <1>13, <2>2 DEF Ungiven
<1>14. WrittenOK'
    <2>1. WrittenOK
        BY DEF BridgeInv
    <2>2. \A i \in DOMAIN written' : WrittenFits(written[i])'
        <3>. SUFFICES ASSUME NEW i \in 1 .. n + 1, NEW v, v = written'[i] PROVE WrittenFits(v)'
            BY <1>11 DEF WrittenFits
        <3>1. WrittenFits(v)
            BY <1>10, <1>11, <1>12, <2>1 DEF WrittenOK
        <3>. QED
            BY <3>1 DEF WrittenFits
    <2>3. \A i, j \in DOMAIN written' :
              written'[i].id = written'[j].id /\ written'[i].by = written'[j].by
              /\ written'[i].through = written'[j].through => i = j
        <3>. SUFFICES ASSUME NEW i \in 1 .. n + 1, NEW j \in 1 .. n + 1,
                             written'[i].id = written'[j].id, written'[i].by = written'[j].by,
                             written'[i].through = written'[j].through
                      PROVE  i = j
            BY <1>11
        <3>1. CASE i \in 1 .. n /\ j \in 1 .. n
            BY <1>10, <1>11, <2>1, <3>1 DEF WrittenOK
        <3>2. CASE i = n + 1 /\ j \in 1 .. n
            BY <1>11, <1>13, <3>2
        <3>3. CASE j = n + 1 /\ i \in 1 .. n
            BY <1>11, <1>13, <3>3
        <3>. QED
            BY <3>1, <3>2, <3>3
    <2>. QED
        BY <1>11, <2>2, <2>3 DEF WrittenOK
<1>15. AddedOK' /\ ThrownOK' /\ OriginOK' /\ NamedOK'
    BY DEF BridgeInv, AddedOK, AddedFits, ThrownOK, OriginOK, NamedOK
<1>. QED
    BY <1>9, <1>14, <1>15 DEF BridgeInv

LEMMA OfferKeeps ==
    ASSUME BridgeAssumption, BridgeInv, NEW t \in Threads, Offer(t)
    PROVE  BridgeInv'
<1>1. /\ frames[t] # <<>> /\ Innermost(t).at = "stdlib" /\ Innermost(t).left # <<>>
      /\ UNCHANGED <<fromName, byName, named, origin, added, thrown>>
    BY DEF Offer, Is
<1>2. PICK fs \in Seq(Frame) :
          /\ fs = frames[t] /\ StackOK(fs) /\ Formed(fs) /\ fs # <<>>
          /\ Innermost(t) = Last(fs) /\ Rest(t) = Front(fs) /\ Last(fs) \in Frame
          /\ IsInjective(Last(fs).left) /\ Last(fs).record.id = fs[1].record.id
    BY <1>1, Holding DEF Passing
<1>. DEFINE f == Last(fs)
            h == Head(f.left)
            r == f.record
            x == [f EXCEPT !.left = Tail(@)]
            gs == Append(Front(fs), x)
<1>3. Follows(f, x) /\ x.at = f.at /\ h \in Range(f.left) /\ h \notin Range(x.left)
    BY <1>1, <1>2, PassedOn DEF Passing
<1>4. Passed(t) = x
    BY <1>2 DEF Passed
<1>. HIDE DEF x
<1>5. /\ StackOK(gs) /\ gs # <<>> /\ gs \in Seq(Frame) /\ Len(gs) = Len(fs) /\ Last(gs) = x
      /\ gs[1].record = fs[1].record /\ (Emits(gs) => Emits(fs))
    BY <1>1, <1>2, <1>3, StackReplaced, ReplacedIs
<1>6. ASSUME frames' = [frames EXCEPT ![t] = gs], written' = written PROVE BridgeInv'
    <2>. HIDE DEF gs
    <2>. QED
        BY <1>1, <1>2, <1>5, <1>6, OnlyMoves
<1>7. CASE r.number < Threshold[h]
    BY <1>2, <1>4, <1>6, <1>7 DEF Offer, To
<1>8. CASE ~(r.number < Threshold[h]) /\ h # CaptureHandler
    <2>1. frames' = [frames EXCEPT ![t] = Append(Rest(t), x)] /\ written' = Append(written, Entry(r, h))
        BY <1>2, <1>4, <1>8 DEF Offer, To
    <2>. QED
        BY <1>1, <1>2, <1>3, <2>1, Writes DEF Passing
<1>9. CASE ~(r.number < Threshold[h]) /\ h = CaptureHandler
    <2>1. Free(t) /\ written' = written
        BY <1>2, <1>4, <1>9 DEF Offer, To
    <2>2. CASE r.marked
        BY <1>2, <1>4, <1>6, <1>9, <2>2 DEF Offer, To, Refused
    <2>3. CASE ~r.marked
        <3>. DEFINE look == [at |-> "look", record |-> r]
                    ls == Append(gs, look)
        <3>1. frames' = [frames EXCEPT ![t] = ls]
            BY <1>2, <1>4, <1>9, <2>3 DEF Offer, To, Refused
        <3>2. look \in Frame /\ look.at = "look" /\ look.record = r
            BY <1>2, FrameIs DEF Frame
        <3>. HIDE DEF look
        <3>3. Len(fs) = 1 /\ fs[1] = f /\ DOMAIN fs = {1}
            <4>1. Len(fs) \in DOMAIN fs /\ f = fs[Len(fs)] /\ DOMAIN fs = 1 .. Len(fs)
                BY <1>2, FrontIs
            <4>2. Placed(fs, Len(fs))
                BY <1>2, <4>1 DEF Formed
            <4>3. Len(fs) = 1
                BY <1>1, <1>2, <2>3, <4>1, <4>2 DEF Placed
            <4>. QED
                BY <4>1, <4>3
        <3>4. gs[1] = x /\ x.record = r /\ x.at = "stdlib"
            BY <1>1, <1>2, <1>3, <1>5, <3>3 DEF Last, Follows
        <3>. HIDE DEF gs
        <3>5. /\ ls \in Seq(Frame) /\ Len(ls) = 2 /\ ls[2] = look /\ ls[1] = x
            <4>1. /\ Append(gs, look) \in Seq(Frame) /\ Len(Append(gs, look)) = Len(gs) + 1
                  /\ Append(gs, look)[Len(gs) + 1] = look
                  /\ \A k \in 1 .. Len(gs) : Append(gs, look)[k] = gs[k]
                BY <1>5, <3>2, PushIs
            <4>2. Len(gs) = 1
                BY <1>5, <3>3
            <4>. QED
                BY <3>4, <4>1, <4>2
        <3>6. Placed(ls, 2)
            <4>. HIDE DEF ls
            <4>. QED
                BY <1>3, <1>9, <3>2, <3>4, <3>5 DEF Placed, Passing
        <3>7. Formed(ls)
            <4>1. x.at \notin {"look", "make"} /\ look.at \notin Passing /\ Formed(gs)
                BY <1>5, <3>2, <3>4 DEF Passing, StackOK
            <4>2. Placed(Append(gs, look), Len(gs) + 1)
                <5>1. Len(gs) + 1 = 2
                    BY <1>5, <3>3
                <5>. QED
                    BY <3>6, <5>1
            <4>. QED
                BY <1>5, <3>2, <4>1, <4>2, FormedPushed
        <3>8. Uncaptured(r.id)
            <4>1. 1 \in DOMAIN fs /\ fs[1].at = "stdlib" /\ CaptureHandler \in Range(fs[1].left)
                BY <1>1, <1>2, <1>3, <1>9, <3>3
            <4>. QED
                BY <1>2, <3>3, <4>1 DEF StackOK, Fresh
        <3>9. StackOK(ls) /\ ls # <<>>
            BY <1>5, <3>2, <3>7, <3>8, StackPushed DEF Passing
        <3>10. ls[1].record.id = frames[t][1].record.id
            BY <1>2, <3>3, <3>4, <3>5
        <3>. HIDE DEF ls
        <3>. QED
            BY <1>1, <2>1, <3>1, <3>9, <3>10, OnlyMoves
    <2>. QED
        BY <2>2, <2>3
<1>. QED
    BY <1>7, <1>8, <1>9

LEMMA HandleKeeps ==
    ASSUME BridgeAssumption, BridgeInv, NEW t \in Threads, Handle(t)
    PROVE  BridgeInv'
<1>1. /\ frames[t] # <<>> /\ Innermost(t).at = "channel" /\ Innermost(t).left # <<>>
      /\ UNCHANGED <<fromName, byName, named, origin, added, thrown>>
    BY DEF Handle, Is
<1>2. PICK fs \in Seq(Frame) :
          /\ fs = frames[t] /\ StackOK(fs) /\ Formed(fs) /\ fs # <<>>
          /\ Innermost(t) = Last(fs) /\ Rest(t) = Front(fs) /\ Last(fs) \in Frame
          /\ IsInjective(Last(fs).left) /\ Last(fs).record.id = fs[1].record.id
    BY <1>1, Holding DEF Passing
<1>. DEFINE f == Last(fs)
            h == Head(f.left)
            r == f.record
            n == RelayTo[h]
            stops == r.level < MinLevel[h] \/ (h \in Relays /\ ToStdlib[r.level] < Enabled[n])
<1>3. PICK p, b \in Frame :
          /\ p = Passed(t) /\ b = Bubbled(t, h)
          /\ Follows(f, p) /\ Follows(f, b) /\ p.at = f.at /\ b.at = f.at
          /\ h \in Range(f.left) /\ h \notin Range(b.left)
    <2>1. PICK p, q \in Frame :
              /\ p = [f EXCEPT !.left = Tail(@)] /\ q = [f EXCEPT !.left = <<>>]
              /\ Follows(f, p) /\ Follows(f, q) /\ p.at = f.at /\ q.at = f.at
              /\ h \in Range(f.left) /\ h \notin Range(p.left) /\ h \notin Range(q.left)
        <3>1. Follows(f, [f EXCEPT !.left = Tail(@)]) /\ Follows(f, [f EXCEPT !.left = <<>>])
            BY <1>1, <1>2, PassedOn DEF Passing
        <3>2. [f EXCEPT !.left = Tail(@)] \in Frame /\ [f EXCEPT !.left = <<>>] \in Frame
            BY <3>1 DEF Follows
        <3>. QED
            BY <1>1, <1>2, <3>1, <3>2, PassedOn DEF Passing
    <2>2. Passed(t) = p
        BY <1>2, <2>1 DEF Passed
    <2>3. Bubbled(t, h) \in {p, q}
        BY <1>2, <2>1 DEF Bubbled
    <2>. QED
        BY <2>1, <2>2, <2>3
<1>4. CASE stops
    <2>1. frames' = [frames EXCEPT ![t] = Append(Front(fs), p)] /\ written' = written
        BY <1>2, <1>3, <1>4 DEF Handle, To
    <2>2. /\ StackOK(Append(Front(fs), p)) /\ Append(Front(fs), p) # <<>>
          /\ Append(Front(fs), p)[1].record = fs[1].record /\ (Emits(Append(Front(fs), p)) => Emits(fs))
        BY <1>1, <1>2, <1>3, StackReplaced, ReplacedIs
    <2>. QED
        BY <1>1, <1>2, <2>1, <2>2, OnlyMoves
<1>5. CASE ~stops /\ h \notin Relays
    <2>1. frames' = [frames EXCEPT ![t] = Append(Rest(t), b)] /\ written' = Append(written, Entry(r, h))
        BY <1>2, <1>3, <1>5 DEF Handle, To
    <2>. QED
        BY <1>1, <1>2, <1>3, <2>1, Writes DEF Passing
<1>6. CASE ~stops /\ h \in Relays
    <2>. DEFINE gs == Append(Front(fs), b)
                x == ToLogger(n, Marked(r, h))
    <2>1. frames' = [frames EXCEPT ![t] = Front(fs) \o <<b, x>>] /\ written' = written
        BY <1>2, <1>3, <1>6 DEF Handle, To
    <2>2. /\ StackOK(gs) /\ gs # <<>> /\ gs \in Seq(Frame) /\ Last(gs) = b
          /\ gs[1].record = fs[1].record /\ (Emits(gs) => Emits(fs))
        BY <1>1, <1>2, <1>3, StackReplaced, ReplacedIs
    <2>3. Ungiven(r, h)
        <3>1. Len(fs) \in DOMAIN fs /\ f = fs[Len(fs)]
            BY <1>2, FrontIs
        <3>. QED
            BY <1>1, <1>2, <1>3, <3>1 DEF StackOK, Fresh, Passing
    <2>4. Last(gs).record = r /\ Last(gs).at = "channel"
        BY <1>1, <1>2, <1>3, <2>2 DEF Follows
    <2>5. x \in Frame /\ StackOK(Append(gs, x)) /\ Append(gs, x) # <<>> /\ x.at = "stdlib"
        <3>. HIDE DEF gs
        <3>1. x.at = "stdlib"
            BY DEF ToLogger
        <3>. QED
            BY <1>3, <1>6, <2>2, <2>3, <2>4, <3>1, HandedOver
    <2>. HIDE DEF x
    <2>6. Front(fs) \o <<b, x>> = Append(gs, x)
        BY <1>2, <1>3, <2>5, FrontIs
    <2>. HIDE DEF gs
    <2>7. Append(gs, x)[1] = gs[1] /\ (Emits(Append(gs, x)) => Emits(gs))
        BY <2>2, <2>5, PushedIs
    <2>. QED
        BY <1>1, <1>2, <2>1, <2>2, <2>5, <2>6, <2>7, OnlyMoves
<1>. QED
    BY <1>4, <1>5, <1>6

LEMMA ReturnKeeps ==
    ASSUME BridgeInv, NEW t \in Threads, Return(t)
    PROVE  BridgeInv'
<1>1. /\ frames[t] # <<>> /\ frames' = [frames EXCEPT ![t] = Front(frames[t])]
      /\ UNCHANGED <<fromName, byName, named, origin, added, written, thrown>>
    BY DEF Return, To, Rest
<1>2. PICK fs \in Seq(Frame) : fs = frames[t] /\ StackOK(fs) /\ fs # <<>>
    BY <1>1, Holding
<1>3. PICK n \in 0 .. Len(fs) : n = Len(fs) - 1 /\ Front(fs) = SubSeq(fs, 1, n)
    <2>1. Len(fs) \in Nat \ {0} /\ Front(fs) = SubSeq(fs, 1, Len(fs) - 1)
        BY <1>2, FrontIs
    <2>2. Len(fs) - 1 \in 0 .. Len(fs)
        BY <2>1
    <2>. QED
        BY <2>1, <2>2
<1>. DEFINE gs == SubSeq(fs, 1, n)
<1>4. StackOK(gs)
    BY <1>2, StackCut
<1>5. /\ gs \in Seq(Frame) /\ DOMAIN gs = 1 .. n /\ DOMAIN fs = 1 .. Len(fs) /\ Len(fs) \in Nat /\ Len(gs) = n
      /\ \A k \in 1 .. n : gs[k] = fs[k]
    BY <1>2, CutIs
<1>. HIDE DEF gs
<1>6. (gs # <<>> => gs[1] = fs[1]) /\ (Emits(gs) => Emits(fs))
    <2>1. gs # <<>> => n > 0
        BY <1>5, EmptySeq
    <2>2. Emits(gs) => Emits(fs)
        BY <1>5 DEF Emits
    <2>. QED
        BY <1>5, <2>1, <2>2
<1>. QED
    BY <1>1, <1>2, <1>3, <1>4, <1>6, OnlyMoves DEF gs

LEMMA RaiseKeeps ==
    ASSUME BridgeAssumption, BridgeInv, NEW t \in Threads, Raise(t)
    PROVE  BridgeInv'
<1>1. /\ frames[t] # <<>> /\ Innermost(t).at = "channel"
      /\ frames' = [frames EXCEPT ![t] = Caught(frames[t])]
      /\ thrown' = IF Caught(frames[t]) = <<>> THEN thrown \cup {Innermost(t).record.id} ELSE thrown
      /\ UNCHANGED <<fromName, byName, named, origin, added, written>>
    BY DEF Raise, Is, To
<1>2. PICK fs \in Seq(Frame) :
          /\ fs = frames[t] /\ StackOK(fs) /\ Formed(fs) /\ fs # <<>> /\ Innermost(t) = Last(fs)
    BY <1>1, Holding
<1>. DEFINE r == Last(fs).record
            emits == {i \in DOMAIN fs : fs[i].at = "added"}
<1>3. /\ r.id \in DOMAIN origin
      /\ origin[r.id].kind # "channel" => Len(fs) = 3 /\ fs[2].at = "added"
    BY <1>1, <1>2, LastIs DEF Passing
<1>4. Len(fs) \in Nat /\ DOMAIN fs = 1 .. Len(fs)
    BY <1>2
<1>5. emits = {} \/ emits = {2}
    <2>1. \A i \in emits : Placed(fs, i)
        BY <1>2 DEF Formed
    <2>2. \A i \in emits : i = 2
        BY <2>1 DEF Placed
    <2>. QED
        BY <2>2
<1>6. PICK n \in 0 .. Len(fs) : Caught(fs) = SubSeq(fs, 1, n) /\ (n = 0 => emits = {})
    <2>1. CASE emits = {}
        <3>1. Caught(fs) = <<>> /\ SubSeq(fs, 1, 0) = <<>> /\ 0 \in 0 .. Len(fs)
            <4>1. Caught(fs) = <<>>
                BY <2>1, Zenon DEF Caught
            <4>2. SubSeq(fs, 1, 0) = <<>>
                BY <1>2, <1>4
            <4>. QED
                BY <1>4, <4>1, <4>2
        <3>. QED
            BY <2>1, <3>1
    <2>2. CASE emits = {2}
        <3>1. PICK two \in 0 .. Len(fs) : two = 2 /\ two # 0
            BY <1>4, <2>2
        <3>2. Caught(fs) = SubSeq(fs, 1, CHOOSE i \in emits : \A j \in emits : j <= i)
            BY <2>2, Zenon DEF Caught
        <3>. HIDE DEF emits
        <3>3. (CHOOSE i \in emits : \A j \in emits : j <= i) = 2
            BY <2>2
        <3>4. Caught(fs) = SubSeq(fs, 1, two)
            BY ONLY <3>1, <3>2, <3>3, Zenon
        <3>. QED
            BY ONLY <3>1, <3>4, Zenon
    <2>. QED
        BY <1>5, <2>1, <2>2
<1>. DEFINE gs == SubSeq(fs, 1, n)
<1>7. /\ gs \in Seq(Frame) /\ DOMAIN gs = 1 .. n /\ Len(gs) = n /\ \A k \in 1 .. n : gs[k] = fs[k]
    BY <1>2, CutIs
<1>8. StackOK(gs)
    BY <1>2, StackCut
<1>9. gs = Caught(fs)
    BY <1>6
<1>. HIDE DEF gs
<1>10. (gs # <<>> => gs[1] = fs[1]) /\ (Emits(gs) => Emits(fs)) /\ (gs = <<>> => emits = {})
    <2>1. gs # <<>> => n > 0
        BY <1>7, EmptySeq
    <2>2. Emits(gs) => Emits(fs)
        BY <1>4, <1>7 DEF Emits
    <2>3. gs = <<>> => n = 0
        BY <1>7
    <2>. QED
        BY <1>6, <1>7, <2>1, <2>2, <2>3
<1>11. ThrownOK'
    <2>1. gs = <<>> => origin[r.id].kind = "channel"
        BY <1>3, <1>4, <1>10
    <2>2. thrown' = IF gs = <<>> THEN thrown \cup {r.id} ELSE thrown
        BY <1>1, <1>2, <1>9
    <2>. QED
        BY <1>1, <1>3, <2>1, <2>2 DEF BridgeInv, ThrownOK
<1>. QED
    BY <1>1, <1>2, <1>8, <1>9, <1>10, <1>11, MayRaise

\* emit() puts the record on a channel that fits.
LEMMA CrossingKeeps ==
    ASSUME BridgeAssumption, BridgeInv, NEW t \in Threads, frames[t] # <<>>,
           Innermost(t).at \in {"look", "make"}, NEW c \in DOMAIN Stack \cup Names, Add(t, c),
           AddedFits([id |-> Innermost(t).record.id, channel |-> c]),
           NamedOK', UNCHANGED <<fromName, origin, written, thrown>>
    PROVE  BridgeInv'
<1>1. PICK fs \in Seq(Frame) :
          /\ fs = frames[t] /\ StackOK(fs) /\ fs # <<>>
          /\ Innermost(t) = Last(fs) /\ Rest(t) = Front(fs) /\ Last(fs) \in Frame
    BY Holding
<1>. DEFINE f == Last(fs)
            d == [f EXCEPT !.at = "added"]
            x == ToChannel(c, Captured(f.record))
            gs == Append(Append(Front(fs), d), x)
            id == f.record.id
            e == [id |-> id, channel |-> c]
<1>2. /\ frames' = [frames EXCEPT ![t] = Front(fs) \o <<d, x>>] /\ added' = Append(added, e)
    BY <1>1 DEF Add, To
<1>3. /\ d \in Frame /\ x \in Frame /\ StackOK(gs) /\ gs # <<>> /\ gs[1].record.id = id
      /\ (\A k \in DOMAIN gs : gs[k].at \notin {"look", "make"}) /\ CaptureHandler \notin Range(gs[1].left)
      /\ f.record = fs[1].record /\ fs[1].at = "stdlib" /\ Uncaptured(id)
    BY <1>1, PutOnChannel
<1>. HIDE DEF d, x
<1>4. frames' = [frames EXCEPT ![t] = gs]
    <2>1. fs \in Seq(Frame) /\ fs # <<>> /\ d \in Frame /\ x \in Frame
        BY <1>1, <1>3
    <2>2. Front(fs) \o <<d, x>> = gs
        BY ONLY <2>1, FrontIs
    <2>. QED
        BY ONLY <1>2, <2>2
<1>. HIDE DEF gs
<1>5. StackOK(gs)'
    BY <1>3, StackAdded
<1>6. e \in Additions /\ AddedFits(e)
    BY <1>1, FrameIs DEF Additions, CrossingRecord
<1>7. PICK i \in Nat : i = id
    BY <1>6 DEF Additions
<1>8. Emits(frames[t])
    <2>1. Len(fs) \in DOMAIN fs /\ fs[Len(fs)] = f
        BY <1>1, FrontIs
    <2>. QED
        BY <1>1, <2>1 DEF Emits
<1>9. DOMAIN frames' = Threads /\ (\A g \in Range(frames) : StackOK(g))' /\ AloneInEmit'
    <2>1. added' = added \/ \E b \in Additions : b.id = i /\ added' = Append(added, b)
        BY <1>2, <1>6, <1>7
    <2>2. Grows(origin, origin', Origins)
        BY DEF Grows
    <2>3. /\ frames[t] # <<>> => frames[t][1].record.id = i
          /\ gs # <<>> => gs[1].record.id = i
        BY <1>1, <1>3, <1>7
    <2>. QED
        BY <1>4, <1>5, <1>8, <2>1, <2>2, <2>3, ThreadsKeep
<1>. HIDE DEF e
<1>10. PICK n \in Nat : n = Len(added) /\ DOMAIN added = 1 .. n /\ added \in Seq(Additions)
    BY InvIs DEF Histories
<1>11. /\ added' \in Seq(Additions) /\ DOMAIN added' = 1 .. n + 1 /\ added'[n + 1] = e
       /\ \A k \in 1 .. n : added'[k] = added[k]
    BY <1>2, <1>6, <1>10, PushIs
<1>12. AddedOK
    BY DEF BridgeInv
<1>13. \A k \in 1 .. n : added[k].id # e.id
    BY <1>3, <1>10 DEF Uncaptured, e
<1>14. AddedOK'
    <2>1. \A k \in DOMAIN added' : AddedFits(added[k])'
        <3>. SUFFICES ASSUME NEW k \in 1 .. n + 1, NEW v, v = added'[k] PROVE AddedFits(v)'
            BY <1>11 DEF AddedFits
        <3>1. AddedFits(v)
            BY <1>6, <1>10, <1>11, <1>12 DEF AddedOK
        <3>. QED
            BY <3>1 DEF AddedFits
    <2>2. \A k, m \in DOMAIN added' : added'[k].id = added'[m].id => k = m
        <3>. SUFFICES ASSUME NEW k \in 1 .. n + 1, NEW m \in 1 .. n + 1, added'[k].id = added'[m].id
                      PROVE  k = m
            BY <1>11
        <3>1. CASE k \in 1 .. n /\ m \in 1 .. n
            BY <1>10, <1>11, <1>12, <3>1 DEF AddedOK
        <3>2. CASE k = n + 1 /\ m \in 1 .. n
            BY <1>11, <1>13, <3>2
        <3>3. CASE m = n + 1 /\ k \in 1 .. n
            BY <1>11, <1>13, <3>3
        <3>. QED
            BY <3>1, <3>2, <3>3
    <2>. QED
        BY <1>11, <2>1, <2>2 DEF AddedOK
<1>15. WrittenOK' /\ ThrownOK' /\ OriginOK'
    BY DEF BridgeInv, WrittenOK, WrittenFits, ThrownOK, OriginOK
<1>. QED
    BY <1>9, <1>14, <1>15 DEF BridgeInv

\* What emit() was given.
LEMMA EmitIs ==
    ASSUME BridgeInv, NEW t \in Threads, frames[t] # <<>>, Innermost(t).at \in {"look", "make"}
    PROVE  LET r == Innermost(t).record
           IN  /\ r.name \in Names /\ r.id \in DOMAIN origin
               /\ origin[r.id].kind # "channel" /\ origin[r.id].name = r.name
               /\ Innermost(t).at = "make" => ToMake(r.name)
<1>1. PICK fs \in Seq(Frame) :
          /\ fs = frames[t] /\ StackOK(fs) /\ Formed(fs) /\ fs # <<>>
          /\ Innermost(t) = Last(fs) /\ Last(fs) \in Frame
    BY Holding
<1>2. Len(fs) \in DOMAIN fs /\ Last(fs) = fs[Len(fs)] /\ Placed(fs, Len(fs))
    BY <1>1, FrontIs DEF Formed
<1>3. fs[1].at = "stdlib" /\ Last(fs).record = fs[1].record
    BY <1>1, <1>2 DEF Placed
<1>4. Last(fs).record \in CrossingRecord
    BY <1>1, FrameIs
<1>5. Original(fs) /\ Making(fs)
    BY <1>1 DEF StackOK
<1>. QED
    BY <1>1, <1>2, <1>3, <1>4, <1>5 DEF Original, Making, CrossingRecord

LEMMA TargetKeeps ==
    ASSUME BridgeAssumption, BridgeInv, NEW t \in Threads, Target(t)
    PROVE  BridgeInv'
<1>1. /\ frames[t] # <<>> /\ Innermost(t).at = "look"
      /\ UNCHANGED <<fromName, byName, named, origin, written, thrown>>
    BY DEF Target, Is
<1>2. PICK r, n :
          /\ r = Innermost(t).record /\ n = r.name
          /\ n \in Names /\ r.id \in DOMAIN origin
          /\ origin[r.id].kind # "channel" /\ origin[r.id].name = n
    BY <1>1, EmitIs
<1>3. NamedOK'
    BY <1>1 DEF BridgeInv, NamedOK
<1>4. ASSUME NEW c \in DOMAIN Stack \cup Names, Add(t, c),
             IF Matching(n) = {} THEN c = IF fromName THEN n ELSE Base
             ELSE c \in Matching(n) /\ \A m \in Matching(n) : m \in Dotted[c]
      PROVE  BridgeInv'
    <2>1. AddedFits([id |-> Innermost(t).record.id, channel |-> c])
        BY <1>2, <1>4 DEF AddedFits
    <2>. QED
        BY <1>1, <1>3, <1>4, <2>1, CrossingKeeps
<1>5. CASE Matching(n) # {}
    <2>1. Add(t, Route(n))
        BY <1>2, <1>5 DEF Target
    <2>2. Route(n) \in Matching(n) /\ \A m \in Matching(n) : m \in Dotted[Route(n)]
        BY <1>2, <1>5, RouteIs
    <2>3. Route(n) \in DOMAIN Stack
        BY <2>2 DEF BridgeAssumption, Matching
    <2>. QED
        BY <1>4, <1>5, <2>1, <2>2, <2>3
<1>6. CASE Matching(n) = {} /\ ~fromName
    <2>1. Add(t, Base)
        BY <1>2, <1>6 DEF Target
    <2>2. Base \in DOMAIN Stack
        BY DEF BridgeAssumption
    <2>. QED
        BY <1>4, <1>6, <2>1, <2>2
<1>7. CASE Matching(n) = {} /\ fromName /\ n \in byName
    <2>1. Add(t, n)
        BY <1>2, <1>7 DEF Target
    <2>. QED
        BY <1>2, <1>4, <1>7, <2>1
<1>8. CASE ToMake(n)
    <2>1. PICK fs \in Seq(Frame) :
              /\ fs = frames[t] /\ StackOK(fs) /\ Formed(fs) /\ fs # <<>>
              /\ Innermost(t) = Last(fs) /\ Rest(t) = Front(fs) /\ Last(fs) \in Frame
              /\ Last(fs).record.id = fs[1].record.id
        BY <1>1, Holding
    <2>. DEFINE x == [Last(fs) EXCEPT !.at = "make"]
                gs == Append(Front(fs), x)
    <2>2. frames' = [frames EXCEPT ![t] = gs] /\ added' = added
        BY <1>2, <1>8, <2>1 DEF Target, ToMake, To
    <2>3. Follows(Last(fs), x) /\ x.at = "make" /\ x.record.name = n
        <3>1. Last(fs) = [at |-> "look", record |-> r]
            BY <1>1, <1>2, <2>1, FrameIs DEF Passing
        <3>2. x = [at |-> "make", record |-> r]
            BY <3>1
        <3>3. r \in CrossingRecord
            BY <1>2, <2>1, FrameIs
        <3>. HIDE DEF x
        <3>. QED
            BY <1>2, <3>1, <3>2, <3>3 DEF Follows, Frame
    <2>. HIDE DEF x
    <2>4. /\ StackOK(gs) /\ gs # <<>>
          /\ gs[1].record = fs[1].record /\ (Emits(gs) => Emits(fs))
        BY <1>8, <2>1, <2>3, StackReplaced, ReplacedIs
    <2>. HIDE DEF gs
    <2>. QED
        BY <1>1, <2>1, <2>2, <2>4, OnlyMoves
<1>9. fromName \in BOOLEAN
    BY DEF BridgeInv
<1>. QED
    BY <1>5, <1>6, <1>7, <1>8, <1>9 DEF ToMake

LEMMA MakeKeeps ==
    ASSUME BridgeAssumption, BridgeInv, NEW t \in Threads, MakeChannel(t)
    PROVE  BridgeInv'
<1>1. /\ frames[t] # <<>> /\ Innermost(t).at = "make" /\ Add(t, Innermost(t).record.name)
      /\ named' = Append(named, Innermost(t).record.name)
      /\ byName' = byName \cup {Innermost(t).record.name}
      /\ UNCHANGED <<fromName, origin, written, thrown>>
    BY DEF MakeChannel, Is
<1>2. PICK r, n :
          /\ r = Innermost(t).record /\ n = r.name
          /\ n \in Names /\ r.id \in DOMAIN origin
          /\ origin[r.id].kind # "channel" /\ origin[r.id].name = n /\ ToMake(n)
    BY <1>1, EmitIs
<1>3. NamedOK'
    <2>1. named \in Seq(Names) /\ IsInjective(named) /\ byName = Range(named)
        BY DEF BridgeInv, NamedOK
    <2>2. n \notin Range(named) /\ named' = Append(named, n) /\ byName' = byName \cup {n}
        BY <1>1, <1>2, <2>1 DEF ToMake
    <2>3. /\ named' \in Seq(Names) /\ IsInjective(named') /\ Range(named') = Range(named) \cup {n}
        BY <1>2, <2>1, <2>2, PushIs, InjectiveAppend, RangeAppend
    <2>. QED
        BY <2>1, <2>2, <2>3 DEF NamedOK
<1>4. AddedFits([id |-> Innermost(t).record.id, channel |-> n])
    BY <1>2 DEF AddedFits, ToMake
<1>. QED
    BY <1>1, <1>2, <1>3, <1>4, CrossingKeeps

-----------------------------------------------------------------------------
(* The bridge keeps its invariant *)

LEMMA BridgeStarts == ASSUME BridgeAssumption, BridgeInit PROVE BridgeInv
<1>1. /\ fromName \in BOOLEAN /\ frames = [t \in Threads |-> <<>>]
      /\ byName = {} /\ thrown = {}
      /\ named = <<>> /\ origin = <<>> /\ added = <<>> /\ written = <<>>
    BY DEF BridgeAssumption, BridgeInit
<1>2. \A fs \in Range(frames) : StackOK(fs)
    <2>1. \A fs \in Range(frames) : fs = <<>>
        BY <1>1 DEF Range
    <2>2. StackOK(<<>>)
        BY DEF StackOK, Formed, Apart, Original, Fresh, Making
    <2>. QED
        BY <2>1, <2>2
<1>3. AloneInEmit
    BY <1>1 DEF AloneInEmit, Emits
<1>4. OriginOK /\ NamedOK /\ WrittenOK /\ AddedOK /\ ThrownOK
    BY <1>1 DEF OriginOK, NamedOK, WrittenOK, AddedOK, ThrownOK, IsInjective, Range
<1>. QED
    BY <1>1, <1>2, <1>3, <1>4 DEF BridgeInv

LEMMA LoggingKeeps ==
    ASSUME BridgeAssumption, BridgeInv, NEW t \in Threads,
           LogStdlib(t) \/ LogAdapted(t) \/ LogChannel(t)
    PROVE  BridgeInv'
<1>1. Numbers \subseteq Int /\ Asked \subseteq Levels /\ DEBUG \in Levels /\ (CHOOSE n \in Names : TRUE) \in Names
    BY DEF BridgeAssumption, Levels
<1>2. CASE LogStdlib(t)
    <2>1. PICK n \in Names, number \in Numbers : Log(t, "stdlib", n, DEBUG, number)
        BY <1>2 DEF LogStdlib
    <2>. QED
        BY <1>1, <2>1, LogStarts
<1>3. CASE LogAdapted(t)
    <2>1. PICK n \in Names, l \in Asked : Log(t, "adapted", n, l, ToStdlib[l])
        BY <1>3 DEF LogAdapted
    <2>2. l \in Levels /\ ToStdlib[l] \in Int
        BY <1>1, ThereAndBack
    <2>. QED
        BY <2>1, <2>2, LogStarts
<1>4. CASE LogChannel(t)
    <2>1. PICK l \in Asked : Log(t, "channel", CHOOSE n \in Names : TRUE, l, 0)
        BY <1>4 DEF LogChannel
    <2>2. l \in Levels /\ 0 \in Int
        BY <1>1
    <2>. QED
        BY <1>1, <2>1, <2>2, LogStarts
<1>. QED
    BY <1>2, <1>3, <1>4

LEMMA BridgeKeeps == ASSUME BridgeAssumption, BridgeInv, BridgeNext PROVE BridgeInv'
<1>1. PICK t \in Threads :
          \/ LogStdlib(t) \/ LogAdapted(t) \/ LogChannel(t)
          \/ Offer(t) \/ Target(t) \/ MakeChannel(t) \/ Handle(t) \/ Raise(t) \/ Return(t)
    BY DEF BridgeNext
<1>. QED
    BY <1>1, LoggingKeeps, OfferKeeps, TargetKeeps, MakeKeeps, HandleKeeps, RaiseKeeps, ReturnKeeps

LEMMA BridgeStutters == ASSUME BridgeInv, UNCHANGED bridgeVars PROVE BridgeInv'
<1>1. \A fs : StackOK(fs) => StackOK(fs)'
    <2>. SUFFICES ASSUME NEW fs, StackOK(fs) PROVE StackOK(fs)'
        OBVIOUS
    <2>1. Formed(fs)' /\ Original(fs)' /\ Making(fs)'
        BY DEF bridgeVars, StackOK, Formed, Placed, Apart, Original, Making, ToMake
    <2>2. \A r, g : Ungiven(r, g) => Ungiven(r, g)'
        BY DEF bridgeVars, Ungiven
    <2>3. \A id : Uncaptured(id) => Uncaptured(id)'
        BY DEF bridgeVars, Uncaptured
    <2>. QED
        BY <2>1, <2>2, <2>3 DEF StackOK, Fresh
<1>2. frames' = frames /\ fromName' = fromName
    BY DEF bridgeVars
<1>3. AloneInEmit'
    BY <1>2 DEF BridgeInv, AloneInEmit, Emits
<1>4. OriginOK' /\ NamedOK' /\ WrittenOK' /\ AddedOK' /\ ThrownOK'
    BY DEF bridgeVars, BridgeInv, OriginOK, NamedOK, WrittenOK, WrittenFits, AddedOK, AddedFits, ThrownOK
<1>. QED
    BY <1>1, <1>2, <1>3, <1>4 DEF BridgeInv

LEMMA OneRelay ==
    ASSUME BridgeAssumption, NEW T, Narrow(T)
    PROVE  Cardinality(T \cap Relays) <= 1 /\ T \subseteq Relays \cup {CaptureHandler}
<1>1. PICK h \in Relays \cup {CaptureHandler} : T \subseteq {h, CaptureHandler}
    BY DEF Narrow
<1>2. CaptureHandler \notin Relays
    BY DEF BridgeAssumption
<1>3. T \cap Relays = {} \/ T \cap Relays = {h}
    BY <1>1, <1>2
<1>4. Cardinality(T \cap Relays) \in {0, 1}
    BY <1>3, FS_EmptySet, FS_Singleton
<1>. QED
    BY <1>1, <1>4

LEMMA BridgeFollows ==
    ASSUME BridgeAssumption, BridgeInv
    PROVE  BridgeTypeOK /\ LoopsAreCut /\ RightChannel /\ LevelsAgree /\ NeverThrown
<1>1. BridgeTypeOK
    <2>1. ASSUME NEW t \in Threads, NEW i \in DOMAIN frames[t]
          PROVE  frames[t][i].at \in {"stdlib", "look", "make", "added", "channel"}
        <3>1. frames[t][i] \in Frame
            BY <2>1, InvIs
        <3>. QED
            BY <3>1, FrameIs DEF Passing
    <2>2. byName = Range(named) /\ byName \subseteq Names
        BY RangeTyped DEF BridgeInv, NamedOK
    <2>. QED
        BY <2>1, <2>2 DEF BridgeTypeOK, BridgeInv, ThrownOK
<1>2. LoopsAreCut
    <2>1. \A i \in DOMAIN added :
              /\ origin[added[i].id].kind # "channel"
              /\ \A j \in DOMAIN added : added[i].id = added[j].id => i = j
        BY DEF BridgeInv, AddedOK, AddedFits
    <2>2. ASSUME NEW i \in DOMAIN written
          PROVE  LET w == written[i]
                 IN  /\ Cardinality(w.through \cap Relays) <= 1
                     /\ w.through \subseteq Relays \cup {CaptureHandler}
                     /\ origin[w.id].kind = "channel" => CaptureHandler \notin w.through
                     /\ \A j \in DOMAIN written :
                            LET v == written[j]
                            IN  w.id = v.id /\ w.by = v.by /\ w.through = v.through => i = j
        BY <2>2, OneRelay DEF BridgeInv, WrittenOK, WrittenFits
    <2>. QED
        BY <2>1, <2>2 DEF LoopsAreCut
<1>3. RightChannel
    BY DEF BridgeInv, NamedOK, AddedOK, AddedFits, RightChannel
<1>4. LevelsAgree
    <2>. SUFFICES ASSUME NEW i \in DOMAIN written, written[i].by \in DOMAIN MinLevel
                  PROVE  LET w == written[i]
                             o == origin[w.id]
                         IN  /\ o.kind = "adapted" => w.level = o.level
                             /\ o.kind = "stdlib" =>
                                    \A l \in Levels \ {DEBUG} : o.number >= ToStdlib[l] <=> w.level >= l
        BY DEF LevelsAgree
    <2>1. PICK w, o :
              /\ w = written[i] /\ o = origin[w.id] /\ w.id \in DOMAIN origin /\ o \in Origins
              /\ o.kind # "channel" => w.level = FromStdlib(o.number)
              /\ o.kind = "adapted" => o.number = ToStdlib[o.level]
        <3>1. WrittenFits(written[i]) /\ OriginOK
            BY DEF BridgeInv, WrittenOK
        <3>2. written[i].id \in DOMAIN origin /\ origin[written[i].id] \in Origins
            BY <3>1 DEF WrittenFits, OriginOK
        <3>. QED
            BY <3>1, <3>2 DEF WrittenFits, OriginOK
    <2>2. o.kind = "adapted" => w.level = o.level
        BY <2>1, ThereAndBack DEF Origins
    <2>3. o.kind = "stdlib" => \A l \in Levels \ {DEBUG} : o.number >= ToStdlib[l] <=> w.level >= l
        BY <2>1, SameOrder DEF Origins
    <2>. QED
        BY <2>1, <2>2, <2>3
<1>5. NeverThrown
    BY DEF BridgeInv, ThrownOK, NeverThrown
<1>. QED
    BY <1>1, <1>2, <1>3, <1>4, <1>5

-----------------------------------------------------------------------------
(* Each among what is shared with others *)

OutsideInv ==
    /\ Dedup \/ Capture \/ Bridge
    /\ (Dedup => DedupInv) /\ (Capture => CaptureInv) /\ BridgeInv

LEMMA OutsideKeeps == OutsideSpec => []OutsideInv
<1>1. OutsideInit => OutsideInv
    <2>. SUFFICES ASSUME OutsideInit PROVE OutsideInv
        OBVIOUS
    <2>1. BridgeInit
        BY DEF OutsideInit, BridgeRests
    <2>2. (Dedup => DedupInv) /\ (Capture => CaptureInv)
        BY DedupInit, CaptureStarts, OutsideAssumption DEF OutsideInit, Dedup, Capture, Bridge
    <2>3. BridgeInv
        BY <2>1, BridgeStarts, OutsideAssumption
    <2>. QED
        BY <2>2, <2>3 DEF OutsideInv, OutsideInit
<1>2. OutsideInv /\ [OutsideNext]_<<part, vars, captureVars, bridgeVars>> => OutsideInv'
    <2>. SUFFICES ASSUME OutsideInv, [OutsideNext]_<<part, vars, captureVars, bridgeVars>>
                  PROVE  OutsideInv'
        OBVIOUS
    <2>1. ASSUME Dedup' PROVE DedupInv'
        <3>1. Dedup /\ [Next]_vars
            BY <2>1 DEF OutsideNext, Dedup, Capture, Bridge
        <3>. QED
            BY <3>1, DedupNext DEF OutsideInv
    <2>2. ASSUME Capture' PROVE CaptureInv'
        <3>1. Capture /\ (CaptureNext \/ UNCHANGED captureVars)
            BY <2>2 DEF OutsideNext, Dedup, Capture, Bridge
        <3>2. CaptureInv
            BY <3>1 DEF OutsideInv
        <3>3. CaptureAssumption
            BY OutsideAssumption
        <3>. QED
            BY <3>1, <3>2, <3>3, CaptureKeeps, CaptureStutters
    <2>3. BridgeInv'
        <3>1. BridgeNext \/ UNCHANGED bridgeVars
            BY DEF OutsideNext
        <3>. QED
            BY <3>1, BridgeKeeps, BridgeStutters, OutsideAssumption DEF OutsideInv
    <2>4. (Dedup \/ Capture \/ Bridge)'
        BY DEF OutsideInv, OutsideNext, Dedup, Capture, Bridge
    <2>. QED
        BY <2>1, <2>2, <2>3, <2>4 DEF OutsideInv
<1>. QED
    BY <1>1, <1>2, PTL DEF OutsideSpec

\* The store, the captures and the bridge hold what they are meant to: among it, who
\* is installed is so once, what a logger was found with is kept of each that was
\* taken over, and a logger of the standard library that has a channel of its own
\* has one that was made for it.
THEOREM OutsideIsTyped == OutsideSpec => []OutsideTypeOK
<1>1. OutsideInv => OutsideTypeOK
    BY BridgeFollows, OutsideAssumption DEF OutsideInv, OutsideTypeOK, DedupInv, Typed, CaptureInv, CapTyped, Listening, CaptureTypeOK
<1>. QED
    BY <1>1, OutsideKeeps, PTL

\* A record crosses between the library and the standard library once, whatever
\* handlers, routes and levels there are: it is on one channel at most, the nearest
\* route's or its logger's, at the level its number falls into, no handler is given
\* it twice the same way, and what a handler of the channel raises does not reach the
\* code that logged it: stdlib_handler.py, emit(), and stdlib_capture_handler.py,
\* emit(), _target_for() and _capture(), run by several threads.
THEOREM RecordsCrossOnce == OutsideSpec => []CrossedOnce
<1>1. OutsideInv => CrossedOnce
    BY BridgeFollows, OutsideAssumption DEF OutsideInv, CrossedOnce
<1>. QED
    BY <1>1, OutsideKeeps, PTL

\* No alert is sent twice within a window, but for one whose line was lost to a
\* crash, or to a rewrite of the store that raised: deduplication_handler.py,
\* _forward() and _collect_logs(), run by several processes on one store.
THEOREM AlertsAreSentOnce == OutsideSpec => []AlertsOnce
<1>1. OutsideInv => AlertsOnce
    BY DEF OutsideInv, AlertsOnce, DedupInv
<1>. QED
    BY <1>1, OutsideKeeps, PTL

\* What makes a process drop a batch was sent, or noted, before; and collecting the
\* store forgets nothing that is in force, but for what a crash in the middle loses, or
\* a rewrite that raises.
THEOREM StoreStaysTrue == OutsideSpec => []StoreIsTrue
<1>1. OutsideInv => StoreIsTrue
    BY DedupFollows DEF OutsideInv, StoreIsTrue
<1>. QED
    BY <1>1, OutsideKeeps, PTL

\* Once the last capture is released every logger has the handlers, the level and
\* the flags it would have had without any, and a capture that was released is
\* nowhere left, unless its handler was copied by hand: the copy stays, and once it
\* had a capture that is not the last, or was released, take a logger over, the flags
\* may stay as that left them.  stdlib_capture.py, install() and release(), nested
\* and in any order, with what the application does to its loggers meanwhile.
THEOREM LoggersAreGivenBack == OutsideSpec => []GivenBack
<1>1. OutsideInv => GivenBack
    BY GivenBackFollows, OutsideAssumption DEF OutsideInv, GivenBack
<1>. QED
    BY <1>1, OutsideKeeps, PTL

\* While captures are installed the handler of the last one gets every record that
\* is not disabled, once, and no other handler gets any: stdlib_capture.py,
\* _take_over(), hold() and drop().
THEOREM OneHandlerIsLeft == OutsideSpec => []OneOutput
<1>1. OutsideInv => OneOutput
    BY OneWayOutFollows, OutsideAssumption DEF OutsideInv, OneOutput
<1>. QED
    BY <1>1, OutsideKeeps, PTL

\* The capture puts right every logger a record passed on its way to it, whatever
\* was put there by hand: stdlib_capture.py, _take_over_origin().
THEOREM PathsArePutRight == OutsideSpec => PathsAreSwept
<1>1. OutsideInv => (Capture => Sweeps)
    BY SweepsFollows, OutsideAssumption DEF OutsideInv
<1>2. OutsideInv => [Capture => Sweeps]_<<part, captureVars>>
    BY <1>1
<1>. QED
    BY <1>2, OutsideKeeps, PTL DEF PathsAreSwept
=============================================================================
