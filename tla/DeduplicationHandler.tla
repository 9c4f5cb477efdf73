------------------------- MODULE DeduplicationHandler -------------------------
(***************************************************************************)
(* DeduplicationHandler (handler/deduplication_handler.py): on a flush, a  *)
(* batch of records whose alerts were all sent moments ago is dropped      *)
(* whole.  What was sent is noted in a store, a file that processes share  *)
(* and hold alone, by a lock, while they read and write it.                *)
(*                                                                         *)
(* The buffer it fills is that of BufferHandler; here a flush begins with  *)
(* the batch it took.  Each process has a handler of its own.  An entry of *)
(* the store is [key, at]: the level and first line of a message, and the  *)
(* second it was logged at.                                                *)
(***************************************************************************)
EXTENDS Integers, Sequences, SequencesExt, FiniteSets, Selection

CONSTANTS
    Processes, Nobody,
    Keys,       \* the alerts: level and first line
    Low,        \* what is below the deduplication level
    Window,     \* _time
    Day,        \* _ONE_DAY_SECONDS
    LastSecond, \* where the clock stops
    Setups

\* A setup says what may happen: how many flushes there are and of which
\* batches, as [key, age] of their records; whether the store is trusted;
\* whether sending, and reading and writing the store, may raise; how many
\* processes crash.  A line is written whole or not at all.
Logged == [key : Keys \cup {Low}, age : Nat]

ASSUME DedupAssumption ==
    /\ Window \in Nat /\ Day \in Nat /\ LastSecond \in Nat
    /\ Low \notin Keys /\ Nobody \notin Processes
    /\ \A s \in Setups :
           /\ s.batches \subseteq Seq(Logged) \ {<<>>}
           /\ s.trusted \in BOOLEAN /\ s.faulty \in BOOLEAN
           /\ s.flushes \in Nat /\ s.crashes \in Nat /\ s.start \in Seq(Keys \X Nat)

VARIABLES
    setup,
    now,        \* the clock
    store,      \* the lines of the store
    lock,       \* who holds the store: _store_lock and the lock on the file
    phase,      \* where the flush of a process is
    batch,      \* the records it took
    read,       \* the lines it read
    gc,         \* _gc
    crashes,
    decided,    \* history: every decision, in order, and what became of it
    mine,       \* history: the decision of the flush of a process
    lost        \* history: the entries in force that a rewrite, cut short, left out

storeVars == <<store, lock>>
flushVars == <<phase, batch, read, gc, mine>>
crashVars == <<crashes, lost>>
vars == <<setup, now, storeVars, flushVars, crashVars, decided>>

Alert    == [key : Keys, at : Int]
Phases   == {"idle", "enter", "decide", "forward", "collect", "empty", "rewrite"}
Outcomes == {"dropped", "forwarding", "sent", "failed"}

Init ==
    /\ setup \in Setups
    /\ now = 0 /\ lock = Nobody /\ crashes = 0 /\ lost = {}
    /\ store = [i \in DOMAIN setup.start |->
                    [key |-> setup.start[i][1], at |-> 0 - setup.start[i][2]]]
    /\ phase = [p \in Processes |-> "idle"]
    /\ batch = [p \in Processes |-> <<>>] /\ read = batch
    /\ gc = [p \in Processes |-> FALSE]
    /\ mine = [p \in Processes |-> 0]
    /\ decided = <<>>

Tick ==
    /\ now < LastSecond
    /\ now' = now + 1
    /\ UNCHANGED <<setup, storeVars, flushVars, crashVars, decided>>

GoTo(p, to) == phase' = [phase EXCEPT ![p] = to]

-----------------------------------------------------------------------------
(* _exclusive() *)

\* A slip: nobody is kept out.
AnyoneEnters(p) == TRUE

MayEnter(p) == lock = Nobody

\* A slip: an exception leaves the lock taken.
StaysLocked(p) == UNCHANGED lock

\* The lock goes with the block, whichever way it is left.
Unlock(p) == lock' = IF lock = p THEN Nobody ELSE lock

Hold(p) == IF setup.trusted THEN MayEnter(p) /\ lock' = p ELSE UNCHANGED lock

-----------------------------------------------------------------------------
(* _forward() *)

InProgress == {p \in Processes : phase[p] # "idle"}

Flush(p) ==
    /\ phase[p] = "idle"
    /\ Len(decided) + Cardinality(InProgress) < setup.flushes
    /\ \E b \in setup.batches :
           batch' = [batch EXCEPT ![p] =
               [i \in DOMAIN b |-> [key |-> b[i].key, at |-> now - b[i].age]]]
    /\ GoTo(p, "enter")
    /\ UNCHANGED <<setup, now, storeVars, read, gc, mine, crashVars, decided>>

\* _read_store(): nothing of a store that is not trusted.
Enter(p) ==
    /\ phase[p] = "enter"
    /\ Hold(p)
    /\ read' = [read EXCEPT ![p] = IF setup.trusted THEN store ELSE <<>>]
    /\ GoTo(p, "decide")
    /\ UNCHANGED <<setup, now, store, batch, gc, mine, crashVars, decided>>

\* A slip: an entry counts from one window before it was made.
SameOrOlder(e, r) == e.key = r.key /\ e.at >= r.at - 2 * Window

Repeats(e, r) == e.key = r.key /\ e.at > r.at - Window

\* _is_duplicate() goes through the lines from the last to the first that the
\* record repeats, and notices those a day old on its way.
Scanned(lines, r) ==
    SubSeq(lines, 1 + SelectLastInSeq(lines, LAMBDA e : Repeats(e, r)), Len(lines))
IsDuplicate(lines, r) == \E e \in Range(lines) : Repeats(e, r)
SeesOld(lines, r) == \E e \in Range(Scanned(lines, r)) : e.at < now - Day

\* The loop over the records: is one an alert, is one new, which lines are
\* added, was one a day old.  Once one is new all that follow are noted, for
\* the batch is sent.
Weigh(so, r) ==
    IF r.key = Low THEN so
    ELSE LET lines == so.lines \o so.added
             new   == ~setup.trusted \/ ~IsDuplicate(lines, r)
         IN  [so EXCEPT !.alert = TRUE,
                        !.new = @ \/ new,
                        !.added = IF so.new \/ new THEN Append(@, r) ELSE @,
                        !.old = @ \/ (setup.trusted /\ SeesOld(lines, r))]

Verdict(p) ==
    LET after[n \in 0 .. Len(batch[p])] ==
            IF n = 0
            THEN [lines |-> read[p], added |-> <<>>, alert |-> FALSE, new |-> FALSE, old |-> FALSE]
            ELSE Weigh(after[n - 1], batch[p][n])
    IN  after[Len(batch[p])]

Passes(v) == v.new \/ ~v.alert

Decision(p, v, outcome) ==
    [recs |-> batch[p], when |-> now, added |-> v.added, outcome |-> outcome]

\* Where a flush goes when nothing is left to send.
AfterSending(p) == GoTo(p, IF gc'[p] THEN "collect" ELSE "idle")

Decide(p) ==
    LET v == Verdict(p) IN
    /\ phase[p] = "decide"
    /\ store' = IF setup.trusted THEN store \o v.added ELSE store
    /\ gc' = [gc EXCEPT ![p] = @ \/ v.old]
    /\ decided' = Append(decided, Decision(p, v, IF Passes(v) THEN "forwarding" ELSE "dropped"))
    /\ mine' = [mine EXCEPT ![p] = Len(decided')]
    /\ IF Passes(v) THEN GoTo(p, "forward") ELSE AfterSending(p)
    /\ Unlock(p)
    /\ UNCHANGED <<setup, now, batch, read, crashVars>>

\* The disk is full: some lines are added, and the exception takes the batch.
StoreFails(p) ==
    LET v == Verdict(p) IN
    /\ phase[p] = "decide"
    /\ setup.faulty /\ setup.trusted
    /\ \E n \in 1 .. Len(v.added) :
           LET w == [v EXCEPT !.added = SubSeq(@, 1, n - 1)]
           IN  /\ store' = store \o w.added
               /\ decided' = Append(decided, Decision(p, w, "failed"))
    /\ gc' = [gc EXCEPT ![p] = @ \/ v.old]
    /\ GoTo(p, "idle")
    /\ Unlock(p)
    /\ UNCHANGED <<setup, now, batch, read, mine, crashVars>>

Forward(p) ==
    /\ phase[p] = "forward"
    /\ decided' = [decided EXCEPT ![mine[p]].outcome = "sent"]
    /\ UNCHANGED gc
    /\ AfterSending(p)
    /\ UNCHANGED <<setup, now, storeVars, batch, read, mine, crashVars>>

\* The handler that sends raises: the flush ends there.
ForwardFails(p) ==
    /\ phase[p] = "forward"
    /\ setup.faulty
    /\ decided' = [decided EXCEPT ![mine[p]].outcome = "failed"]
    /\ GoTo(p, "idle")
    /\ UNCHANGED <<setup, now, storeVars, batch, read, gc, mine, crashVars>>

-----------------------------------------------------------------------------
(* _collect_logs(): the lines in force are read, the file is emptied and   *)
(* they are written again.                                                 *)

\* A slip: the lines as old as the window go too.
InForceShort(e) == e.at > now - Window

InForce(e) == e.at >= now - Window

Collect(p) ==
    /\ phase[p] = "collect"
    /\ Hold(p)
    /\ read' = [read EXCEPT ![p] = Selected(store, {e \in Range(store) : InForce(e)})]
    /\ GoTo(p, "empty")
    /\ UNCHANGED <<setup, now, store, batch, gc, mine, crashVars, decided>>

Empty(p) ==
    /\ phase[p] = "empty"
    /\ store' = <<>>
    /\ GoTo(p, "rewrite")
    /\ UNCHANGED <<setup, now, lock, batch, read, gc, mine, crashVars, decided>>

Rewrite(p) ==
    /\ phase[p] = "rewrite"
    /\ store' = store \o read[p]
    /\ gc' = [gc EXCEPT ![p] = FALSE]
    /\ GoTo(p, "idle")
    /\ Unlock(p)
    /\ UNCHANGED <<setup, now, batch, read, mine, crashVars, decided>>

\* The disk is full: the file is empty, some lines are written, and the
\* exception leaves with the rest; _gc stays as it is.
RewriteFails(p) ==
    /\ phase[p] = "rewrite"
    /\ setup.faulty
    /\ \E n \in 1 .. Len(read[p]) :
           LET put == SubSeq(read[p], 1, n - 1)
           IN  /\ store' = store \o put
               /\ lost' = lost \cup (Range(read[p]) \ Range(put))
    /\ GoTo(p, "idle")
    /\ Unlock(p)
    /\ UNCHANGED <<setup, now, batch, read, gc, mine, crashes, decided>>

\* The file cannot be opened, or read: nothing is written, and the exception
\* takes a batch that is not decided yet with it.
FileFails(p) ==
    /\ phase[p] \in {"enter", "collect", "empty"}
    /\ setup.faulty /\ setup.trusted
    /\ GoTo(p, "idle")
    /\ Unlock(p)
    /\ UNCHANGED <<setup, now, store, batch, read, gc, mine, crashVars, decided>>

-----------------------------------------------------------------------------
\* What a process is writing to the store.
Writing(p) ==
    CASE phase[p] = "decide" /\ setup.trusted -> Verdict(p).added
      [] phase[p] = "rewrite"                 -> read[p]
      [] OTHER                                -> <<>>

\* A process ends anywhere in a flush, and another takes its place: the
\* system frees the lock, and the store has some of what was being written.
Crash(p) ==
    /\ phase[p] # "idle"
    /\ crashes < setup.crashes
    /\ crashes' = crashes + 1
    /\ \E n \in 0 .. Len(Writing(p)) :
           LET put == SubSeq(Writing(p), 1, n)
           IN  /\ store' = store \o put
               /\ lost' = IF phase[p] = "rewrite" THEN lost \cup (Range(read[p]) \ Range(put)) ELSE lost
               /\ decided' =
                      CASE phase[p] = "decide" ->
                               Append(decided, Decision(p, [Verdict(p) EXCEPT !.added = put], "failed"))
                        [] phase[p] = "forward" -> [decided EXCEPT ![mine[p]].outcome = "failed"]
                        [] OTHER -> decided
    /\ GoTo(p, "idle")
    /\ gc' = [gc EXCEPT ![p] = FALSE]
    /\ Unlock(p)
    /\ UNCHANGED <<setup, now, batch, read, mine>>

Goes(p) ==
    \/ Enter(p) \/ Decide(p) \/ StoreFails(p) \/ Forward(p) \/ ForwardFails(p)
    \/ Collect(p) \/ Empty(p) \/ Rewrite(p) \/ RewriteFails(p) \/ FileFails(p)

Next == Tick \/ \E p \in Processes : Flush(p) \/ Goes(p) \/ Crash(p)

Spec == Init /\ [][Next]_vars

-----------------------------------------------------------------------------
(* Properties *)

TypeOK ==
    /\ setup \in Setups /\ now \in 0 .. LastSecond
    /\ store \in Seq(Alert)
    /\ lock \in Processes \cup {Nobody}
    /\ phase \in [Processes -> Phases]
    /\ lock # Nobody => phase[lock] \in {"decide", "empty", "rewrite"}
    /\ \A p \in Processes : phase[p] = "forward" => decided[mine[p]].outcome = "forwarding"
    /\ \A i \in DOMAIN decided : decided[i].outcome \in Outcomes

Alerts(d) == {r \in Range(d.recs) : r.key # Low}

\* An alert is not sent twice: a batch is sent only if one of its alerts
\* repeats none that any process noted before, within the window and by the
\* clock, but for what was lost as a process crashed, or write_text() raised,
\* between emptying the store and writing it again.  (The store may have
\* forgotten what is older than the window by the clock, even if it is not by
\* the time of a record that waited.)
NoRepeat ==
    setup.trusted => \A j \in DOMAIN decided :
        decided[j].outcome \in {"forwarding", "sent"} /\ Alerts(decided[j]) # {} =>
            \E r \in Alerts(decided[j]) : \A i \in 1 .. j - 1 :
                \A e \in Range(decided[i].added) :
                    Repeats(e, r) => e.at < decided[j].when - Window \/ e \in lost

\* Every alert of a batch that is dropped repeats one within the window that
\* passes `Before` in a decision before, or that was in the store at the start.
Explained(Before(_)) ==
    \A j \in DOMAIN decided :
        decided[j].outcome = "dropped" => \A r \in Alerts(decided[j]) :
            \/ \E i \in 1 .. j - 1 : \E e \in Before(decided[i]) : Repeats(e, r)
            \/ \E i \in DOMAIN setup.start :
                   setup.start[i][1] = r.key /\ 0 - setup.start[i][2] > r.at - Window

\* ... that was sent, or is about to be;
DroppedWasSent ==
    Explained(LAMBDA d : IF d.outcome \in {"forwarding", "sent"} THEN Alerts(d) ELSE {})

\* ... as long as nothing fails or crashes; whatever does, it was noted.
DroppedIsKnown ==
    /\ ~setup.faulty /\ setup.crashes = 0 => DroppedWasSent
    /\ Explained(LAMBDA d : Range(d.added))

\* Collecting loses nothing that is in force, whoever writes meanwhile, but
\* for what a rewrite that a crash or an exception cut short had not written
\* yet; where there is neither it loses nothing.
StoreIsKept ==
    setup.trusted /\ ~(\E p \in Processes : phase[p] = "rewrite") =>
        /\ \A i \in DOMAIN decided : \A e \in Range(decided[i].added) :
               e.at >= now - Window => e \in Range(store) \cup lost
        /\ crashes = 0 /\ ~setup.faulty => lost = {}
=============================================================================
