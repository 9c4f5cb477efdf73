----------------------------- MODULE HandlerTree -----------------------------
(***************************************************************************)
(* How records go down a tree of handlers that wrap each other: streams at *)
(* the leaves; groups (handler/group_handler.py), of which one isolates    *)
(* the failures of its members and one stops at the first that does not    *)
(* fail; filters and buffers.                                              *)
(*                                                                         *)
(* tree[h] is the configuration of a handler: its kind, the handlers it    *)
(* wraps, the levels it takes, whether records bubble past it, and how a   *)
(* stream opens its file.  What the handlers hold is a state st:           *)
(*   files, made, open: what each stream's file holds, whether it exists   *)
(*                      and whether it is open;                            *)
(*   held:              the records in each buffer.                        *)
(* A call on a handler gives the state after it and whether it raised.     *)
(* Here records pass one at a time; the threads of the handlers that lock  *)
(* are the subject of their own modules.                                   *)
(***************************************************************************)
EXTENDS Naturals, Sequences, SequencesExt, FiniteSets

Wrapping == {"group", "whatfailure", "fallback", "filter", "buffer"}
Groups   == {"group", "whatfailure", "fallback"}

Done(st)  == [st |-> st, raised |-> FALSE]
Raised(st) == [st |-> st, raised |-> TRUE]

\* The handlers hs in turn, up to the first that raises.
InTurn(Op(_, _), hs, st) ==
    FoldLeft(LAMBDA so, h : IF so.raised THEN so ELSE Op(h, so.st), Done(st), hs)

\* A slip: the failure goes on.
LetGo(out) == out

\* contextlib.suppress(): what was done is done.
Swallowed(out) == Done(out.st)

\* All of them, whichever raises.
Suppressing(Op(_, _), hs, st) == InTurn(LAMBDA h, s : Swallowed(Op(h, s)), hs, st)

\* A backup is asked while all that were asked raised.
AsksNext(so) == so.tried => so.raised

\* Until one does not raise; the last failure is raised.
UntilOneDoes(Op(_, _), hs, st) ==
    LET Try(so, h) ==
            IF ~AsksNext(so) THEN so
            ELSE LET out == Op(h, so.st)
                 IN  [st |-> out.st, raised |-> out.raised, tried |-> TRUE]
        end == FoldLeft(Try, [st |-> st, raised |-> FALSE, tried |-> FALSE], hs)
    IN  [st |-> end.st, raised |-> end.raised]

-----------------------------------------------------------------------------
(* is_handling() *)

\* A group asks its members, a buffer, a filter and a stream their own level.
RECURSIVE IsHandling(_, _, _)
IsHandling(tree, h, r) ==
    IF tree[h].kind \in Groups
    THEN \E m \in Range(tree[h].members) : IsHandling(tree, m, r)
    ELSE r.level \in tree[h].levels

-----------------------------------------------------------------------------
(* handle() and handle_batch() *)

\* A stream opens its file on the first write, as its mode says.
Opens(tree, l, st) ==
    IF l \in st.open THEN Done(st)
    ELSE IF tree[l].mode = "x" /\ l \in st.made THEN Raised(st)
    ELSE Done([st EXCEPT !.open = @ \cup {l}, !.made = @ \cup {l},
                         !.files[l] = IF tree[l].mode = "w" THEN <<>> ELSE @])

\* down: the streams that raise when they are written to.
Write(tree, down, l, rs, st) ==
    LET opened == Opens(tree, l, st) IN
    IF rs = <<>> THEN Done(st)
    ELSE IF opened.raised THEN opened
    ELSE IF l \in down THEN Raised(opened.st)
    ELSE Done([opened.st EXCEPT !.files[l] = @ \o rs])

Taken(tree, h, rs) == SelectSeq(rs, LAMBDA r : r.level \in tree[h].levels)

RECURSIVE Handle(_, _, _, _, _)
Handle(tree, down, h, rs, st) ==
    LET Pass(m, s) == Handle(tree, down, m, rs, s)
        members    == tree[h].members
        taken      == Taken(tree, h, rs)
    IN  CASE tree[h].kind = "stream"      -> Write(tree, down, h, taken, st)
          [] tree[h].kind = "group"       -> InTurn(Pass, members, st)
          [] tree[h].kind = "whatfailure" -> Suppressing(Pass, members, st)
          [] tree[h].kind = "fallback"    -> UntilOneDoes(Pass, members, st)
          [] tree[h].kind = "buffer"      -> Done([st EXCEPT !.held[h] = @ \o taken])
          [] tree[h].kind = "filter"      ->
                 IF taken = <<>> THEN Done(st)
                 ELSE Handle(tree, down, members[1], taken, st)

\* What handle() returns: a group does not ask whether any member took it.
Stops(tree, h, r) ==
    ~tree[h].bubble /\ (tree[h].kind \in Groups \/ IsHandling(tree, h, r))

-----------------------------------------------------------------------------
(* close() and reset() *)

\* A slip: what is held stays.
FlushNothing(tree, down, b, st) == Done(st)

Flush(tree, down, b, st) ==
    LET emptied == [st EXCEPT !.held[b] = <<>>]
    IN  IF st.held[b] = <<>> THEN Done(st)
        ELSE Handle(tree, down, tree[b].members[1], st.held[b], emptied)

\* stuck: the streams whose close() raises.
RECURSIVE Close(_, _, _, _, _)
Close(tree, down, stuck, h, st) ==
    LET Shut(m, s) == Close(tree, down, stuck, m, s)
        members    == tree[h].members
        flushed    == Flush(tree, down, h, st)
    IN  CASE tree[h].kind = "stream" ->
                 IF h \in stuck /\ h \in st.open THEN Raised(st)
                 ELSE Done([st EXCEPT !.open = @ \ {h}])
          [] tree[h].kind \in {"group", "fallback"} -> InTurn(Shut, members, st)
          [] tree[h].kind = "whatfailure" -> Suppressing(Shut, members, st)
          [] tree[h].kind = "filter" -> Shut(members[1], st)
          [] tree[h].kind = "buffer" ->
                 IF flushed.raised THEN flushed ELSE Shut(members[1], flushed.st)

\* Every kind of group resets its members in turn.
RECURSIVE Reset(_, _, _, _)
Reset(tree, down, h, st) ==
    LET Again(m, s) == Reset(tree, down, m, s)
        flushed     == Flush(tree, down, h, st)
    IN  CASE tree[h].kind = "stream" -> Done(st)
          [] tree[h].kind \in Groups \cup {"filter"} -> InTurn(Again, tree[h].members, st)
          [] tree[h].kind = "buffer" ->
                 IF flushed.raised THEN flushed ELSE Again(tree[h].members[1], flushed.st)
=============================================================================
