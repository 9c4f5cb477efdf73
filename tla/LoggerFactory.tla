---------------------------- MODULE LoggerFactory ----------------------------
(***************************************************************************)
(* LoggerFactory (logger_factory.py) and the configuration it builds from  *)
(* (config/logging_config.py, config/handler_builder.py): which handlers a *)
(* channel has and in which order, records that are logged on channels,    *)
(* and reset() and close(), which go through the handlers that no other    *)
(* wraps, one after another, while records are still logged.               *)
(*                                                                         *)
(* Every handler is built once, by name, as the factory is made, so that   *)
(* the tree of HandlerTree is that of the configuration, and a handler     *)
(* named by two wrappers is one.                                           *)
(***************************************************************************)
EXTENDS HandlerTree

CONSTANTS
    Handlers, Channels, Levels,
    Setups

\* A setup has a configuration, as it is written: order, the names of the
\* handlers as declared, and for each one its kind, members, levels, bubble,
\* mode, channels (the names listed, and whether with "!"), priority and nested.
\* And it bounds what happens: how many records are logged, how often close()
\* and reset() are called, which streams may be down and which do not close.
ASSUME FactoryAssumption ==
    \A s \in Setups :
        /\ s.order \in Seq(Handlers) /\ IsInjective(s.order)
        /\ \A h \in Range(s.order) :
               /\ s.tree[h].kind \in Wrapping \cup {"stream"}
               /\ s.tree[h].levels \subseteq Levels
               /\ s.tree[h].members \in Seq(Range(s.order))
               /\ s.tree[h].channels \subseteq Channels /\ s.tree[h].exclusive \in BOOLEAN
        /\ s.logs \in Nat /\ s.calls \in Nat /\ s.breaks \in Nat
        /\ s.frail \subseteq Handlers /\ s.stuck \subseteq Handlers

VARIABLES
    setup,
    loggers,    \* loggers[c]: the stack of the logger of a channel
    st,         \* what the handlers hold, see HandlerTree
    down,       \* the streams that raise now
    doing,      \* the call in progress: "none", "reset" or "close"
    todo,       \* the handlers it has still to go through
    logged,     \* history: the level and channel of each record
    calls, breaks,
    due,        \* history: how often each record is due on each stream
    failed,     \* history: something raised
    quiet       \* history: the last call, when it returned, if nothing was logged since

vars == <<setup, loggers, st, down, doing, todo, logged, due, calls, breaks, failed, quiet>>

Tree  == setup.tree
Named == Range(setup.order)
Streams == {h \in Named : Tree[h].kind = "stream"}
Buffers == {h \in Named : Tree[h].kind = "buffer"}

-----------------------------------------------------------------------------
(* The configuration. *)

References(h) == Range(Tree[h].members)

\* nested_handlers: named by another, or marked.
Nested == UNION {References(h) : h \in Named} \cup {h \in Named : Tree[h].nested}


Earlier(h, k) == Tree[h].priority > Tree[k].priority

\* top_level_handlers: by priority, and as declared where it is the same.
TopLevel ==
    LET Place(h) == SelectInSeq(setup.order, LAMBDA x : x = h)
    IN  SetToSortSeq(Named \ Nested,
            LAMBDA h, k : Earlier(h, k) \/ (~Earlier(k, h) /\ Place(h) < Place(k)))

\* ChannelFilter: only those listed, or all but those; no list is all.
Accepts(h, c) == Tree[h].channels = {} \/ (c \in Tree[h].channels) # Tree[h].exclusive

HandlersFor(c) == SelectSeq(TopLevel, LAMBDA h : Accepts(h, c))

\* A slip: what a wrapper owns is gone through twice.
AllNamed == setup.order

\* The handlers that no wrapper owns.
Owned == SelectSeq(setup.order, LAMBDA h : \A k \in Named : h \notin References(k))

-----------------------------------------------------------------------------
(* What a record is due, by the configuration alone: the reference of      *)
(* OncePerWay.                                                             *)

\* In how many ways a record comes to a stream from a handler that has it.
RECURSIVE Ways(_, _, _)
Ways(h, l, r) ==
    LET members == Tree[h].members
        through == IF Tree[h].kind = "fallback" THEN 1 .. 1 ELSE DOMAIN members
    IN  CASE h = l -> IF r.level \in Tree[l].levels THEN 1 ELSE 0
          [] h # l /\ Tree[h].kind \notin Groups /\ r.level \notin Tree[h].levels -> 0
          [] OTHER -> FoldLeft(LAMBDA n, i : n + IF i \in through THEN Ways(members[i], l, r) ELSE 0,
                               0, [i \in DOMAIN members |-> i])

\* The handlers on a stack that are offered a record: none that is consulted
\* before stops it, and one of those or the handler itself takes it.
Consulted(h, k) ==
    \/ Tree[h].priority > Tree[k].priority
    \/ Tree[h].priority = Tree[k].priority
       /\ \E i, j \in DOMAIN setup.order : i <= j /\ setup.order[i] = h /\ setup.order[j] = k

Offered(c, r) ==
    LET stack == {h \in Named \ Nested : Accepts(h, c)}
        taken == {h \in stack : \E k \in stack : Consulted(k, h) /\ IsHandling(Tree, k, r)}
    IN  {h \in taken : \A k \in taken \ {h} : Consulted(k, h) => ~Stops(Tree, k, r)}

Due(c, r) ==
    LET offered == Offered(c, r)
    IN  [l \in Streams |-> FoldLeft(LAMBDA sum, h : sum + IF h \in offered THEN Ways(h, l, r) ELSE 0,
                                    0, setup.order)]

-----------------------------------------------------------------------------
Init ==
    /\ setup \in Setups
    /\ loggers = [c \in Channels |-> HandlersFor(c)]
    /\ st = [files |-> [h \in Streams |-> <<>>], made |-> {}, open |-> {},
             held |-> [h \in Buffers |-> <<>>]]
    /\ down = {} /\ doing = "none" /\ todo = <<>>
    /\ logged = <<>> /\ due = <<>> /\ calls = 0 /\ breaks = 0
    /\ failed = FALSE /\ quiet = "none"

\* Logger._dispatch(): handlers are asked until one takes the record, those
\* after it get the record unasked, until one stops it or raises.
Dispatch(c, r) ==
    LET Offer(so, h) ==
            IF so.out.raised \/ so.stopped \/ (~so.taken /\ ~IsHandling(Tree, h, r)) THEN so
            ELSE [out |-> Handle(Tree, down, h, <<r>>, so.out.st),
                  taken |-> TRUE, stopped |-> Stops(Tree, h, r)]
    IN  FoldLeft(Offer, [out |-> Done(st), taken |-> FALSE, stopped |-> FALSE], loggers[c]).out

Log(c, v) ==
    LET r   == [n |-> Len(logged) + 1, level |-> v]
        out == Dispatch(c, r)
    IN  /\ Len(logged) < setup.logs
        /\ logged' = Append(logged, [level |-> v, channel |-> c])
        /\ due' = Append(due, Due(c, r))
        /\ st' = out.st
        /\ failed' = (failed \/ out.raised)
        /\ quiet' = "none"
        /\ UNCHANGED <<setup, loggers, down, doing, todo, calls, breaks>>

Begin(op) ==
    /\ doing = "none"
    /\ calls < setup.calls
    /\ calls' = calls + 1
    /\ doing' = op /\ todo' = Owned /\ quiet' = op
    /\ UNCHANGED <<setup, loggers, st, down, logged, due, breaks, failed>>

\* One handler of those owned: an exception ends the call.
Step ==
    LET h   == Head(todo)
        out == IF doing = "close" THEN Close(Tree, down, setup.stuck, h, st)
               ELSE Reset(Tree, down, h, st)
    IN  /\ doing # "none" /\ todo # <<>>
        /\ st' = out.st
        /\ IF out.raised
           THEN failed' = TRUE /\ doing' = "none" /\ todo' = <<>> /\ quiet' = "none"
           ELSE todo' = Tail(todo) /\ UNCHANGED <<failed, doing, quiet>>
        /\ UNCHANGED <<setup, loggers, down, logged, due, calls, breaks>>

Return ==
    /\ doing # "none" /\ todo = <<>>
    /\ doing' = "none"
    /\ UNCHANGED <<setup, loggers, st, down, todo, logged, due, calls, breaks, failed, quiet>>

\* A stream breaks, or is mended.
Break(l) ==
    /\ l \in setup.frail /\ breaks < setup.breaks
    /\ breaks' = breaks + 1
    /\ down' = IF l \in down THEN down \ {l} ELSE down \cup {l}
    /\ UNCHANGED <<setup, loggers, st, doing, todo, logged, due, calls, failed, quiet>>

Next ==
    \/ \E c \in Channels, v \in Levels : Log(c, v)
    \/ Begin("reset") \/ Begin("close") \/ Step \/ Return
    \/ \E l \in Streams : Break(l)

Spec == Init /\ [][Next]_vars
-----------------------------------------------------------------------------
(* Properties *)

Record == [n : 1 .. 100, level : Levels]

TypeOK ==
    /\ setup \in Setups
    /\ st.open \subseteq st.made /\ st.made \subseteq Streams
    /\ st.files \in [Streams -> Seq(Record)] /\ st.held \in [Buffers -> Seq(Record)]
    /\ down \subseteq setup.frail
    /\ doing \in {"none", "reset", "close"} /\ Range(todo) \subseteq Named
    /\ \A h \in Named : Range(todo) \cap References(h) = {}
    /\ failed \in BOOLEAN /\ quiet \in {"none", "reset", "close"}

Sound == setup.frail = {} /\ \A l \in Streams : Tree[l].mode = "a"

Written(l, n) == Cardinality({i \in DOMAIN st.files[l] : st.files[l][i].n = n})


\* When reset() has returned and nothing was logged meanwhile, no buffer
\* holds anything over to the next unit; when close() has, no file is open
\* either, but for those that would not close and whose group swallowed it.
NothingHeldOver ==
    setup.frail = {} /\ doing = "none" /\ quiet # "none" =>
        /\ \A b \in Buffers : st.held[b] = <<>>
        /\ quiet = "close" => st.open \subseteq setup.stuck

\* A record that the first handler of a stack takes: under a whatfailure
\* group each member that is not down has it; under a fallback group one
\* member has it if any is not down, and no other.  (A file that must not exist
\* cannot be opened again once closed.)
FailuresStayLocal ==
    [][logged' # logged /\ loggers[Last(logged').channel] # <<>> =>
        LET g   == Head(loggers[Last(logged').channel])
            n   == Len(logged')
            ms  == {m \in References(g) : /\ Tree[m].kind = "stream" /\ Tree[m].mode # "x"
                                           /\ Last(logged').level \in Tree[m].levels}
            has == {m \in ms : \E i \in DOMAIN st'.files[m] : st'.files[m][i].n = n}
        IN  /\ Tree[g].kind = "whatfailure" => ms \ down \subseteq has
            /\ Tree[g].kind = "fallback" /\ ms = References(g) =>
                   Cardinality(has) = IF ms \subseteq down THEN 0 ELSE 1]_vars
=============================================================================
