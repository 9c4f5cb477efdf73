------------------------------- MODULE Logger -------------------------------
(***************************************************************************)
(* Logger (logger.py): a record is offered to the stack of handlers, the   *)
(* first to accept it has it processed, and it goes down the stack until a *)
(* handler does not let it bubble.  A handler may log while it handles a   *)
(* record; the depth of such calls is counted per context and cut short.   *)
(* The stack may be changed at any moment: by one thread at a time, as the *)
(* methods that change it read it and assign it without a lock.            *)
(*                                                                         *)
(* A thread in add_record() holds a stack of frames, one per call.         *)
(***************************************************************************)
EXTENDS Naturals, Sequences, SequencesExt, FiniteSets

CONSTANTS
    Threads,        \* threads, each in a context of its own
    Loggers, Handlers,
    Wired,          \* Wired[l]: the stack logger l starts with
    Accepting,      \* handlers whose is_handling() holds of the records logged
    Bubbling,       \* handlers that let a record bubble
    Echoing,        \* handlers that may log one record while handling one
    Catching,       \* loggers given an exception_handler
    Detecting,      \* loggers with detect_cycles
    Faulty,         \* handlers that may raise
    BadProcessor,   \* whether a processor may raise
    MaxLogs,        \* bound: records each thread logs of its own accord
    MaxFrames,      \* bound: how deep the calls may nest
    MaxRewires      \* bound: changes made to the stacks

ASSUME LoggerAssumption ==
    /\ Wired \in [Loggers -> Seq(Handlers)]
    /\ Accepting \subseteq Handlers /\ Bubbling \subseteq Handlers
    /\ Echoing \subseteq Handlers /\ Faulty \subseteq Handlers
    /\ Catching \subseteq Loggers /\ Detecting \subseteq Loggers
    /\ BadProcessor \in BOOLEAN
    /\ MaxLogs \in Nat /\ MaxFrames \in Nat /\ MaxRewires \in Nat

VARIABLES
    handlers,   \* handlers[l]: _handlers, the one consulted first at the head
    frames,     \* frames[t]: the calls thread t is in, the innermost first
    depth,      \* depth[t]: _depth in the context of t
    logs,       \* logs[t]: records t has logged of its own accord
    rewires     \* changes made to the stacks so far

vars == <<handlers, frames, depth, logs, rewires>>

WARN_AT_DEPTH == 3
DROP_AT_DEPTH == 5

\* A call of add_record(): what is left of the stack it iterates over, and
\* whether the record was processed.  The rest is history: the stack as it
\* was, how often the processors ran, who was given the record, and whether
\* anything was raised.
NewFrame(l, warns) ==
    [logger |-> l, at |-> "enter", left |-> <<>>, processed |-> FALSE, token |-> 0,
     echoed |-> FALSE, warning |-> warns,
     snap |-> <<>>, runs |-> 0, given |-> <<>>, failed |-> FALSE]

Init ==
    /\ handlers = Wired
    /\ frames = [t \in Threads |-> <<>>]
    /\ depth = [t \in Threads |-> 0]
    /\ logs = [t \in Threads |-> 0]
    /\ rewires = 0

Top(t) == Head(frames[t])
In(t, at) == frames[t] # <<>> /\ Top(t).at = at

SetTop(t, f) == frames' = [frames EXCEPT ![t] = <<f>> \o Tail(@)]
Call(t, f)   == frames' = [frames EXCEPT ![t] = <<f>> \o @]

-----------------------------------------------------------------------------
(* add_record() *)

Log(t, l) ==
    /\ frames[t] = <<>>
    /\ logs[t] < MaxLogs
    /\ logs' = [logs EXCEPT ![t] = @ + 1]
    /\ Call(t, NewFrame(l, FALSE))
    /\ UNCHANGED <<handlers, depth, rewires>>

\* The `for` of _dispatch() takes the tuple the stack is now.
Offered(f) ==
    [f EXCEPT !.at = "offer", !.left = handlers[f.logger], !.snap = handlers[f.logger]]

EnterUncounted(t) ==
    /\ In(t, "enter")
    /\ Top(t).logger \notin Detecting
    /\ SetTop(t, Offered(Top(t)))
    /\ UNCHANGED <<handlers, depth, logs, rewires>>

\* A slip: the fifth call gets through.
DroppedLate(d) == d > DROP_AT_DEPTH

Dropped(d) == d >= DROP_AT_DEPTH

\* What the depth reached makes of the call: the third warns of a loop by a
\* call of its own, the fifth and deeper are dropped.
EnterCounted(t) ==
    /\ In(t, "enter")
    /\ Top(t).logger \in Detecting
    /\ LET d == depth[t] + 1
           f == [Top(t) EXCEPT !.token = depth[t]]
       IN  /\ depth' = [depth EXCEPT ![t] = d]
           /\ \/ /\ d = WARN_AT_DEPTH
                 /\ frames' = [frames EXCEPT ![t] =
                        <<NewFrame(f.logger, TRUE), [f EXCEPT !.at = "leave"]>> \o Tail(@)]
              \/ Dropped(d) /\ SetTop(t, [f EXCEPT !.at = "leave"])
              \/ /\ d # WARN_AT_DEPTH /\ ~Dropped(d)
                 /\ SetTop(t, Offered(f))
    /\ UNCHANGED <<handlers, logs, rewires>>

\* A slip: every handler is asked, those below the first to accept as well.
NotAccepting(f, h) == h \notin Accepting

PassedOver(f, h) == ~f.processed /\ h \notin Accepting

\* A slip: the processors run for each handler that is given the record.
RunsForEach(f) == f.runs + 1

Runs(f) == IF f.processed THEN f.runs ELSE f.runs + 1

\* The next handler of the stack: passed over as long as none has accepted the
\* record; the first that accepts has it processed; later ones are not asked.
Offer(t) ==
    /\ In(t, "offer")
    /\ LET f    == Top(t)
           next == [f EXCEPT !.left = Tail(@)]
       IN  \/ f.left = <<>> /\ SetTop(t, [f EXCEPT !.at = "leave"])
           \/ f.left # <<>> /\ PassedOver(f, Head(f.left)) /\ SetTop(t, next)
           \/ /\ f.left # <<>> /\ ~PassedOver(f, Head(f.left))
              /\ SetTop(t, [next EXCEPT !.at = "handling", !.processed = TRUE,
                                        !.runs = Runs(f), !.echoed = FALSE,
                                        !.given = Append(@, Head(f.left))])
    /\ UNCHANGED <<handlers, depth, logs, rewires>>

ProcessorRaises(t) ==
    /\ BadProcessor
    /\ In(t, "offer")
    /\ Top(t).left # <<>> /\ ~Top(t).processed /\ Head(Top(t).left) \in Accepting
    /\ SetTop(t, [Top(t) EXCEPT !.at = "raised", !.failed = TRUE])
    /\ UNCHANGED <<handlers, depth, logs, rewires>>

Handling(f) == Last(f.given)

HandleReturns(t) ==
    /\ In(t, "handling")
    /\ LET there == IF Handling(Top(t)) \in Bubbling THEN "offer" ELSE "leave"
       IN  SetTop(t, [Top(t) EXCEPT !.at = there])
    /\ UNCHANGED <<handlers, depth, logs, rewires>>

HandleLogs(t, l) ==
    /\ In(t, "handling")
    /\ Handling(Top(t)) \in Echoing
    /\ ~Top(t).echoed
    /\ Len(frames[t]) < MaxFrames
    /\ frames' = [frames EXCEPT ![t] =
           <<NewFrame(l, FALSE), [Top(t) EXCEPT !.echoed = TRUE]>> \o Tail(@)]
    /\ UNCHANGED <<handlers, depth, logs, rewires>>

HandleRaises(t) ==
    /\ In(t, "handling")
    /\ Handling(Top(t)) \in Faulty
    /\ SetTop(t, [Top(t) EXCEPT !.at = "raised", !.failed = TRUE])
    /\ UNCHANGED <<handlers, depth, logs, rewires>>

\* _dispatch() hands the exception to exception_handler or lets it pass.
Catch(t) ==
    /\ In(t, "raised")
    /\ Top(t).logger \in Catching
    /\ SetTop(t, [Top(t) EXCEPT !.at = "leave"])
    /\ UNCHANGED <<handlers, depth, logs, rewires>>

\* A slip: an exception leaves the depth as it is.
ResetUnlessRaised(t) ==
    depth' = [depth EXCEPT ![t] = IF Top(t).logger \in Detecting /\ Top(t).at = "leave"
                                  THEN Top(t).token ELSE @]

\* The call is over: _depth is what it was, in the finally clause as well.
Reset(t) ==
    depth' = [depth EXCEPT ![t] = IF Top(t).logger \in Detecting THEN Top(t).token ELSE @]

Leave(t) ==
    /\ In(t, "leave")
    /\ Reset(t)
    /\ frames' = [frames EXCEPT ![t] = Tail(@)]
    /\ UNCHANGED <<handlers, logs, rewires>>

\* An exception nobody caught leaves the call, and is raised in the handler
\* that made it: through the call that was only warning of a loop, too.
Unwind(t) ==
    /\ In(t, "raised")
    /\ Top(t).logger \notin Catching
    /\ Reset(t)
    /\ LET rest == Tail(frames[t])
       IN  frames' = [frames EXCEPT ![t] =
               IF rest = <<>> THEN <<>>
               ELSE <<[Head(rest) EXCEPT !.at = "raised", !.failed = TRUE]>> \o Tail(rest)]
    /\ UNCHANGED <<handlers, logs, rewires>>

-----------------------------------------------------------------------------
(* push_handler(), pop_handler(), set_handlers() *)

Rewire(l, stack) ==
    /\ rewires < MaxRewires
    /\ rewires' = rewires + 1
    /\ handlers' = [handlers EXCEPT ![l] = stack]
    /\ UNCHANGED <<frames, depth, logs>>

PushHandler(l, h) == Rewire(l, <<h>> \o handlers[l])
PopHandler(l)     == handlers[l] # <<>> /\ Rewire(l, Tail(handlers[l]))
SetHandlers(l, h) == Rewire(l, <<h>>)

-----------------------------------------------------------------------------
Step(t) ==
    \/ EnterUncounted(t) \/ EnterCounted(t) \/ Offer(t) \/ ProcessorRaises(t)
    \/ HandleReturns(t) \/ HandleRaises(t) \/ Catch(t) \/ Leave(t) \/ Unwind(t)
    \/ \E l \in Loggers : HandleLogs(t, l)

Next ==
    \/ \E t \in Threads : Step(t) \/ \E l \in Loggers : Log(t, l)
    \/ \E l \in Loggers :
           \/ PopHandler(l)
           \/ \E h \in Handlers : PushHandler(l, h) \/ SetHandlers(l, h)

Spec == Init /\ [][Next]_vars

-----------------------------------------------------------------------------
(* Properties *)

Ladder == {"enter", "offer", "handling", "raised", "leave"}

Frame ==
    [logger : Loggers, at : Ladder, left : Seq(Handlers), processed : BOOLEAN, token : Nat,
     echoed : BOOLEAN, warning : BOOLEAN,
     snap : Seq(Handlers), runs : 0..1, given : Seq(Handlers), failed : BOOLEAN]

TypeOK ==
    /\ handlers \in [Loggers -> Seq(Handlers)]
    /\ frames \in [Threads -> Seq(Frame)]
    /\ depth \in [Threads -> Nat] /\ logs \in [Threads -> 0..MaxLogs]
    /\ rewires \in 0..MaxRewires

\* Who is given a record offered to this stack: everyone from the first that
\* accepts it down to the first that does not let it bubble.
Audience(stack) ==
    LET taking == {i \in DOMAIN stack : stack[i] \in Accepting}
        from   == Min(taking)
        ending == {i \in DOMAIN stack : i >= from /\ stack[i] \notin Bubbling}
    IN  IF taking = {} THEN <<>>
        ELSE SubSeq(stack, from, IF ending = {} THEN Len(stack) ELSE Min(ending))

\* A call that ends well has given the record to its audience in the stack as
\* it was when the call began, whatever was pushed or popped meanwhile, and
\* has run the processors once if anyone was given it and never otherwise.
WholeStack ==
    \A t \in Threads :
        (In(t, "leave") /\ ~Top(t).failed /\ (Top(t).token + 1 # WARN_AT_DEPTH)
                        /\ (Top(t).token + 1 < DROP_AT_DEPTH)) =>
            /\ Top(t).given = Audience(Top(t).snap)
            /\ Top(t).runs = IF Top(t).given = <<>> THEN 0 ELSE 1

\* A loop of handlers that log is cut: a counted logger is in a handler at most
\* three deep, the third being the warning of the loop.
LoopsAreCut ==
    \A t \in Threads :
        LET fs   == frames[t]
            busy == {i \in DOMAIN fs : fs[i].logger \in Detecting /\ fs[i].given # <<>>}
        IN  Cardinality(busy) <= 3 /\ (Cardinality(busy) = 3 => fs[Min(busy)].warning)

\* The depth is that of the calls in progress, whichever way each one ended.
DepthExact ==
    \A t \in Threads :
        depth[t] = Cardinality({i \in DOMAIN frames[t] :
                        frames[t][i].logger \in Detecting /\ frames[t][i].at # "enter"})
=============================================================================
