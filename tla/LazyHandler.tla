------------------------------ MODULE LazyHandler ------------------------------
(***************************************************************************)
(* LazyHandler (handler/_lazy_handler.py), as FilterHandler and            *)
(* SamplingHandler use it: what they wrap may be a factory, which is to    *)
(* run for the first record that needs the handler.  Nothing is locked,    *)
(* so that each read and each assignment of an attribute is a step.        *)
(*                                                                         *)
(* Each thread has a stack of frames, the innermost first: a record, or a  *)
(* batch, that passed and is on its way to the wrapped handler.  The       *)
(* factory may log through the very wrapper that calls it, or raise.       *)
(* What is built holds its records until it is closed or reset, as a       *)
(* BufferHandler does.                                                     *)
(***************************************************************************)
EXTENDS Naturals, Sequences

CONSTANTS Users, Severities, Uses

None == 0

\* A use is of one of the two wrappers: by which threads, whether the factory
\* may log or raise, and how much happens.
LazyAssumption ==
    \A u \in Uses :
        /\ u.kind \in {"filter", "sampling"} /\ u.threads \subseteq Users
        /\ u.echoes \in BOOLEAN /\ u.fails \in BOOLEAN
        /\ u.logs \in Nat /\ u.others \in Nat

VARIABLES
    use,
    wrapped,    \* _wrapped: None, or the number of the handler built
    factory,    \* whether _factory is there
    accepted,   \* _accepted_levels
    path,       \* path[t]: the frames of thread t
    holds,      \* holds[i]: the records handler i holds
    done,       \* history: the records that left a handler, or were raised at
    needed,     \* history: the records that passed the filter
    thrown,     \* history: what raised, for each record that was raised at
    others      \* calls of close(), reset() and set_accepted_levels() so far

lazyVars == <<use, wrapped, factory, accepted, path, holds, done, needed, thrown, others>>

Inner(t)  == Head(path[t])
At(t, at) == path[t] # <<>> /\ Inner(t).at = at
Set(t, f) == path' = [path EXCEPT ![t] = <<f>> \o Tail(@)]
Move(t, at) == Set(t, [Inner(t) EXCEPT !.at = at])

-----------------------------------------------------------------------------
\* is_handling(), and for a SamplingHandler what comes out of the draw; what a
\* SamplingHandler has built accepts every record.
Passes(level) == IF use.kind = "filter" THEN level \in accepted ELSE TRUE

\* A record that passes; one that is refused leaves no trace.
Enter(t, level, outer) ==
    /\ Len(needed) < use.logs /\ Passes(level)
    /\ needed' = Append(needed, level)
    /\ path' = [path EXCEPT ![t] = <<[at |-> "look", id |-> Len(needed'), found |-> None,
                                     echoed |-> outer # <<>>]>> \o outer]
    /\ UNCHANGED <<use, wrapped, factory, accepted, holds, done, thrown, others>>

Log(t, level) == t \in use.threads /\ path[t] = <<>> /\ Enter(t, level, <<>>)

\* _resolve_handler()
Look(t) ==
    /\ At(t, "look")
    /\ Set(t, [Inner(t) EXCEPT !.at = IF wrapped = None THEN "call" ELSE "give", !.found = wrapped])
    /\ UNCHANGED <<use, wrapped, factory, accepted, holds, done, needed, thrown, others>>

Raised(t, why) ==
    /\ path' = [path EXCEPT ![t] = Tail(@)]
    /\ thrown' = thrown \cup {[id |-> Inner(t).id, why |-> why]}

\* A slip: the factory is taken out before it is called.
TakenOut == FALSE

AsItWas == factory

\* The factory is read and called; None cannot be called.
CallFactory(t) ==
    /\ At(t, "call")
    /\ IF factory THEN Move(t, "building") /\ UNCHANGED thrown ELSE Raised(t, "none")
    /\ factory' = AsItWas
    /\ UNCHANGED <<use, wrapped, accepted, holds, done, needed, others>>

\* The factory logs through its wrapper, once.
Echo(t, level) ==
    /\ At(t, "building") /\ use.echoes /\ ~Inner(t).echoed
    /\ Enter(t, level, <<[Inner(t) EXCEPT !.echoed = TRUE]>>)

FactoryFails(t) ==
    /\ At(t, "building") /\ use.fails
    /\ Raised(t, "factory")
    /\ UNCHANGED <<use, wrapped, factory, accepted, holds, done, needed, others>>

FactoryReturns(t) ==
    /\ At(t, "building")
    /\ holds' = Append(holds, {})
    /\ Set(t, [Inner(t) EXCEPT !.at = "install", !.found = Len(holds')])
    /\ UNCHANGED <<use, wrapped, factory, accepted, done, needed, thrown, others>>

\* A slip: what is built is not kept.
NotKept(found) == None

Kept(found) == found

Install(t) ==
    /\ At(t, "install")
    /\ wrapped' = Kept(Inner(t).found)
    /\ Move(t, "forget")
    /\ UNCHANGED <<use, factory, accepted, holds, done, needed, thrown, others>>

Forget(t) ==
    /\ At(t, "forget")
    /\ factory' = FALSE
    /\ Move(t, "give")
    /\ UNCHANGED <<use, wrapped, accepted, holds, done, needed, thrown, others>>

\* The wrapped handler has the record.
Give(t) ==
    /\ At(t, "give")
    /\ holds' = [holds EXCEPT ![Inner(t).found] = @ \cup {Inner(t).id}]
    /\ path' = [path EXCEPT ![t] = Tail(@)]
    /\ UNCHANGED <<use, wrapped, factory, accepted, done, needed, thrown, others>>

-----------------------------------------------------------------------------
Idle(t) == t \in use.threads /\ path[t] = <<>> /\ others < use.others /\ others' = others + 1

\* A slip: what is not built yet is built, to be closed.
BuiltToClose == IF holds = <<>> THEN <<{}>> ELSE holds

AsBuilt == holds

\* A slip: what was closed is let go of.
Forgotten == None

\* What is wrapped stays so.
Wrapping == wrapped

\* close() and reset(): nothing is done to what is not built.
Settle(t) ==
    /\ Idle(t)
    /\ wrapped' = Wrapping
    /\ IF wrapped = None THEN holds' = AsBuilt /\ UNCHANGED done
       ELSE /\ holds' = [holds EXCEPT ![wrapped] = {}]
            /\ done' = done \cup holds[wrapped]
    /\ UNCHANGED <<use, factory, accepted, path, needed, thrown>>

SetAcceptedLevels(t, levels) ==
    /\ Idle(t) /\ use.kind = "filter"
    /\ accepted' = levels
    /\ UNCHANGED <<use, wrapped, factory, path, holds, done, needed, thrown>>

Init ==
    /\ use \in Uses
    /\ wrapped = None /\ factory = TRUE
    /\ accepted = Severities
    /\ path = [t \in Users |-> <<>>]
    /\ holds = <<>> /\ needed = <<>> /\ thrown = {} /\ done = {} /\ others = 0

Next ==
    \E t \in Users :
        \/ \E level \in Severities : Log(t, level) \/ Echo(t, level)
        \/ Look(t) \/ CallFactory(t) \/ FactoryFails(t) \/ FactoryReturns(t)
        \/ Install(t) \/ Forget(t) \/ Give(t)
        \/ Settle(t) \/ \E levels \in SUBSET Severities : SetAcceptedLevels(t, levels)

Spec == Init /\ [][Next]_lazyVars

-----------------------------------------------------------------------------
(* Properties *)

TypeOK ==
    /\ use \in Uses /\ factory \in BOOLEAN /\ accepted \subseteq Severities
    /\ wrapped \in 0 .. Len(holds)
    /\ \A t \in Users : \A i \in DOMAIN path[t] :
           /\ path[t][i].at \in {"look", "call", "building", "install", "forget", "give"}
           /\ path[t][i].at \in {"install", "forget", "give"} => path[t][i].found \in DOMAIN holds
    /\ done \subseteq DOMAIN needed

Alone == \E t \in Users : use.threads = {t}

\* A handler that no record needed is not built, whatever is closed or reset.
QuietCostsNothing == Len(holds) <= Len(needed)

Settled ==
    /\ wrapped # None
    /\ \A t \in Users : \A i \in DOMAIN path[t] : path[t][i].at \in {"look", "forget", "give"}
Stays == Settled => wrapped' = wrapped

\* Once there is a handler and nobody is about to build one, it stays: every
\* later record, close() and reset() is for that one.
SettlesForGood == [][Stays]_lazyVars

\* In one thread a record is raised at only if the factory raised for it: a
\* factory that failed runs again for the next record.
OnlyTheFactoryFails == Alone => \A x \in thrown : x.why = "factory"

\* In one thread, with a factory that does not log, one handler is built and
\* each record is with it, or left it when it was closed or reset.
NothingOrphaned ==
    Alone /\ ~use.echoes =>
        /\ Len(holds) <= 1
        /\ \A i \in DOMAIN needed :
               \/ i \in done
               \/ wrapped # None /\ i \in holds[wrapped]
               \/ \E x \in thrown : x.id = i
               \/ \E t \in Users, j \in 1 .. 3 : j \in DOMAIN path[t] /\ path[t][j].id = i
=============================================================================
