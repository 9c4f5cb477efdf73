------------------------------ MODULE QueuedUnits ------------------------------
(***************************************************************************)
(* A QueueHandler in front of a handler that keeps its records by unit of  *)
(* work: the composition of RecordRelay, which QueueHandler implements,    *)
(* with BufferHandler.  A record is queued with a copy of the context it   *)
(* was logged in, and handled in it by the worker, while the context that  *)
(* logged it goes on: it may flush the queue, end its unit, whose end      *)
(* callback flushes the buffer from there, and begin another.              *)
(***************************************************************************)
EXTENDS BufferHandler

CONSTANT Worker     \* the context of the worker, in which nothing is logged

\* A setup also says which contexts log, and end their units.
QueuedAssumption ==
    Worker \in Contexts /\ \A s \in Setups : s.sharing /\ ~s.echo /\ s.loggers \subseteq Contexts \ {Worker}

VARIABLES
    backlog, busy, handed, asking, due, \* see RecordRelay
    carried,    \* carried[r]: the unit of the context that was queued with r
    home,       \* history: home[r], the unit r was logged in
    late,       \* history: records not handled yet as their unit began to end
    settled     \* history: units that flushed the queue and logged no more

relayVars  == <<backlog, busy, handed, asking, due>>
queuedVars == <<vars, relayVars, carried, home, late, settled>>

Relay == INSTANCE RecordRelay WITH Callers <- Contexts

QueuedInit ==
    /\ Init /\ Relay!Init
    /\ carried = [r \in Records |-> NoUnit] /\ home = carried
    /\ late = {} /\ settled = {}

Idle(x) == x \in setup.loggers /\ pc[x] = "idle" /\ x \notin asking

\* A slip: the record goes without its context.
NotCaptured(x) == NoUnit

Captured(x) == current[x]

\* handle() of the queue.
Log(x, r) ==
    /\ Idle(x) /\ r \in setup.records
    /\ Relay!Accept(r)
    /\ carried' = [carried EXCEPT ![r] = Captured(x)]
    /\ home' = [home EXCEPT ![r] = current[x]]
    /\ settled' = settled \ {current[x]}
    /\ UNCHANGED <<vars, late>>

\* A slip: flush() looks at the queue, and not at what is being handled.
AskForQueued(x) ==
    /\ asking' = asking \cup {x}
    /\ due' = [due EXCEPT ![x] = Range(backlog)]
    /\ UNCHANGED <<backlog, busy, handed>>

AskForAll(x) == Relay!Ask(x)

Flush(x) == Idle(x) /\ AskForAll(x) /\ UNCHANGED <<vars, carried, home, late, settled>>

Flushed(x) ==
    /\ Relay!Answer(x)
    /\ settled' = settled \cup ({current[x]} \ {NoUnit})
    /\ UNCHANGED <<vars, carried, home, late>>

\* The worker enters the context of the record, has it handled, and leaves.
Take ==
    /\ pc[Worker] = "idle" /\ Relay!Take
    /\ current' = [current EXCEPT ![Worker] = carried[Head(backlog)]]
    /\ UNCHANGED <<setup, opened, kept, callbacks, slot, next, failed, flowVars, bufferVars,
                   carried, home, late, settled>>

Handle ==
    /\ \E r \in busy : BeginHandle(Worker, r)
    /\ UNCHANGED <<relayVars, carried, home, late, settled>>

Done ==
    /\ pc[Worker] = "idle" /\ busy \subseteq Logged /\ Relay!Done
    /\ current' = [current EXCEPT ![Worker] = NoUnit]
    /\ UNCHANGED <<setup, opened, kept, callbacks, slot, next, failed, flowVars, bufferVars,
                   carried, home, late, settled>>

\* end_unit(), and begin_unit(), which ends the unit that is open.
EndUnit(x, u) ==
    /\ Idle(x)
    /\ BeginEnding(x, u)
    /\ late' = late \cup {r \in Records \ Range(handed) : current[x] # NoUnit /\ home[r] = current[x]}
    /\ UNCHANGED <<bufferVars, relayVars, carried, home, settled>>

Proceed(x) == Step(x) /\ UNCHANGED <<relayVars, carried, home, late, settled>>

QueuedNext ==
    \/ \E x \in Contexts :
           \/ \E r \in Records : Log(x, r)
           \/ \E u \in Units \cup {NoUnit} : EndUnit(x, u)
           \/ Flush(x) \/ Flushed(x) \/ Proceed(x)
    \/ Take \/ Handle \/ Done

QueuedSpec == QueuedInit /\ [][QueuedNext]_queuedVars

-----------------------------------------------------------------------------
(* Properties *)

QueuedTypeOK ==
    /\ TypeOK
    /\ carried \in [Records -> Units \cup {NoUnit}] /\ home \in [Records -> Units \cup {NoUnit}]
    /\ late \subseteq Records /\ settled \subseteq Units /\ asking \subseteq Contexts \ {Worker}
    /\ Cardinality(busy) <= 1

\* A record is handled as though still inside its unit, whichever thread does
\* it: a unit's buffer, and a batch, hold the records of one unit.
BatchesAreOwn ==
    /\ \A s \in States : \A r \in Range(buffer[s]) : home[r] = IF s = Instance THEN NoUnit ELSE s[1]
    /\ \A x \in Contexts : \A r, q \in Range(pending[x]) : home[r] = home[q]

\* A unit that is over leaves nothing in its buffer, but for the records that
\* were still to be handled as it began to end.
Over(u) == \A x \in Contexts \ {Worker} : current[x] # u /\ next[x] # u
OnlyLateStay ==
    \A r \in Range(handed) \ late :
        home[r] # NoUnit /\ Over(home[r]) =>
            r \in Range(forwarded) \cup dropped \cup Range(pending[Worker])

\* What a unit logged is written in that order, whether its end or the worker
\* forwards it, unless an overflow of the one meets the end of the other.
OrderSurvives ==
    ~setup.flush => \A i, j \in DOMAIN forwarded :
        i < j /\ home[forwarded[i]] = home[forwarded[j]] =>
            \A k, l \in DOMAIN handed :
                handed[k] = forwarded[i] /\ handed[l] = forwarded[j] => k < l

\* A unit whose context flushes the queue before it ends loses nothing, not
\* even what was in the worker's hands.
FlushedIsWritten ==
    \A r \in Records :
        home[r] \in settled /\ Over(home[r]) => r \in Range(forwarded) \cup dropped
=============================================================================
