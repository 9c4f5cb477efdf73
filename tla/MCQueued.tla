------------------------------ MODULE MCQueued ------------------------------
(***************************************************************************)
(* Constants of QueuedUnits, for MCFactory.                                *)
(***************************************************************************)
EXTENDS Naturals, Sequences, FiniteSets, TLC

CONSTANTS x1, x2, worker, u1, u2, NoUnit, Instance, r1, r2, r3, NoRecord

VARIABLES
    buffering, current, opened, kept, callbacks, pc, thereafter, mine, slot, next, raised,
    buffer, rec, pending, closing, forwarded, dropped, story,
    backlog, busy, handed, asking, owed, carried, home, late, settled

queuedVars ==
    <<buffering, current, opened, kept, callbacks, pc, thereafter, mine, slot, next, raised,
      buffer, rec, pending, closing, forwarded, dropped, story,
      backlog, busy, handed, asking, owed, carried, home, late, settled>>

\* A context that opens two units: the wrapped handler fails, and overflow is
\* forwarded; it does not, and overflow is dropped.
Forwards == [sharing |-> TRUE, units |-> 2, records |-> {r1, r2, r3}, limit |-> 1, flush |-> TRUE,
             faulty |-> TRUE, echo |-> FALSE, loggers |-> {x1}]
Drops    == [Forwards EXCEPT !.limit = 2, !.flush = FALSE, !.faulty = FALSE]
\* Two contexts, each with a unit of its own.
Two      == [Drops EXCEPT !.limit = 0, !.records = {r1, r2}, !.loggers = {x1, x2}]
AllBuffers == {Forwards, Drops, Two}

Qu == INSTANCE QueuedUnits WITH
    Contexts <- {x1, x2, worker}, Worker <- worker, Units <- {u1, u2}, Records <- {r1, r2, r3},
    Setups <- AllBuffers,
    setup <- buffering, todo <- thereafter, failed <- raised, due <- owed

\* No setup tells the units apart, nor the first two records.
Symmetry == Permutations({u1, u2}) \cup Permutations({r1, r2})

\* What is taken in a unit stays in it, and is written, across the queue: in the
\* order it was logged, and all of it if the unit flushed the queue.
UnitsBehindQueue ==
    Qu!BatchesAreOwn /\ Qu!OnlyLateStay /\ Qu!OrderSurvives /\ Qu!FlushedIsWritten
=============================================================================
