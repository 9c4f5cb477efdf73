------------------------- MODULE QueueHandlerProofs -------------------------
(***************************************************************************)
(* Theorems about QueueHandler, for any number of threads, any records and *)
(* any bound of the queue.                                                 *)
(*                                                                         *)
(* IInv says what is typed and who holds what while close() goes through   *)
(* its phases: the wrapped handler has one caller at a time.  On top of it *)
(* BInv says that the two counters _putting and unfinished_tasks are       *)
(* exact, so no wakeup is lost, close() leaves the queue clean and flush() *)
(* is a barrier.  On top of both, Tended says that until a worker may have *)
(* died no record is on a queue that nothing drains; and every behaviour   *)
(* of the handler, seen through the mapping Relay, is one of RecordRelay.  *)
(***************************************************************************)
EXTENDS QueueHandler, SelectionProofs, FiniteSetTheorems

\* A consumer has a record in hand exactly while it is writing.
ItemsAt ==
    /\ \A w \in Workers : item[w] # NoRecord <=> wpc[w] = "write"
    /\ \A c \in Callers : item[c] # NoRecord <=> cpc[c] = "drainWrite"

\* A record is passed to handle() exactly while a thread is in it.
RecsAt == \A t \in Threads : rec[t] # NoRecord <=> call[t] # "none"

Typed == TypeOK /\ ItemsAt /\ RecsAt

USE DEF queueVars, stateVars, handleVars, callVars, writeVars

\* The members of a sequence are of its type.
LEMMA RangeTyped ==
    ASSUME NEW S, NEW s \in Seq(S)
    PROVE  Range(s) \subseteq S
  BY SMT DEF Range

\* So are the two parts of one that is not empty.
LEMMA HeadTailTyped ==
    ASSUME NEW S, NEW s \in Seq(S), s # <<>>
    PROVE  Head(s) \in S /\ Tail(s) \in Seq(S)
  BY SMT

\* Init establishes the types.
LEMMA TypedInit == Init => Typed
<1>. SUFFICES ASSUME Init PROVE Typed
    OBVIOUS
<1>1. queue \in Seq(Entries) /\ handed \in Seq(Records)
    BY DEF Init
<1>2. calls \in [Callers -> 0..MaxCalls]
    BY QueueAssumption DEF Init
<1>3. cpc \in [Callers -> CallPhases] /\ wpc \in [Workers -> WorkPhases]
    BY DEF Init, CallPhases, WorkPhases
<1>4. call \in [Threads -> HandlePhases] /\ op \in [Callers -> Ops]
    BY DEF Init, HandlePhases, Ops
<1>5. /\ rec \in [Threads -> Records \cup {NoRecord}]
      /\ item \in [Consumers -> Records \cup {NoRecord}]
      /\ target \in [Callers -> Workers \cup {NoThread}]
      /\ due \in [Callers -> SUBSET Records]
    BY DEF Init
<1>6. unfinished \in Int /\ putting \in Int
    BY DEF Init
<1>7. /\ worker \in Workers \cup {NoThread} /\ closeLock \in Callers \cup {NoThread}
      /\ closing \in BOOLEAN /\ asleep \subseteq Threads /\ logged \subseteq Records
    BY DEF Init
<1>8. TypeOK
    BY <1>1, <1>2, <1>3, <1>4, <1>5, <1>6, <1>7 DEF TypeOK
<1>9. ItemsAt /\ RecsAt
    BY DEF Init, ItemsAt, RecsAt, Consumers
<1>. QED
    BY <1>8, <1>9 DEF Typed

\* _start_worker leaves a worker, or none, and the program counters typed.
LEMMA StartWorkerTyped ==
    ASSUME worker \in Workers \cup {NoThread},
           wpc \in [Workers -> WorkPhases],
           StartWorker
    PROVE  /\ worker' \in Workers \cup {NoThread}
           /\ wpc' \in [Workers -> WorkPhases]
  BY DEF StartWorker, WorkPhases

\* Every step keeps the types.
LEMMA TypedStep ==
    ASSUME TypeOK, ItemsAt, RecsAt, [Next]_vars
    PROVE  TypeOK'
<1>. USE DEF TypeOK, CallPhases, FlushPhases, StopPhases, WorkPhases, HandlePhases,
             Ops
<1>1. ASSUME NEW t \in Threads, NEW r \in Records, BeginHandle(t, r) PROVE TypeOK'
    BY <1>1 DEF BeginHandle
<1>2. ASSUME NEW t \in Threads, EnterHandle(t) PROVE TypeOK'
    <2>1. worker' \in Workers \cup {NoThread}
        BY <1>2, StartWorkerTyped DEF EnterHandle
    <2>2. wpc' \in [Workers -> WorkPhases]
        BY <1>2, StartWorkerTyped DEF EnterHandle
    <2>3. asleep' \subseteq Threads
        BY <1>2 DEF EnterHandle
    <2>4. putting' \in Int
        BY <1>2 DEF EnterHandle
    <2>5. call' \in [Threads -> HandlePhases]
        BY <1>2 DEF EnterHandle
    <2>. QED
        BY <1>2, <2>1, <2>2, <2>3, <2>4, <2>5 DEF EnterHandle, MustWait, StartWorker
<1>3. ASSUME NEW t \in Threads, PutRecord(t) PROVE TypeOK'
    <2>1. rec[t] \in Records
        BY <1>3 DEF PutRecord, RecsAt
    <2>2. queue' \in Seq(Entries)
        BY <1>3, <2>1 DEF PutRecord, Put, Entries
    <2>. QED
        BY <1>3, <2>1, <2>2 DEF PutRecord, Put
<1>4. ASSUME NEW t \in Threads, LeaveHandle(t) PROVE TypeOK'
    BY <1>4 DEF LeaveHandle, NotifyAll
<1>5. ASSUME NEW w \in Workers, WorkerGet(w) PROVE TypeOK'
    <2>1. Head(queue) \in Entries
        BY <1>5, HeadTailTyped DEF WorkerGet, IsMarker, MarkerDone
    <2>2. queue' \in Seq(Entries)
        BY <1>5, HeadTailTyped DEF WorkerGet, IsMarker, MarkerDone
    <2>3. item' \in [Consumers -> Records \cup {NoRecord}]
        BY <1>5, <2>1 DEF WorkerGet, IsMarker, MarkerDone, Entries, Consumers
    <2>4. wpc' \in [Workers -> WorkPhases]
        BY <1>5, <2>1 DEF WorkerGet, IsMarker, MarkerDone
    <2>5. unfinished' \in Int
        BY <1>5, <2>1 DEF WorkerGet, IsMarker, MarkerDone
    <2>. QED
        BY <1>5, <2>1, <2>2, <2>3, <2>4, <2>5 DEF WorkerGet, IsMarker, MarkerDone
<1>6. ASSUME NEW w \in Workers, WorkerWrote(w) PROVE TypeOK'
    <2>1. item[w] \in Records
        BY <1>6 DEF WorkerWrote, ItemsAt, Consumers
    <2>2. handed' \in Seq(Records)
        BY <1>6, <2>1 DEF WorkerWrote, Handed
    <2>3. item' \in [Consumers -> Records \cup {NoRecord}]
        BY <1>6 DEF WorkerWrote, Handed
    <2>4. wpc' \in [Workers -> WorkPhases]
        BY <1>6 DEF WorkerWrote, Handed
    <2>5. unfinished' \in Int
        BY <1>6 DEF WorkerWrote, Handed
    <2>. QED
        BY <1>6, <2>1, <2>2, <2>3, <2>4, <2>5 DEF WorkerWrote
<1>7. ASSUME NEW w \in Workers, WorkerExit(w) PROVE TypeOK'
    BY <1>7 DEF WorkerExit
<1>8. ASSUME NEW c \in Callers, NEW o \in Ops, Begin(c, o) PROVE TypeOK'
    <2>1. Outstanding \subseteq Records
        BY <1>8, RangeTyped DEF Outstanding, Entries
    <2>2. due' \in [Callers -> SUBSET Records]
        BY <1>8, <2>1 DEF Begin
    <2>3. calls' \in [Callers -> 0..MaxCalls]
        BY <1>8, QueueAssumption DEF Begin
    <2>4. cpc' \in [Callers -> CallPhases]
        BY <1>8 DEF Begin, GoTo
    <2>. QED
        BY <1>8, <2>1, <2>2, <2>3, <2>4 DEF Begin, GoTo
<1>9. ASSUME NEW c \in Callers, AcquireClose(c) PROVE TypeOK'
    BY <1>9 DEF AcquireClose, GoTo
<1>10. ASSUME NEW c \in Callers, FlushEnsure(c) PROVE TypeOK'
    <2>1. worker' \in Workers \cup {NoThread}
        BY <1>10, StartWorkerTyped DEF FlushEnsure
    <2>2. wpc' \in [Workers -> WorkPhases]
        BY <1>10, StartWorkerTyped DEF FlushEnsure
    <2>3. cpc' \in [Callers -> CallPhases]
        BY <1>10 DEF FlushEnsure, GoTo
    <2>. QED
        BY <1>10, <2>1, <2>2, <2>3 DEF FlushEnsure
<1>11. ASSUME NEW c \in Callers, FlushCheck(c) PROVE TypeOK'
    BY <1>11 DEF FlushCheck, BacklogIsClear, GoTo, AfterFlush
<1>12. ASSUME NEW c \in Callers, ResetWrapped(c) PROVE TypeOK'
    BY <1>12 DEF ResetWrapped, GoTo
<1>13. ASSUME NEW c \in Callers, BeginStop(c) PROVE TypeOK'
    <2>1. target' \in [Callers -> Workers \cup {NoThread}]
        BY <1>13 DEF BeginStop, CaptureOrWait
    <2>2. asleep' \subseteq Threads
        BY <1>13 DEF BeginStop, CaptureOrWait, Threads, Consumers
    <2>3. cpc' \in [Callers -> CallPhases]
        <3>1. \E there \in StopPhases : GoTo(c, there)
            BY <1>13 DEF BeginStop, CaptureOrWait
        <3>. QED
            BY <3>1 DEF GoTo
    <2>. QED
        BY <1>13, <2>1, <2>2, <2>3 DEF BeginStop
<1>14. ASSUME NEW c \in Callers, AwaitPutters(c) PROVE TypeOK'
    <2>1. target' \in [Callers -> Workers \cup {NoThread}]
        BY <1>14 DEF AwaitPutters, CaptureOrWait
    <2>2. asleep' \subseteq Threads
        BY <1>14 DEF AwaitPutters, CaptureOrWait, Threads, Consumers
    <2>3. cpc' \in [Callers -> CallPhases]
        BY <1>14 DEF AwaitPutters, CaptureOrWait, GoTo
    <2>. QED
        BY <1>14, <2>1, <2>2, <2>3 DEF AwaitPutters
<1>15. ASSUME NEW c \in Callers, PutStop(c) PROVE TypeOK'
    BY <1>15 DEF PutStop, Put, GoTo, Entries
<1>16. ASSUME NEW c \in Callers, Join(c) PROVE TypeOK'
    BY <1>16 DEF Join, GoTo
<1>17. ASSUME NEW c \in Callers, DrainGet(c) PROVE TypeOK'
    <2>1. Head(queue) \in Entries
        BY <1>17, HeadTailTyped DEF DrainGet, IsMarker, MarkerDone
    <2>2. queue' \in Seq(Entries)
        BY <1>17, HeadTailTyped DEF DrainGet, IsMarker, MarkerDone
    <2>3. item' \in [Consumers -> Records \cup {NoRecord}]
        BY <1>17, <2>1 DEF DrainGet, IsMarker, MarkerDone, Entries, Consumers
    <2>4. unfinished' \in Int
        BY <1>17, <2>1 DEF DrainGet, IsMarker, MarkerDone
    <2>. QED
        BY <1>17, <2>1, <2>2, <2>3, <2>4 DEF DrainGet, IsMarker, MarkerDone, GoTo
<1>18. ASSUME NEW c \in Callers, DrainWrote(c) PROVE TypeOK'
    <2>1. item[c] \in Records
        BY <1>18 DEF DrainWrote, ItemsAt, Consumers
    <2>2. handed' \in Seq(Records)
        BY <1>18, <2>1 DEF DrainWrote, Handed
    <2>3. item' \in [Consumers -> Records \cup {NoRecord}]
        BY <1>18 DEF DrainWrote, Handed
    <2>4. unfinished' \in Int
        BY <1>18 DEF DrainWrote, Handed
    <2>. QED
        BY <1>18, <2>1, <2>2, <2>3, <2>4 DEF DrainWrote, Handed, GoTo
<1>19. ASSUME NEW c \in Callers, DrainEmpty(c) PROVE TypeOK'
    BY <1>19 DEF DrainEmpty, GoTo
<1>20. ASSUME NEW c \in Callers, FinishStop(c) PROVE TypeOK'
    BY <1>20 DEF FinishStop, Reopen, NotifyAll, GoTo
<1>21. ASSUME NEW c \in Callers, AbortStop(c) PROVE TypeOK'
    BY <1>21 DEF AbortStop, Reopen, NotifyAll, GoTo
<1>22. ASSUME NEW c \in Callers, CloseWrapped(c) PROVE TypeOK'
    BY <1>22 DEF CloseWrapped, GoTo
<1>23. CASE UNCHANGED vars
    BY <1>23 DEF vars
<1>. QED
    BY <1>1, <1>2, <1>3, <1>4, <1>5, <1>6, <1>7, <1>8, <1>9, <1>10, <1>11, <1>12, <1>13,
       <1>14, <1>15, <1>16, <1>17, <1>18, <1>19, <1>20, <1>21, <1>22, <1>23
    DEF Next, HandleStep, WorkerStep, CallStep

\* A record is in hand, or in handle(), exactly in the phases that say so.
LEMMA ItemsStep ==
    ASSUME TypeOK, ItemsAt, RecsAt, [Next]_vars
    PROVE  ItemsAt' /\ RecsAt'
<1>. USE QueueAssumption
     DEF TypeOK, ItemsAt, RecsAt, Consumers, Threads
<1>1. ASSUME NEW t \in Threads, NEW r \in Records, BeginHandle(t, r)
      PROVE  ItemsAt' /\ RecsAt'
    BY <1>1 DEF BeginHandle
<1>2. ASSUME NEW t \in Threads, EnterHandle(t) PROVE ItemsAt' /\ RecsAt'
    BY <1>2 DEF EnterHandle, MustWait, StartWorker
<1>3. ASSUME NEW t \in Threads, PutRecord(t) PROVE ItemsAt' /\ RecsAt'
    BY <1>3 DEF PutRecord, Put
<1>4. ASSUME NEW t \in Threads, LeaveHandle(t) PROVE ItemsAt' /\ RecsAt'
    BY <1>4 DEF LeaveHandle, NotifyAll
<1>5. ASSUME NEW w \in Workers, WorkerGet(w) PROVE ItemsAt' /\ RecsAt'
    <2>1. Head(queue) = Stop \/ (Head(queue) \in Records /\ Head(queue) # NoRecord)
        BY <1>5, HeadTailTyped DEF WorkerGet, IsMarker, MarkerDone, Entries
    <2>2. ItemsAt'
        <3>1. CASE Head(queue) = Stop
            BY <1>5, <3>1 DEF WorkerGet, IsMarker, MarkerDone
        <3>2. CASE Head(queue) # Stop
            <4>1. /\ item' = [item EXCEPT ![w] = Head(queue)]
                  /\ wpc' = [wpc EXCEPT ![w] = "write"] /\ cpc' = cpc
                BY <1>5, <3>2 DEF WorkerGet, IsMarker, MarkerDone
            <4>. QED
                BY <2>1, <3>2, <4>1
        <3>. QED
            BY <3>1, <3>2
    <2>3. RecsAt'
        BY <1>5 DEF WorkerGet, IsMarker, MarkerDone
    <2>. QED
        BY <2>2, <2>3
<1>6. ASSUME NEW w \in Workers, WorkerWrote(w) PROVE ItemsAt' /\ RecsAt'
    BY <1>6 DEF WorkerWrote, Handed
<1>7. ASSUME NEW w \in Workers, WorkerExit(w) PROVE ItemsAt' /\ RecsAt'
    BY <1>7 DEF WorkerExit
<1>8. ASSUME NEW c \in Callers, NEW o \in Ops, Begin(c, o) PROVE ItemsAt' /\ RecsAt'
    BY <1>8 DEF Begin, GoTo, Ops
<1>9. ASSUME NEW c \in Callers, AcquireClose(c) PROVE ItemsAt' /\ RecsAt'
    BY <1>9 DEF AcquireClose, GoTo
<1>10. ASSUME NEW c \in Callers, FlushEnsure(c) PROVE ItemsAt' /\ RecsAt'
    BY <1>10 DEF FlushEnsure, StartWorker, GoTo
<1>11. ASSUME NEW c \in Callers, FlushCheck(c) PROVE ItemsAt' /\ RecsAt'
    BY <1>11 DEF FlushCheck, BacklogIsClear, GoTo, AfterFlush, Ops
<1>12. ASSUME NEW c \in Callers, ResetWrapped(c) PROVE ItemsAt' /\ RecsAt'
    BY <1>12 DEF ResetWrapped, GoTo
<1>13. ASSUME NEW c \in Callers, BeginStop(c) PROVE ItemsAt' /\ RecsAt'
    BY <1>13 DEF BeginStop, CaptureOrWait, GoTo
<1>14. ASSUME NEW c \in Callers, AwaitPutters(c) PROVE ItemsAt' /\ RecsAt'
    BY <1>14 DEF AwaitPutters, CaptureOrWait, GoTo
<1>15. ASSUME NEW c \in Callers, PutStop(c) PROVE ItemsAt' /\ RecsAt'
    BY <1>15 DEF PutStop, Put, GoTo
<1>16. ASSUME NEW c \in Callers, Join(c) PROVE ItemsAt' /\ RecsAt'
    BY <1>16 DEF Join, GoTo
<1>17. ASSUME NEW c \in Callers, DrainGet(c) PROVE ItemsAt' /\ RecsAt'
    <2>1. Head(queue) = Stop \/ (Head(queue) \in Records /\ Head(queue) # NoRecord)
        BY <1>17, HeadTailTyped DEF DrainGet, IsMarker, MarkerDone, Entries
    <2>2. ItemsAt'
        <3>1. CASE Head(queue) = Stop
            BY <1>17, <3>1 DEF DrainGet, IsMarker, MarkerDone, GoTo
        <3>2. CASE Head(queue) # Stop
            <4>1. /\ item' = [item EXCEPT ![c] = Head(queue)]
                  /\ cpc' = [cpc EXCEPT ![c] = "drainWrite"] /\ wpc' = wpc
                BY <1>17, <3>2 DEF DrainGet, IsMarker, MarkerDone, GoTo
            <4>. QED
                BY <2>1, <3>2, <4>1
        <3>. QED
            BY <3>1, <3>2
    <2>3. RecsAt'
        BY <1>17 DEF DrainGet, IsMarker, MarkerDone
    <2>. QED
        BY <2>2, <2>3
<1>18. ASSUME NEW c \in Callers, DrainWrote(c) PROVE ItemsAt' /\ RecsAt'
    BY <1>18 DEF DrainWrote, Handed, GoTo
<1>19. ASSUME NEW c \in Callers, DrainEmpty(c) PROVE ItemsAt' /\ RecsAt'
    BY <1>19 DEF DrainEmpty, GoTo
<1>20. ASSUME NEW c \in Callers, FinishStop(c) PROVE ItemsAt' /\ RecsAt'
    BY <1>20 DEF FinishStop, Reopen, NotifyAll, GoTo
<1>21. ASSUME NEW c \in Callers, AbortStop(c) PROVE ItemsAt' /\ RecsAt'
    BY <1>21 DEF AbortStop, Reopen, NotifyAll, GoTo
<1>22. ASSUME NEW c \in Callers, CloseWrapped(c) PROVE ItemsAt' /\ RecsAt'
    BY <1>22 DEF CloseWrapped, GoTo
<1>23. CASE UNCHANGED vars
    BY <1>23 DEF vars
<1>. QED
    BY <1>1, <1>2, <1>3, <1>4, <1>5, <1>6, <1>7, <1>8, <1>9, <1>10, <1>11, <1>12, <1>13,
       <1>14, <1>15, <1>16, <1>17, <1>18, <1>19, <1>20, <1>21, <1>22, <1>23
    DEF Next, HandleStep, WorkerStep, CallStep

-----------------------------------------------------------------------------
(* Who holds what while a handler is closed *)

\* A thread that is still in _work() is the worker the handler knows.
OneWorker == \A w \in Workers : wpc[w] # "off" => worker = w

\* close() runs under _close_lock from its flush to the end.
LockHeld ==
    \A c \in Callers :
        \/ cpc[c] \in StopPhases \cup {"stop", "closeWrapped"}
        \/ cpc[c] \in {"ensure", "check"} /\ op[c] = "close"
        => closeLock = c

\* _closing is set from the first step of _stop_worker() to its last.
ClosingHeld == \A c \in Callers : cpc[c] \in StopPhases => closing

\* The worker to stop is noted, and no other takes its place.
Captured ==
    \A c \in Callers :
        cpc[c] \in {"putStop", "join"} => worker \in Workers /\ target[c] = worker

\* While close() drains, no worker runs.
Drained ==
    \A c \in Callers :
        cpc[c] \in {"drain", "drainWrite", "finish", "abort"} =>
            \A w \in Workers : wpc[w] = "off"

Control == OneWorker /\ LockHeld /\ ClosingHeld /\ Captured /\ Drained

\* Every step keeps them.  A worker is started only where _closing is false,
\* so none appears between the join and the end of the drain.
LEMMA ControlStep ==
    ASSUME TypeOK, Control, [Next]_vars
    PROVE  Control'
<1>. USE QueueAssumption
     DEF TypeOK, Control, OneWorker, LockHeld, ClosingHeld, Captured, Drained,
         StartWorker, StopPhases, FlushPhases, WorkPhases, Consumers, Threads
<1>1. ASSUME NEW t \in Threads, NEW r \in Records, BeginHandle(t, r) PROVE Control'
    BY <1>1 DEF BeginHandle
<1>2. ASSUME NEW t \in Threads, EnterHandle(t) PROVE Control'
    BY <1>2 DEF EnterHandle, MustWait
<1>3. ASSUME NEW t \in Threads, PutRecord(t) PROVE Control'
    BY <1>3 DEF PutRecord, Put
<1>4. ASSUME NEW t \in Threads, LeaveHandle(t) PROVE Control'
    BY <1>4 DEF LeaveHandle, NotifyAll
<1>5. ASSUME NEW w \in Workers, WorkerGet(w) PROVE Control'
    BY <1>5 DEF WorkerGet, IsMarker, MarkerDone
<1>6. ASSUME NEW w \in Workers, WorkerWrote(w) PROVE Control'
    BY <1>6 DEF WorkerWrote, Handed
<1>7. ASSUME NEW w \in Workers, WorkerExit(w) PROVE Control'
    BY <1>7 DEF WorkerExit
<1>8. ASSUME NEW c \in Callers, NEW o \in Ops, Begin(c, o) PROVE Control'
    BY <1>8 DEF Begin, GoTo, Ops
<1>9. ASSUME NEW c \in Callers, AcquireClose(c) PROVE Control'
    BY <1>9 DEF AcquireClose, GoTo
<1>10. ASSUME NEW c \in Callers, FlushEnsure(c) PROVE Control'
    BY <1>10 DEF FlushEnsure, GoTo
<1>11. ASSUME NEW c \in Callers, FlushCheck(c) PROVE Control'
    BY <1>11 DEF FlushCheck, BacklogIsClear, GoTo, AfterFlush, Ops
<1>12. ASSUME NEW c \in Callers, ResetWrapped(c) PROVE Control'
    BY <1>12 DEF ResetWrapped, GoTo
<1>13. ASSUME NEW c \in Callers, BeginStop(c) PROVE Control'
    <2>1. OneWorker'
        BY <1>13 DEF BeginStop, CaptureOrWait, GoTo
    <2>2. LockHeld'
        BY <1>13 DEF BeginStop, CaptureOrWait, GoTo
    <2>3. ClosingHeld'
        BY <1>13 DEF BeginStop, CaptureOrWait, GoTo
    <2>4. Captured'
        BY <1>13 DEF BeginStop, CaptureOrWait, GoTo
    <2>5. worker = NoThread => \A w \in Workers : wpc[w] = "off"
        BY QueueAssumption DEF Threads, Consumers
    <2>6. Drained'
        BY <1>13, <2>5 DEF BeginStop, CaptureOrWait, GoTo
    <2>. QED
        BY <2>1, <2>2, <2>3, <2>4, <2>6
<1>14. ASSUME NEW c \in Callers, AwaitPutters(c) PROVE Control'
    <2>1. OneWorker'
        BY <1>14 DEF AwaitPutters, CaptureOrWait, GoTo
    <2>2. LockHeld'
        BY <1>14 DEF AwaitPutters, CaptureOrWait, GoTo
    <2>3. ClosingHeld'
        BY <1>14 DEF AwaitPutters, CaptureOrWait, GoTo
    <2>4. Captured'
        BY <1>14 DEF AwaitPutters, CaptureOrWait, GoTo
    <2>5. worker = NoThread => \A w \in Workers : wpc[w] = "off"
        BY QueueAssumption DEF Threads, Consumers
    <2>6. Drained'
        BY <1>14, <2>5 DEF AwaitPutters, CaptureOrWait, GoTo
    <2>. QED
        BY <2>1, <2>2, <2>3, <2>4, <2>6
<1>15. ASSUME NEW c \in Callers, PutStop(c) PROVE Control'
    BY <1>15 DEF PutStop, Put, GoTo
<1>16. ASSUME NEW c \in Callers, Join(c) PROVE Control'
    BY <1>16 DEF Join, GoTo
<1>17. ASSUME NEW c \in Callers, DrainGet(c) PROVE Control'
    BY <1>17 DEF DrainGet, IsMarker, MarkerDone, GoTo
<1>18. ASSUME NEW c \in Callers, DrainWrote(c) PROVE Control'
    BY <1>18 DEF DrainWrote, Handed, GoTo
<1>19. ASSUME NEW c \in Callers, DrainEmpty(c) PROVE Control'
    BY <1>19 DEF DrainEmpty, GoTo
<1>20. ASSUME NEW c \in Callers, FinishStop(c) PROVE Control'
    BY <1>20 DEF FinishStop, Reopen, NotifyAll, GoTo
<1>21. ASSUME NEW c \in Callers, AbortStop(c) PROVE Control'
    BY <1>21 DEF AbortStop, Reopen, NotifyAll, GoTo
<1>22. ASSUME NEW c \in Callers, CloseWrapped(c) PROVE Control'
    BY <1>22 DEF CloseWrapped, GoTo
<1>23. CASE UNCHANGED vars
    BY <1>23 DEF vars
<1>. QED
    BY <1>1, <1>2, <1>3, <1>4, <1>5, <1>6, <1>7, <1>8, <1>9, <1>10, <1>11, <1>12, <1>13,
       <1>14, <1>15, <1>16, <1>17, <1>18, <1>19, <1>20, <1>21, <1>22, <1>23
    DEF Next, HandleStep, WorkerStep, CallStep

-----------------------------------------------------------------------------
IInv == Typed /\ Control

\* The invariant holds at first and every step keeps it.
LEMMA Inductive == Spec => []IInv
<1>1. Init => IInv
    <2>. SUFFICES ASSUME Init PROVE Control
        BY TypedInit DEF IInv
    <2>. QED
        BY DEF Init, Control, OneWorker, LockHeld, ClosingHeld, Captured, Drained,
           StopPhases
<1>2. IInv /\ [Next]_vars => IInv'
    BY TypedStep, ItemsStep, ControlStep DEF IInv, Typed
<1>. QED
    BY <1>1, <1>2, PTL DEF Spec

\* Every variable keeps its type.
THEOREM TypeCorrect == Spec => []TypeOK
  BY Inductive, PTL DEF IInv, Typed

\* At most one thread is inside the wrapped handler, however many log, flush,
\* reset and close, and whatever workers die of.
THEOREM OneConsumer == Spec => []SingleConsumer
<1>1. IInv => SingleConsumer
    <2>. SUFFICES ASSUME IInv, NEW j \in Consumers, NEW k \in Consumers,
                         item[j] # NoRecord, item[k] # NoRecord
                  PROVE  j = k
        BY DEF SingleConsumer
    <2>. USE DEF IInv, Typed, ItemsAt, Control
    <2>1. CASE j \in Workers /\ k \in Workers
        BY <2>1 DEF OneWorker
    <2>2. CASE j \in Callers /\ k \in Callers
        BY <2>2 DEF LockHeld, StopPhases
    <2>3. CASE (j \in Workers /\ k \in Callers) \/ (j \in Callers /\ k \in Workers)
        BY <2>3 DEF Drained
    <2>. QED
        BY <2>1, <2>2, <2>3 DEF Consumers
<1>. QED
    BY Inductive, <1>1, PTL


-----------------------------------------------------------------------------
(* Who is in handle(), and the count of those who are putting *)

Putters == {t \in Threads : call[t] \in {"put", "leave"}}

PuttingExact == putting = Cardinality(Putters)

\* A consumer logs only from inside the wrapped handler.
EchoAt ==
    /\ \A w \in Workers : call[w] # "none" => wpc[w] = "write"
    /\ \A c \in Callers : call[c] # "none" => cpc[c] = "drainWrite"

\* handle() alone moves those who are in it.
LEMMA OthersLeaveHandle ==
    /\ \A w \in Workers : WorkerStep(w) => UNCHANGED <<call, rec, putting, closing, asleep>>
    /\ \A c \in Callers : CallStep(c) => UNCHANGED <<call, rec, putting>>
    /\ \A c \in Callers, o \in Ops :
           Begin(c, o) => UNCHANGED <<call, rec, putting, closing, asleep>>
<1>1. ASSUME NEW w \in Workers, WorkerStep(w)
      PROVE  UNCHANGED <<call, rec, putting, closing, asleep>>
    BY <1>1 DEF WorkerStep, WorkerGet, WorkerWrote, WorkerExit, Handed
<1>2. ASSUME NEW c \in Callers, CallStep(c)
      PROVE  UNCHANGED <<call, rec, putting>>
    BY <1>2 DEF CallStep, AcquireClose, FlushEnsure, FlushCheck, ResetWrapped, BeginStop,
        AwaitPutters, CaptureOrWait, PutStop, Join, DrainGet, DrainWrote, DrainEmpty,
        FinishStop, AbortStop, Reopen, CloseWrapped
<1>3. ASSUME NEW c \in Callers, NEW o \in Ops, Begin(c, o)
      PROVE  UNCHANGED <<call, rec, putting, closing, asleep>>
    BY <1>3 DEF Begin
<1>. QED
    BY <1>1, <1>2, <1>3

\* The set of putters is finite.
LEMMA PuttersFinite == IsFiniteSet(Putters) /\ Cardinality(Putters) \in Nat
<1>1. Putters \subseteq Threads
    BY DEF Putters
<1>2. IsFiniteSet(Putters)
    BY <1>1, FiniteThreads, FS_Subset
<1>. QED
    BY <1>2, FS_CardinalityType

\* _putting goes on counting the threads between its two ends.
LEMMA PuttingStep ==
    ASSUME TypeOK, PuttingExact, [Next]_vars
    PROVE  PuttingExact'
<1>. USE DEF TypeOK, PuttingExact
<1>1. ASSUME NEW t \in Threads, NEW r \in Records, BeginHandle(t, r) PROVE PuttingExact'
    BY <1>1 DEF BeginHandle, Putters
<1>2. ASSUME NEW t \in Threads, EnterHandle(t) PROVE PuttingExact'
    <2>1. CASE MustWait(t)
        BY <1>2, <2>1 DEF EnterHandle, Putters
    <2>2. CASE ~MustWait(t)
        <3>1. Putters' = Putters \cup {t} /\ t \notin Putters /\ putting' = putting + 1
            BY <1>2, <2>2 DEF EnterHandle, Putters
        <3>. QED
            BY <3>1, PuttersFinite, FS_AddElement
    <2>. QED
        BY <2>1, <2>2
<1>3. ASSUME NEW t \in Threads, PutRecord(t) PROVE PuttingExact'
    BY <1>3 DEF PutRecord, Putters
<1>4. ASSUME NEW t \in Threads, LeaveHandle(t) PROVE PuttingExact'
    <2>1. Putters' = Putters \ {t} /\ t \in Putters /\ putting' = putting - 1
        BY <1>4 DEF LeaveHandle, Putters
    <2>. QED
        BY <2>1, PuttersFinite, FS_RemoveElement
<1>5. CASE UNCHANGED <<call, putting>>
    BY <1>5 DEF Putters
<1>6. CASE UNCHANGED vars
    BY <1>6, <1>5 DEF vars, Putters
<1>. QED
    BY <1>1, <1>2, <1>3, <1>4, <1>5, <1>6, OthersLeaveHandle DEF Next, HandleStep

\* A consumer that is logging stays where it is.
LEMMA EchoStep ==
    ASSUME TypeOK, EchoAt, [Next]_vars
    PROVE  EchoAt'
<1>. USE QueueAssumption DEF TypeOK, EchoAt, Threads, Consumers
<1>1. ASSUME NEW t \in Threads, NEW r \in Records, BeginHandle(t, r) PROVE EchoAt'
    BY <1>1 DEF BeginHandle, Writing
<1>2. ASSUME NEW t \in Threads, EnterHandle(t) PROVE EchoAt'
    BY <1>2 DEF EnterHandle, StartWorker, WorkPhases
<1>3. ASSUME NEW t \in Threads, PutRecord(t) PROVE EchoAt'
    BY <1>3 DEF PutRecord
<1>4. ASSUME NEW t \in Threads, LeaveHandle(t) PROVE EchoAt'
    BY <1>4 DEF LeaveHandle
<1>5. ASSUME NEW w \in Workers, WorkerStep(w) PROVE EchoAt'
    BY <1>5 DEF WorkerStep, WorkerGet, WorkerWrote, WorkerExit
<1>6. ASSUME NEW c \in Callers, FlushEnsure(c) PROVE EchoAt'
    BY <1>6 DEF FlushEnsure, StartWorker, GoTo, WorkPhases
<1>7. ASSUME NEW c \in Callers, CallStep(c), ~FlushEnsure(c) PROVE EchoAt'
    BY <1>7 DEF CallStep, AcquireClose, FlushCheck, ResetWrapped, BeginStop,
        AwaitPutters, CaptureOrWait, PutStop, Join, DrainGet, DrainWrote, DrainEmpty,
        FinishStop, AbortStop, Reopen, CloseWrapped, GoTo
<1>8. ASSUME NEW c \in Callers, NEW o \in Ops, Begin(c, o) PROVE EchoAt'
    BY <1>8 DEF Begin, GoTo
<1>9. CASE UNCHANGED vars
    BY <1>9 DEF vars
<1>. QED
    BY <1>1, <1>2, <1>3, <1>4, <1>5, <1>6, <1>7, <1>8, <1>9 DEF Next, HandleStep

\* Who sleeps has a reason to, and is woken when the reason goes.
LEMMA WakeupStep ==
    ASSUME TypeOK, PuttingExact, EchoAt, NoLostWakeup, [Next]_vars
    PROVE  NoLostWakeup'
<1>. USE DEF TypeOK, NoLostWakeup
<1>0. putting \in Nat
    BY PuttersFinite DEF PuttingExact
<1>1. ASSUME NEW t \in Threads, NEW r \in Records, BeginHandle(t, r) PROVE NoLostWakeup'
    BY <1>1 DEF BeginHandle
<1>2. ASSUME NEW t \in Threads, EnterHandle(t) PROVE NoLostWakeup'
    <2>1. t \in Callers => cpc[t] # "await"
        BY <1>2 DEF EnterHandle, EchoAt
    <2>2. closing' = closing /\ cpc' = cpc /\ closing \in BOOLEAN
        BY <1>2 DEF EnterHandle
    <2>3. CASE MustWait(t)
        <3>1. asleep' = asleep \cup {t} /\ putting' = putting /\ closing
            BY <1>2, <2>3 DEF EnterHandle, MustWait
        <3>. QED
            BY <2>1, <2>2, <3>1
    <2>4. CASE ~MustWait(t)
        <3>1. asleep' = asleep /\ putting' = putting + 1
            BY <1>2, <2>4 DEF EnterHandle
        <3>. QED
            BY <1>0, <2>2, <3>1
    <2>. QED
        BY <2>3, <2>4
<1>3. ASSUME NEW t \in Threads, PutRecord(t) PROVE NoLostWakeup'
    BY <1>3 DEF PutRecord
<1>4. ASSUME NEW t \in Threads, LeaveHandle(t) PROVE NoLostWakeup'
    BY <1>4 DEF LeaveHandle, NotifyAll
<1>5. ASSUME NEW w \in Workers, WorkerStep(w) PROVE NoLostWakeup'
    BY <1>5 DEF WorkerStep, WorkerGet, WorkerWrote, WorkerExit
<1>6. ASSUME NEW c \in Callers, BeginStop(c) \/ AwaitPutters(c) PROVE NoLostWakeup'
    BY <1>0, <1>6 DEF BeginStop, AwaitPutters, CaptureOrWait, GoTo
<1>7. ASSUME NEW c \in Callers, FinishStop(c) \/ AbortStop(c) PROVE NoLostWakeup'
    BY <1>7 DEF FinishStop, AbortStop, Reopen, NotifyAll
<1>8. ASSUME NEW c \in Callers, CallStep(c),
             ~(BeginStop(c) \/ AwaitPutters(c) \/ FinishStop(c) \/ AbortStop(c))
      PROVE  NoLostWakeup'
    BY <1>8 DEF CallStep, AcquireClose, FlushEnsure, FlushCheck, ResetWrapped, PutStop,
        Join, DrainGet, DrainWrote, DrainEmpty, CloseWrapped, GoTo, AfterFlush, Ops
<1>9. ASSUME NEW c \in Callers, NEW o \in Ops, Begin(c, o) PROVE NoLostWakeup'
    BY <1>9 DEF Begin, GoTo
<1>10. CASE UNCHANGED vars
    BY <1>10 DEF vars
<1>. QED
    BY <1>1, <1>2, <1>3, <1>4, <1>5, <1>6, <1>7, <1>8, <1>9, <1>10 DEF Next, HandleStep

-----------------------------------------------------------------------------
(* The count of unfinished tasks *)

Holders == {k \in Consumers : item[k] # NoRecord}

\* The set of consumers with a record in hand is finite.
LEMMA HoldersFinite == IsFiniteSet(Holders) /\ Cardinality(Holders) \in Nat
<1>1. Holders \subseteq Threads
    BY DEF Holders, Threads
<1>2. IsFiniteSet(Holders)
    BY <1>1, FiniteThreads, FS_Subset
<1>. QED
    BY <1>2, FS_CardinalityType

\* Putting an entry, or taking one, changes the length of the queue by one.
LEMMA LengthAfter ==
    ASSUME NEW S, NEW s \in Seq(S), NEW e \in S
    PROVE  /\ Len(s) \in Nat
           /\ Len(Append(s, e)) = Len(s) + 1
           /\ s # <<>> => Len(Tail(s)) = Len(s) - 1
  BY SMT

\* A consumer takes an entry off the queue: a record goes into its hand.
LEMMA TakenCounted ==
    ASSUME TypeOK, UnfinishedExact, NEW k \in Consumers,
           queue # <<>>, queue' = Tail(queue), item[k] = NoRecord,
           IF Head(queue) = Stop
           THEN unfinished' = unfinished - 1 /\ item' = item
           ELSE unfinished' = unfinished /\ item' = [item EXCEPT ![k] = Head(queue)]
    PROVE  UnfinishedExact'
<1>1. Len(queue') = Len(queue) - 1 /\ Len(queue) \in Nat
    BY LengthAfter, HeadTailTyped DEF TypeOK
<1>2. CASE Head(queue) = Stop
    BY <1>1, <1>2, HoldersFinite DEF UnfinishedExact, Holders, TypeOK
<1>3. CASE Head(queue) # Stop
    <2>1. Head(queue) \in Records /\ Head(queue) # NoRecord
        BY <1>3, HeadTailTyped, QueueAssumption DEF TypeOK, Entries
    <2>2. Holders' = Holders \cup {k} /\ k \notin Holders
        BY <1>3, <2>1 DEF Holders, TypeOK
    <2>3. Cardinality(Holders') = Cardinality(Holders) + 1
        BY <2>2, HoldersFinite, FS_AddElement
    <2>. QED
        BY <1>1, <1>3, <2>3, HoldersFinite DEF UnfinishedExact, Holders, TypeOK
<1>. QED
    BY <1>2, <1>3

\* A consumer is done with the record in its hand.
LEMMA HandedCounted ==
    ASSUME TypeOK, UnfinishedExact, NEW k \in Consumers,
           item[k] # NoRecord, Handed(k), queue' = queue
    PROVE  UnfinishedExact'
<1>1. Holders' = Holders \ {k} /\ k \in Holders
    BY DEF Handed, Holders, TypeOK
<1>2. Cardinality(Holders') = Cardinality(Holders) - 1
    BY <1>1, HoldersFinite, FS_RemoveElement
<1>3. Len(queue) \in Nat
    BY DEF TypeOK
<1>. QED
    BY <1>2, <1>3, HoldersFinite DEF UnfinishedExact, Handed, Holders, TypeOK

\* An entry is put.
LEMMA PutCounted ==
    ASSUME TypeOK, UnfinishedExact, NEW e \in Entries, Put(e), item' = item
    PROVE  UnfinishedExact'
<1>1. Len(queue') = Len(queue) + 1 /\ Len(queue) \in Nat
    BY LengthAfter DEF Put, TypeOK
<1>. QED
    BY <1>1, HoldersFinite DEF UnfinishedExact, Put, Holders, TypeOK

\* unfinished_tasks stays exact.
LEMMA UnfinishedStep ==
    ASSUME Typed, UnfinishedExact, [Next]_vars
    PROVE  UnfinishedExact'
<1>. USE DEF Typed
<1>1. ASSUME NEW t \in Threads, NEW r \in Records, BeginHandle(t, r) PROVE UnfinishedExact'
    BY <1>1 DEF BeginHandle, UnfinishedExact
<1>2. ASSUME NEW t \in Threads, EnterHandle(t) PROVE UnfinishedExact'
    BY <1>2 DEF EnterHandle, UnfinishedExact
<1>3. ASSUME NEW t \in Threads, PutRecord(t) PROVE UnfinishedExact'
    <2>1. rec[t] \in Entries
        BY <1>3 DEF PutRecord, RecsAt, TypeOK, Entries
    <2>. QED
        BY <1>3, <2>1, PutCounted DEF PutRecord
<1>4. ASSUME NEW t \in Threads, LeaveHandle(t) PROVE UnfinishedExact'
    BY <1>4 DEF LeaveHandle, UnfinishedExact
<1>5. ASSUME NEW w \in Workers, WorkerGet(w) PROVE UnfinishedExact'
    <2>1. item[w] = NoRecord
        BY <1>5 DEF WorkerGet, ItemsAt
    <2>. QED
        BY <1>5, <2>1, TakenCounted DEF WorkerGet, IsMarker, MarkerDone, Consumers
<1>6. ASSUME NEW w \in Workers, WorkerWrote(w) PROVE UnfinishedExact'
    BY <1>6, HandedCounted DEF WorkerWrote, ItemsAt, Consumers
<1>7. ASSUME NEW w \in Workers, WorkerExit(w) PROVE UnfinishedExact'
    BY <1>7 DEF WorkerExit, UnfinishedExact
<1>8. ASSUME NEW c \in Callers, NEW o \in Ops, Begin(c, o) PROVE UnfinishedExact'
    BY <1>8 DEF Begin, UnfinishedExact
<1>9. ASSUME NEW c \in Callers, PutStop(c) PROVE UnfinishedExact'
    BY <1>9, PutCounted DEF PutStop, Entries
<1>10. ASSUME NEW c \in Callers, DrainGet(c) PROVE UnfinishedExact'
    <2>1. item[c] = NoRecord
        BY <1>10 DEF DrainGet, ItemsAt
    <2>. QED
        BY <1>10, <2>1, TakenCounted DEF DrainGet, IsMarker, MarkerDone, Consumers
<1>11. ASSUME NEW c \in Callers, DrainWrote(c) PROVE UnfinishedExact'
    BY <1>11, HandedCounted DEF DrainWrote, ItemsAt, Consumers
<1>12. ASSUME NEW c \in Callers, CallStep(c), ~(PutStop(c) \/ DrainGet(c) \/ DrainWrote(c))
       PROVE  UnfinishedExact'
    BY <1>12 DEF CallStep, AcquireClose, FlushEnsure, FlushCheck, ResetWrapped, BeginStop,
        AwaitPutters, Join, DrainEmpty, FinishStop, AbortStop, CloseWrapped,
        UnfinishedExact
<1>13. CASE UNCHANGED vars
    BY <1>13 DEF vars, UnfinishedExact
<1>. QED
    BY <1>1, <1>2, <1>3, <1>4, <1>5, <1>6, <1>7, <1>8, <1>9, <1>10, <1>11, <1>12, <1>13
    DEF Next, HandleStep, WorkerStep

-----------------------------------------------------------------------------
(* flush() is a barrier *)

Known == Range(handed) \cup Outstanding

\* What a caller has to wait for is handed over, or still outstanding.
DueKept == \A c \in Callers : due[c] \subseteq Known

\* What a queue holds when an entry joins it, or its first one leaves.
LEMMA RangeAfter ==
    ASSUME NEW S, NEW s \in Seq(S), NEW e \in S
    PROVE  /\ Range(Append(s, e)) = Range(s) \cup {e}
           /\ s # <<>> => Range(s) = {Head(s)} \cup Range(Tail(s))
<1>1. Range(Append(s, e)) = Range(s) \cup {e}
    <2>1. DOMAIN Append(s, e) = 1..(Len(s) + 1) /\ DOMAIN s = 1..Len(s) /\ Len(s) \in Nat
        OBVIOUS
    <2>2. \A i \in 1..Len(s) : Append(s, e)[i] = s[i]
        OBVIOUS
    <2>3. Append(s, e)[Len(s) + 1] = e
        OBVIOUS
    <2>4. ASSUME NEW i \in 1..(Len(s) + 1) PROVE Append(s, e)[i] \in Range(s) \cup {e}
        BY <2>1, <2>2, <2>3 DEF Range
    <2>5. ASSUME NEW i \in 1..Len(s) PROVE s[i] \in Range(Append(s, e))
        BY <2>1, <2>2 DEF Range
    <2>6. e \in Range(Append(s, e))
        BY <2>1, <2>3 DEF Range
    <2>. QED
        BY <2>1, <2>4, <2>5, <2>6 DEF Range
<1>2. ASSUME s # <<>> PROVE Range(s) = {Head(s)} \cup Range(Tail(s))
    <2>1. ASSUME NEW i \in DOMAIN s PROVE s[i] \in {Head(s)} \cup Range(Tail(s))
        <3>1. CASE i = 1
            BY <3>1
        <3>2. CASE i # 1
            <4>1. i - 1 \in DOMAIN Tail(s) /\ Tail(s)[i - 1] = s[i]
                BY <1>2, <3>2
            <4>. QED
                BY <4>1 DEF Range
        <3>. QED
            BY <3>1, <3>2
    <2>2. ASSUME NEW i \in DOMAIN Tail(s) PROVE Tail(s)[i] \in Range(s)
        BY <1>2 DEF Range
    <2>3. Head(s) \in Range(s)
        BY <1>2 DEF Range
    <2>. QED
        BY <2>1, <2>2, <2>3 DEF Range
<1>. QED
    BY <1>1, <1>2

\* A consumer takes an entry off the queue: a record goes into its hand.
LEMMA TakenKnown ==
    ASSUME TypeOK, NEW k \in Consumers,
           queue # <<>>, queue' = Tail(queue), item[k] = NoRecord, handed' = handed,
           IF Head(queue) = Stop
           THEN item' = item
           ELSE item' = [item EXCEPT ![k] = Head(queue)]
    PROVE  Known \subseteq Known'
<1>1. Range(queue) = {Head(queue)} \cup Range(queue')
    BY RangeAfter, HeadTailTyped DEF TypeOK
<1>2. ASSUME NEW j \in Consumers, item[j] # NoRecord PROVE item'[j] = item[j]
    BY <1>2 DEF TypeOK
<1>3. Head(queue) # Stop => item'[k] = Head(queue)
    BY DEF TypeOK
<1>. QED
    BY <1>1, <1>2, <1>3 DEF Known, Outstanding

\* A consumer is done with the record in its hand.
LEMMA HandedKnown ==
    ASSUME TypeOK, NEW k \in Consumers, item[k] # NoRecord, Handed(k), queue' = queue
    PROVE  Known \subseteq Known' /\ Range(handed) \subseteq Range(handed')
<1>1. item[k] \in Records
    BY DEF TypeOK
<1>2. Range(handed') = Range(handed) \cup {item[k]}
    BY <1>1, RangeAfter DEF Handed, TypeOK
<1>3. ASSUME NEW j \in Consumers, j # k PROVE item'[j] = item[j]
    BY <1>3 DEF Handed, TypeOK
<1>. QED
    BY <1>2, <1>3 DEF Known, Outstanding

\* An entry is put.
LEMMA PutKnown ==
    ASSUME TypeOK, NEW e \in Entries, Put(e), UNCHANGED <<item, handed>>
    PROVE  Known \subseteq Known'
<1>1. Range(queue') = Range(queue) \cup {e}
    BY RangeAfter DEF Put, TypeOK
<1>. QED
    BY <1>1 DEF Known, Outstanding

\* No step forgets a record, and what is handed over stays so.
LEMMA KnownGrows ==
    ASSUME Typed, [Next]_vars
    PROVE  Known \subseteq Known' /\ Range(handed) \subseteq Range(handed')
<1>. DEFINE Grows == Known \subseteq Known' /\ Range(handed) \subseteq Range(handed')
<1>0. CASE UNCHANGED <<queue, item, handed>>
    BY <1>0 DEF Known, Outstanding
<1>1. ASSUME NEW t \in Threads, NEW r \in Records, BeginHandle(t, r) PROVE Grows
    BY <1>0, <1>1 DEF BeginHandle
<1>2. ASSUME NEW t \in Threads, EnterHandle(t) \/ LeaveHandle(t) PROVE Grows
    BY <1>0, <1>2 DEF EnterHandle, LeaveHandle
<1>3. ASSUME NEW t \in Threads, PutRecord(t) PROVE Grows
    <2>1. rec[t] \in Entries
        BY <1>3 DEF PutRecord, Typed, RecsAt, TypeOK, Entries
    <2>. QED
        BY <1>3, <2>1, PutKnown DEF PutRecord, Typed
<1>4. ASSUME NEW w \in Workers, WorkerGet(w) PROVE Grows
    <2>1. item[w] = NoRecord
        BY <1>4 DEF WorkerGet, Typed, ItemsAt
    <2>. QED
        BY <1>4, <2>1, TakenKnown DEF WorkerGet, IsMarker, Consumers, Typed
<1>5. ASSUME NEW w \in Workers, WorkerWrote(w) PROVE Grows
    BY <1>5, HandedKnown DEF WorkerWrote, ItemsAt, Consumers, Typed
<1>6. ASSUME NEW w \in Workers, WorkerExit(w) PROVE Grows
    BY <1>0, <1>6 DEF WorkerExit
<1>7. ASSUME NEW c \in Callers, NEW o \in Ops, Begin(c, o) PROVE Grows
    BY <1>0, <1>7 DEF Begin
<1>8. ASSUME NEW c \in Callers, PutStop(c) PROVE Grows
    BY <1>8, PutKnown DEF PutStop, Entries, Typed
<1>9. ASSUME NEW c \in Callers, DrainGet(c) PROVE Grows
    <2>1. item[c] = NoRecord
        BY <1>9 DEF DrainGet, Typed, ItemsAt
    <2>. QED
        BY <1>9, <2>1, TakenKnown DEF DrainGet, IsMarker, Consumers, Typed
<1>10. ASSUME NEW c \in Callers, DrainWrote(c) PROVE Grows
    BY <1>10, HandedKnown DEF DrainWrote, ItemsAt, Consumers, Typed
<1>11. ASSUME NEW c \in Callers, CallStep(c), ~(PutStop(c) \/ DrainGet(c) \/ DrainWrote(c))
       PROVE  UNCHANGED <<queue, item, handed>>
    BY <1>11 DEF CallStep, AcquireClose, FlushEnsure, FlushCheck, ResetWrapped, BeginStop,
        AwaitPutters, Join, DrainEmpty, FinishStop, AbortStop, CloseWrapped
<1>12. CASE UNCHANGED vars
    BY <1>0, <1>12 DEF vars
<1>. QED
    BY <1>0, <1>1, <1>2, <1>3, <1>4, <1>5, <1>6, <1>7, <1>8, <1>9, <1>10, <1>11, <1>12
    DEF Next, HandleStep, WorkerStep

\* What a caller has to wait for is noted when it calls, and not changed.
LEMMA DueChanges ==
    ASSUME [Next]_vars, TypeOK, NEW c \in Callers
    PROVE  \/ due'[c] = due[c]
           \/ \E o \in Ops : Begin(c, o) /\ due'[c] = Outstanding
<1>. USE DEF TypeOK
<1>1. ASSUME NEW t \in Threads, NEW r \in Records, BeginHandle(t, r) PROVE due' = due
    BY <1>1 DEF BeginHandle
<1>2. ASSUME NEW t \in Threads, HandleStep(t) PROVE due' = due
    BY <1>2 DEF HandleStep, EnterHandle, PutRecord, LeaveHandle
<1>3. ASSUME NEW w \in Workers, WorkerStep(w) PROVE due' = due
    BY <1>3 DEF WorkerStep, WorkerGet, WorkerWrote, WorkerExit
<1>4. ASSUME NEW b \in Callers, CallStep(b) PROVE due' = due
    BY <1>4 DEF CallStep, AcquireClose, FlushEnsure, FlushCheck, ResetWrapped, BeginStop,
        AwaitPutters, PutStop, Join, DrainGet, DrainWrote, DrainEmpty, FinishStop,
        AbortStop, CloseWrapped
<1>5. ASSUME NEW b \in Callers, NEW o \in Ops, Begin(b, o)
      PROVE  IF b = c THEN due'[c] = Outstanding ELSE due'[c] = due[c]
    BY <1>5 DEF Begin
<1>6. CASE UNCHANGED vars
    BY <1>6 DEF vars
<1>. QED
    BY <1>1, <1>2, <1>3, <1>4, <1>5, <1>6 DEF Next

\* Nothing a caller has to wait for is lost.
LEMMA DueStep ==
    ASSUME Typed, DueKept, [Next]_vars
    PROVE  DueKept'
<1>. SUFFICES ASSUME NEW c \in Callers PROVE due'[c] \subseteq Known'
    BY DEF DueKept
<1>1. due'[c] = due[c] \/ due'[c] = Outstanding
    BY DueChanges DEF Typed
<1>. QED
    BY <1>1, KnownGrows DEF DueKept, Known

\* Where the count is 0, nothing is outstanding.
LEMMA NothingOutstanding ==
    ASSUME TypeOK, UnfinishedExact, unfinished = 0
    PROVE  queue = <<>> /\ Outstanding = {} /\ \A k \in Consumers : item[k] = NoRecord
<1>1. Len(queue) \in Nat /\ Cardinality(Holders) \in Nat
    BY HoldersFinite DEF TypeOK
<1>2. Len(queue) = 0 /\ Cardinality(Holders) = 0
    BY <1>1 DEF UnfinishedExact, Holders
<1>3. queue = <<>>
    BY <1>2 DEF TypeOK
<1>4. Holders = {}
    BY <1>2, HoldersFinite, FS_EmptySet
<1>. QED
    BY <1>3, <1>4 DEF Outstanding, Holders, Range

\* A caller leaves the phases of flush() only by reading the count as 0.
LEMMA FlushLeft ==
    ASSUME TypeOK, [Next]_vars, NEW c \in Callers,
           cpc[c] \in FlushPhases, cpc'[c] \notin FlushPhases
    PROVE  FlushCheck(c) /\ unfinished = 0
<1>. USE DEF TypeOK, GoTo, FlushPhases
<1>1. ASSUME NEW t \in Threads, NEW r \in Records, BeginHandle(t, r) PROVE FALSE
    BY <1>1 DEF BeginHandle
<1>2. ASSUME NEW t \in Threads, HandleStep(t) PROVE FALSE
    BY <1>2 DEF HandleStep, EnterHandle, PutRecord, LeaveHandle
<1>3. ASSUME NEW w \in Workers, WorkerStep(w) PROVE FALSE
    BY <1>3 DEF WorkerStep, WorkerGet, WorkerWrote, WorkerExit
<1>4. ASSUME NEW b \in Callers, CallStep(b), ~FlushCheck(b) PROVE FALSE
    BY <1>4 DEF CallStep, AcquireClose, FlushEnsure, ResetWrapped, BeginStop,
        AwaitPutters, CaptureOrWait, PutStop, Join, DrainGet, DrainWrote, DrainEmpty,
        FinishStop, AbortStop, CloseWrapped
<1>5. ASSUME NEW b \in Callers, FlushCheck(b) PROVE b = c /\ unfinished = 0
    BY <1>5 DEF FlushCheck, BacklogIsClear
<1>6. ASSUME NEW b \in Callers, NEW o \in Ops, Begin(b, o) PROVE FALSE
    BY <1>6 DEF Begin
<1>7. CASE UNCHANGED vars
    BY <1>7 DEF vars
<1>. QED
    BY <1>1, <1>2, <1>3, <1>4, <1>5, <1>6, <1>7 DEF Next

\* Where the count was read as 0, what the caller waited for is handed over.
LEMMA BarrierStep ==
    ASSUME Typed, UnfinishedExact, DueKept, BarrierHolds, [Next]_vars
    PROVE  BarrierHolds'
<1>. USE DEF Typed
<1>1. SUFFICES ASSUME NEW c \in Callers, cpc'[c] \notin FlushPhases
               PROVE  due'[c] \subseteq Range(handed')
    BY DEF BarrierHolds
<1>2. ASSUME NEW o \in Ops, Begin(c, o) PROVE FALSE
    BY <1>1, <1>2 DEF Begin, GoTo, TypeOK, FlushPhases
<1>3. due'[c] = due[c]
    BY <1>2, DueChanges
<1>4. CASE cpc[c] \notin FlushPhases
    BY <1>3, <1>4, KnownGrows DEF BarrierHolds
<1>5. CASE cpc[c] \in FlushPhases
    <2>1. Outstanding = {}
        BY <1>1, <1>5, FlushLeft, NothingOutstanding
    <2>2. due[c] \subseteq Range(handed)
        BY <2>1 DEF DueKept, Known
    <2>. QED
        BY <1>3, <2>2, KnownGrows
<1>. QED
    BY <1>4, <1>5

-----------------------------------------------------------------------------
(* close() leaves the queue clean *)

NobodyPuts ==
    \A c \in Callers :
        /\ cpc[c] \in {"putStop", "join"} => Putters \subseteq {worker}
        /\ cpc[c] \in {"drain", "drainWrite", "finish", "abort"} => Putters = {}
        /\ cpc[c] = "finish" => queue = <<>>

\* While a close drains, nobody but the worker it stops gets to the queue.
LEMMA CleanStep ==
    ASSUME Typed, Control, EchoAt, PuttingExact, NobodyPuts, [Next]_vars
    PROVE  NobodyPuts'
<1>. USE DEF Typed, TypeOK, NobodyPuts
<1>0. ASSUME NEW b \in Callers, NEW c \in Callers, b # c,
             cpc[b] \in StopPhases \cup {"stop"}
      PROVE  cpc[c] \notin StopPhases
    BY <1>0 DEF Control, LockHeld
<1>1. ASSUME NEW t \in Threads, NEW r \in Records, BeginHandle(t, r) PROVE NobodyPuts'
    BY <1>1 DEF BeginHandle, Putters
<1>2. ASSUME NEW t \in Threads, EnterHandle(t) PROVE NobodyPuts'
    <2>1. SUFFICES ASSUME NEW c \in Callers, cpc[c] \in StopPhases \ {"await"}
                   PROVE  /\ cpc[c] \in {"putStop", "join"} => Putters' \subseteq {worker'}
                          /\ cpc[c] \in {"drain", "drainWrite", "finish", "abort"} =>
                                Putters' = {}
                          /\ cpc[c] = "finish" => queue' = <<>>
        BY <1>2 DEF EnterHandle, StopPhases
    <2>2. closing
        BY <2>1 DEF Control, ClosingHeld
    <2>3. worker' = worker /\ queue' = queue
        BY <1>2, <2>2 DEF EnterHandle, StartWorker
    <2>4. CASE MustWait(t)
        BY <1>2, <2>1, <2>3, <2>4 DEF EnterHandle, Putters
    <2>5. CASE ~MustWait(t)
        <3>1. t = worker /\ Putters' = Putters \cup {t}
            BY <1>2, <2>2, <2>5 DEF EnterHandle, MustWait, Putters
        <3>2. t \in Workers /\ wpc[t] # "off"
            BY <1>2, <3>1, QueueAssumption DEF EnterHandle, EchoAt
        <3>3. cpc[c] \in {"putStop", "join"}
            BY <2>1, <3>2 DEF Control, Drained, StopPhases
        <3>. QED
            BY <2>3, <3>1, <3>3
    <2>. QED
        BY <2>4, <2>5
<1>3. ASSUME NEW t \in Threads, PutRecord(t) PROVE NobodyPuts'
    <2>1. t \in Putters /\ Putters' = Putters
        BY <1>3 DEF PutRecord, Putters
    <2>. QED
        BY <1>3, <2>1 DEF PutRecord
<1>4. ASSUME NEW t \in Threads, LeaveHandle(t) PROVE NobodyPuts'
    <2>1. Putters' \subseteq Putters
        BY <1>4 DEF LeaveHandle, Putters
    <2>. QED
        BY <1>4, <2>1 DEF LeaveHandle
<1>5. ASSUME NEW w \in Workers, WorkerStep(w) PROVE NobodyPuts'
    <2>1. Putters' = Putters /\ worker' = worker /\ cpc' = cpc
        BY <1>5, OthersLeaveHandle DEF Putters, WorkerStep, WorkerGet, WorkerWrote, WorkerExit
    <2>2. queue = <<>> => queue' = queue
        BY <1>5 DEF WorkerStep, WorkerGet, WorkerWrote, WorkerExit
    <2>. QED
        BY <2>1, <2>2
<1>6. ASSUME NEW b \in Callers, CallStep(b) PROVE NobodyPuts'
    <2>0. Putters' = Putters /\ \A c \in Callers : c # b => cpc'[c] = cpc[c]
        BY <1>6, OthersLeaveHandle DEF Putters, CallStep, GoTo, AcquireClose, FlushEnsure,
            FlushCheck, ResetWrapped, BeginStop, AwaitPutters, CaptureOrWait, PutStop,
            Join, DrainGet, DrainWrote, DrainEmpty, FinishStop, AbortStop, CloseWrapped
    <2>1. CASE BeginStop(b) \/ AwaitPutters(b)
        <3>1. putting = 0 => Putters = {}
            BY PuttersFinite, FS_EmptySet DEF PuttingExact
        <3>2. worker' = worker /\ queue' = queue /\ cpc'[b] # "finish"
            BY <2>1 DEF BeginStop, AwaitPutters, CaptureOrWait, GoTo
        <3>3. putting # 0 => cpc'[b] = "await"
            BY <2>1 DEF BeginStop, AwaitPutters, CaptureOrWait, GoTo
        <3>. QED
            BY <2>0, <3>1, <3>2, <3>3
    <2>2. CASE PutStop(b) \/ DrainGet(b) \/ DrainWrote(b) \/ DrainEmpty(b)
        <3>1. cpc[b] \in StopPhases /\ worker' = worker
            BY <2>2 DEF PutStop, DrainGet, DrainWrote, DrainEmpty, StopPhases
        <3>2. \A c \in Callers : c # b => cpc'[c] \notin StopPhases
            BY <1>0, <2>0, <3>1
        <3>3. /\ cpc'[b] \in {"putStop", "join"} => Putters \subseteq {worker}
              /\ cpc'[b] \in {"drain", "drainWrite", "finish", "abort"} => Putters = {}
              /\ cpc'[b] = "finish" => queue' = <<>>
            BY <2>2 DEF PutStop, DrainGet, DrainWrote, DrainEmpty, GoTo
        <3>. QED
            BY <2>0, <3>1, <3>2, <3>3 DEF StopPhases
    <2>3. CASE Join(b)
        <3>1. wpc[worker] = "off" /\ worker \in Workers
            BY <2>3 DEF Join, Control, Captured
        <3>2. worker \notin Putters
            BY <3>1 DEF EchoAt, Putters
        <3>3. Putters = {}
            BY <2>3, <3>2 DEF Join
        <3>. QED
            BY <2>0, <2>3, <3>3 DEF Join, GoTo
    <2>4. CASE FinishStop(b) \/ AbortStop(b)
        <3>1. cpc[b] \in StopPhases /\ cpc'[b] \notin StopPhases
            BY <2>4 DEF FinishStop, AbortStop, GoTo, StopPhases
        <3>2. \A c \in Callers : cpc'[c] \notin StopPhases
            BY <1>0, <2>0, <3>1
        <3>. QED
            BY <3>2 DEF StopPhases
    <2>5. CASE FlushEnsure(b)
        <3>1. closing => worker' = worker
            BY <2>5 DEF FlushEnsure, StartWorker
        <3>. QED
            BY <2>0, <2>5, <3>1 DEF FlushEnsure, GoTo, Control, ClosingHeld, StopPhases
    <2>6. CASE AcquireClose(b) \/ FlushCheck(b) \/ ResetWrapped(b) \/ CloseWrapped(b)
        <3>1. worker' = worker /\ queue' = queue
            BY <2>6 DEF AcquireClose, FlushCheck, ResetWrapped, CloseWrapped
        <3>2. cpc'[b] \in {"idle", "ensure", "resetWrapped", "stop"}
            BY <2>6 DEF AcquireClose, FlushCheck, ResetWrapped, CloseWrapped, GoTo,
                AfterFlush, Ops
        <3>. QED
            BY <2>0, <3>1, <3>2
    <2>. QED
        BY <1>6, <2>1, <2>2, <2>3, <2>4, <2>5, <2>6 DEF CallStep
<1>7. ASSUME NEW b \in Callers, NEW o \in Ops, Begin(b, o) PROVE NobodyPuts'
    BY <1>7 DEF Begin, GoTo, Putters
<1>8. CASE UNCHANGED vars
    BY <1>8 DEF vars, Putters
<1>. QED
    BY <1>1, <1>2, <1>3, <1>4, <1>5, <1>6, <1>7, <1>8 DEF Next, HandleStep

-----------------------------------------------------------------------------
(* The second invariant, and what follows from it *)

BInv ==
    /\ PuttingExact /\ EchoAt /\ NoLostWakeup
    /\ UnfinishedExact /\ DueKept /\ BarrierHolds /\ NobodyPuts

\* The second invariant is inductive on top of the first.
LEMMA Inductive2 == Spec => [](IInv /\ BInv)
<1>1. Init => BInv
    <2>. SUFFICES ASSUME Init PROVE BInv
        OBVIOUS
    <2>1. Putters = {} /\ Holders = {}
        BY DEF Init, Putters, Holders
    <2>2. PuttingExact /\ UnfinishedExact
        <3>1. Cardinality(Putters) = 0 /\ Cardinality(Holders) = 0
            BY <2>1, FS_EmptySet
        <3>2. PuttingExact
            BY <3>1 DEF Init, PuttingExact
        <3>3. UnfinishedExact
            BY <3>1 DEF Init, UnfinishedExact, Holders
        <3>. QED
            BY <3>2, <3>3
    <2>3. EchoAt /\ NoLostWakeup /\ DueKept /\ BarrierHolds /\ NobodyPuts
        BY DEF Init, EchoAt, NoLostWakeup, DueKept, BarrierHolds, NobodyPuts, Consumers, Threads
    <2>. QED
        BY <2>2, <2>3 DEF BInv
<1>2. IInv /\ BInv /\ [Next]_vars => BInv'
    BY PuttingStep, EchoStep, WakeupStep, UnfinishedStep, DueStep, BarrierStep, CleanStep
    DEF IInv, BInv, Typed
<1>. QED
    BY <1>1, <1>2, Inductive, PTL DEF Spec

\* Nobody sleeps in _state.wait() without a thread that will wake it: a closing
\* thread waits for a put in progress, any other for a close that runs.
THEOREM WakeupsKept == Spec => []NoLostWakeup
  BY Inductive2, PTL DEF BInv

\* unfinished_tasks is the length of the queue and what is being handed over.
THEOREM CountExact == Spec => []UnfinishedExact
  BY Inductive2, PTL DEF BInv

\* A flush(), reset() or close() that has read the count as 0 has had all that
\* was logged before the call handed to the wrapped handler.
THEOREM FlushIsBarrier == Spec => []BarrierHolds
  BY Inductive2, PTL DEF BInv

\* When close() reopens the handler the queue is empty, the worker has ended
\* and no record is on its way to the queue.
THEOREM CloseIsClean == Spec => []StopIsClean
<1>1. IInv /\ BInv => StopIsClean
    <2>. SUFFICES ASSUME IInv, BInv, NEW c \in Callers, cpc[c] = "finish"
                  PROVE  /\ closing /\ queue = <<>> /\ unfinished = 0 /\ putting = 0
                         /\ \A w \in Workers : wpc[w] = "off"
        BY DEF StopIsClean
    <2>1. closing /\ \A w \in Workers : wpc[w] = "off"
        BY DEF IInv, Control, ClosingHeld, Drained, StopPhases
    <2>2. queue = <<>> /\ Putters = {}
        BY DEF BInv, NobodyPuts
    <2>3. putting = 0
        BY <2>2, FS_EmptySet DEF BInv, PuttingExact
    <2>4. ASSUME NEW k \in Consumers PROVE item[k] = NoRecord
        BY <2>1 DEF IInv, Typed, ItemsAt, Control, LockHeld, StopPhases, Consumers
    <2>5. unfinished = 0
        <3>1. Holders = {}
            BY <2>4 DEF Holders
        <3>. QED
            BY <2>2, <3>1, FS_EmptySet DEF BInv, UnfinishedExact, Holders
    <2>. QED
        BY <2>1, <2>2, <2>3, <2>5
<1>. QED
    BY <1>1, Inductive2, PTL

-----------------------------------------------------------------------------
(* Nothing is stranded *)

\* No worker has been given a record it may die of.
NoDeath == Range(handed) \cap Fatal = {}

\* Between two closes the worker that was started is at work, no marker waits
\* for it, and where none was started there is nothing to do.
Tended ==
    /\ NoDeath /\ ~closing =>
          /\ worker # NoThread => wpc[worker] \in {"get", "write"}
          /\ Stop \notin Range(queue)
          /\ worker = NoThread => queue = <<>> /\ Putters = {}
    /\ \A c \in Callers : cpc[c] = "abort" => ~NoDeath

\* A worker, a logger or a flush can only see to it that there is one.
LEMMA TendedStep ==
    ASSUME IInv, BInv, Tended, [Next]_vars
    PROVE  Tended'
<1>. USE QueueAssumption
     DEF IInv, BInv, Typed, TypeOK, Tended, Threads, Consumers
<1>0. NoDeath' => NoDeath
    BY KnownGrows DEF NoDeath
<1>1. ASSUME NEW t \in Threads, NEW r \in Records, BeginHandle(t, r) PROVE Tended'
    BY <1>0, <1>1 DEF BeginHandle, Putters, NoDeath
<1>2. ASSUME NEW t \in Threads, EnterHandle(t) PROVE Tended'
    <2>1. UNCHANGED <<queue, handed, closing, cpc>>
        BY <1>2 DEF EnterHandle
    <2>2. CASE MustWait(t)
        BY <1>2, <2>1, <2>2 DEF EnterHandle, MustWait, Putters, NoDeath
    <2>3. CASE ~MustWait(t)
        <3>1. ~closing => worker' # NoThread
            BY <1>2, <2>3 DEF EnterHandle, StartWorker
        <3>2. NoDeath /\ ~closing => wpc'[worker'] \in {"get", "write"}
            BY <1>2, <2>3 DEF EnterHandle, StartWorker, WorkPhases
        <3>. QED
            BY <2>1, <3>1, <3>2 DEF NoDeath
    <2>. QED
        BY <2>2, <2>3
<1>3. ASSUME NEW t \in Threads, PutRecord(t) PROVE Tended'
    <2>1. t \in Putters /\ Putters' = Putters
        BY <1>3 DEF PutRecord, Putters
    <2>2. rec[t] \in Records
        BY <1>3 DEF PutRecord, RecsAt
    <2>3. Range(queue') = Range(queue) \cup {rec[t]}
        <3>1. queue \in Seq(Entries) /\ rec[t] \in Entries /\ queue' = Append(queue, rec[t])
            BY <1>3, <2>2 DEF PutRecord, Put, Entries
        <3>. HIDE DEF IInv, BInv, Typed, TypeOK, Tended
        <3>. QED
            BY <3>1, RangeAfter
    <2>. QED
        BY <1>3, <2>1, <2>2, <2>3 DEF PutRecord, NoDeath
<1>4. ASSUME NEW t \in Threads, LeaveHandle(t) PROVE Tended'
    <2>1. Putters' \subseteq Putters
        BY <1>4 DEF LeaveHandle, Putters
    <2>. QED
        BY <1>4, <2>1 DEF LeaveHandle, NoDeath
<1>5. ASSUME NEW w \in Workers, WorkerGet(w) PROVE Tended'
    <2>1. Range(queue) = {Head(queue)} \cup Range(queue')
        BY <1>5, RangeAfter, HeadTailTyped DEF WorkerGet
    <2>2. worker = w
        BY <1>5 DEF WorkerGet, Control, OneWorker
    <2>3. UNCHANGED <<worker, closing, call, handed, cpc>>
        BY <1>5 DEF WorkerGet
    <2>4. Head(queue) # Stop => wpc' = [wpc EXCEPT ![w] = "write"]
        BY <1>5 DEF WorkerGet, IsMarker
    <2>. QED
        BY <2>1, <2>2, <2>3, <2>4 DEF NoDeath, Putters
<1>6. ASSUME NEW w \in Workers, WorkerWrote(w) PROVE Tended'
    <2>1. worker = w
        BY <1>6 DEF WorkerWrote, Control, OneWorker
    <2>2. UNCHANGED <<worker, closing, call, queue, cpc>>
        BY <1>6 DEF WorkerWrote
    <2>3. item[w] \in Records /\ handed' = Append(handed, item[w])
        BY <1>6 DEF WorkerWrote, Handed, ItemsAt
    <2>4. Range(handed') = Range(handed) \cup {item[w]}
        BY <2>3, RangeAfter
    <2>5. NoDeath' => wpc' = [wpc EXCEPT ![w] = "get"]
        BY <1>6, <2>4 DEF WorkerWrote, NoDeath
    <2>. QED
        BY <1>0, <2>1, <2>2, <2>5 DEF Putters
<1>7. ASSUME NEW w \in Workers, WorkerExit(w) PROVE Tended'
    <2>1. worker = w
        BY <1>7 DEF WorkerExit, Control, OneWorker
    <2>. QED
        BY <1>7, <2>1 DEF WorkerExit, NoDeath
<1>8. ASSUME NEW c \in Callers, NEW o \in Ops, Begin(c, o) PROVE Tended'
    BY <1>8 DEF Begin, GoTo, NoDeath, Putters
<1>9. ASSUME NEW c \in Callers, FlushEnsure(c) PROVE Tended'
    <2>1. UNCHANGED <<queue, handed, closing, call>>
        BY <1>9 DEF FlushEnsure
    <2>2. /\ ~closing => worker' # NoThread
          /\ NoDeath /\ ~closing => wpc'[worker'] \in {"get", "write"}
        BY <1>9 DEF FlushEnsure, StartWorker, WorkPhases
    <2>3. \A b \in Callers : cpc'[b] = "abort" => cpc[b] = "abort"
        BY <1>9 DEF FlushEnsure, GoTo
    <2>. QED
        BY <2>1, <2>2, <2>3 DEF NoDeath
<1>10. ASSUME NEW c \in Callers, BeginStop(c) \/ AwaitPutters(c) PROVE Tended'
    <2>1. closing'
        BY <1>10 DEF BeginStop, AwaitPutters, Control, ClosingHeld, StopPhases
    <2>2. handed' = handed /\ \A b \in Callers : cpc'[b] = "abort" => cpc[b] = "abort"
        BY <1>10 DEF BeginStop, AwaitPutters, CaptureOrWait, GoTo
    <2>. QED
        BY <2>1, <2>2 DEF NoDeath
<1>11. ASSUME NEW c \in Callers, PutStop(c) \/ DrainGet(c) PROVE Tended'
    <2>1. closing'
        BY <1>11 DEF PutStop, DrainGet, Control, ClosingHeld, StopPhases
    <2>2. handed' = handed /\ \A b \in Callers : cpc'[b] = "abort" => cpc[b] = "abort"
        BY <1>11 DEF PutStop, DrainGet, GoTo
    <2>. QED
        BY <2>1, <2>2 DEF NoDeath
<1>12. ASSUME NEW c \in Callers, DrainWrote(c) PROVE Tended'
    <2>1. closing'
        BY <1>12 DEF DrainWrote, Control, ClosingHeld, StopPhases
    <2>2. item[c] \in Records /\ handed' = Append(handed, item[c])
        BY <1>12 DEF DrainWrote, Handed, ItemsAt
    <2>3. Range(handed') = Range(handed) \cup {item[c]}
        BY <2>2, RangeAfter
    <2>4. NoDeath' => cpc' = [cpc EXCEPT ![c] = "drain"]
        BY <1>12, <2>3 DEF DrainWrote, NoDeath, GoTo
    <2>. QED
        BY <1>0, <2>1, <2>4
<1>13. ASSUME NEW c \in Callers, FinishStop(c) PROVE Tended'
    <2>1. queue' = <<>> /\ Putters' = {}
        BY <1>13 DEF FinishStop, NobodyPuts, Putters
    <2>2. worker' = NoThread /\ handed' = handed
        BY <1>13 DEF FinishStop, Reopen
    <2>3. \A b \in Callers : cpc'[b] = "abort" => cpc[b] = "abort"
        BY <1>13 DEF FinishStop, GoTo
    <2>4. Range(queue') = {}
        BY <2>1 DEF Range
    <2>. QED
        BY <2>1, <2>2, <2>3, <2>4 DEF NoDeath
<1>14. ASSUME NEW c \in Callers, AbortStop(c) PROVE Tended'
    BY <1>14 DEF AbortStop, GoTo, NoDeath
<1>15. ASSUME NEW c \in Callers, AcquireClose(c) \/ FlushCheck(c) \/ ResetWrapped(c)
                                 \/ Join(c) \/ DrainEmpty(c) \/ CloseWrapped(c)
       PROVE Tended'
    <2>1. UNCHANGED <<queue, handed, worker, wpc, closing, call>>
        BY <1>15 DEF AcquireClose, FlushCheck, ResetWrapped, Join, DrainEmpty, CloseWrapped
    <2>2. \A b \in Callers : cpc'[b] = "abort" => cpc[b] = "abort"
        BY <1>15 DEF AcquireClose, FlushCheck, ResetWrapped, Join, DrainEmpty, CloseWrapped,
            GoTo, AfterFlush, Ops
    <2>. QED
        BY <2>1, <2>2 DEF NoDeath, Putters
<1>16. CASE UNCHANGED vars
    BY <1>16 DEF vars, NoDeath, Putters
<1>. QED
    BY <1>1, <1>2, <1>3, <1>4, <1>5, <1>6, <1>7, <1>8, <1>9, <1>10, <1>11, <1>12, <1>13,
       <1>14, <1>15, <1>16
    DEF Next, HandleStep, WorkerStep, CallStep

\* No worker having been given a record it may die of, whatever is on the queue
\* or in hand has a worker that is alive, or a close that drains.
THEOREM NoneStranded == Spec => []NeverStranded
<1>1. Init => Tended
    BY DEF Init, Tended, Range, NoDeath, Putters, Threads
<1>2. Spec => []Tended
    BY <1>1, Inductive2, TendedStep, PTL DEF Spec
<1>3. IInv /\ Tended => NeverStranded
    <2>. SUFFICES ASSUME IInv, Tended, NoDeath, ~closing, Outstanding # {}
                  PROVE  \E w \in Workers : wpc[w] \in {"get", "write"}
        BY DEF NeverStranded, NoDeath
    <2>. USE DEF IInv, Typed, TypeOK, Control
    <2>1. CASE worker # NoThread
        BY <2>1 DEF Tended
    <2>2. CASE worker = NoThread
        <3>1. Range(queue) = {}
            BY <2>2 DEF Tended, Range
        <3>2. PICK k \in Consumers : item[k] # NoRecord
            BY <3>1 DEF Outstanding
        <3>3. k \in Workers
            BY <3>2 DEF ItemsAt, ClosingHeld, StopPhases, Consumers
        <3>. QED
            BY <3>2, <3>3 DEF ItemsAt
    <2>. QED
        BY <2>1, <2>2
<1>. QED
    BY <1>2, <1>3, Inductive, PTL

-----------------------------------------------------------------------------
(* A record is logged once *)

\* A record on its way to the queue has not been there, and is nobody else's.
Fresh ==
    /\ Known \subseteq logged
    /\ \A t \in Threads : call[t] # "none" => rec[t] \in logged
    /\ \A t \in Threads : call[t] \in {"enter", "put"} => rec[t] \notin Known
    /\ \A t, u \in Threads :
           call[t] \in {"enter", "put"} /\ call[u] \in {"enter", "put"} /\ rec[t] = rec[u]
           => t = u

\* A consumer that takes an entry brings nothing new.
LEMMA TakenBounded ==
    ASSUME TypeOK, NEW k \in Consumers,
           queue # <<>>, queue' = Tail(queue), handed' = handed,
           IF Head(queue) = Stop
           THEN item' = item
           ELSE item' = [item EXCEPT ![k] = Head(queue)]
    PROVE  Known' \subseteq Known
<1>1. Range(queue) = {Head(queue)} \cup Range(queue')
    BY RangeAfter, HeadTailTyped DEF TypeOK
<1>2. ASSUME NEW j \in Consumers PROVE item'[j] = item[j] \/ item'[j] = Head(queue)
    BY DEF TypeOK
<1>. QED
    BY <1>1, <1>2 DEF Known, Outstanding

\* Nor does one that is done with its record.
LEMMA HandedBounded ==
    ASSUME TypeOK, NEW k \in Consumers, item[k] # NoRecord, Handed(k), queue' = queue
    PROVE  Known' \subseteq Known
<1>1. item[k] \in Records
    BY DEF TypeOK
<1>2. Range(handed') = Range(handed) \cup {item[k]}
    BY <1>1, RangeAfter DEF Handed, TypeOK
<1>3. ASSUME NEW j \in Consumers PROVE item'[j] = item[j] \/ item'[j] = NoRecord
    BY DEF Handed, TypeOK
<1>4. item[k] \in Outstanding
    BY <1>1, QueueAssumption DEF Outstanding
<1>. QED
    BY <1>2, <1>3, <1>4 DEF Known, Outstanding

\* Only a put brings a record that was not known.
LEMMA KnownBounded ==
    ASSUME Typed, [Next]_vars
    PROVE  \/ Known' \subseteq Known
           \/ \E t \in Threads : PutRecord(t) /\ Known' \subseteq Known \cup {rec[t]}
<1>. DEFINE Bounded == Known' \subseteq Known
<1>0. UNCHANGED <<queue, item, handed>> => Bounded
    BY DEF Known, Outstanding
<1>1. ASSUME NEW t \in Threads, NEW r \in Records, BeginHandle(t, r) PROVE Bounded
    BY <1>0, <1>1 DEF BeginHandle
<1>2. ASSUME NEW t \in Threads, EnterHandle(t) \/ LeaveHandle(t) PROVE Bounded
    BY <1>0, <1>2 DEF EnterHandle, LeaveHandle
<1>3. ASSUME NEW t \in Threads, PutRecord(t) PROVE Known' \subseteq Known \cup {rec[t]}
    <2>1. queue \in Seq(Entries) /\ rec[t] \in Entries /\ queue' = Append(queue, rec[t])
        BY <1>3 DEF PutRecord, Put, Typed, RecsAt, TypeOK, Entries
    <2>2. Range(queue') = Range(queue) \cup {rec[t]}
        BY <2>1, RangeAfter
    <2>. QED
        BY <1>3, <2>2 DEF PutRecord, Known, Outstanding
<1>4. ASSUME NEW w \in Workers, WorkerGet(w) PROVE Bounded
    BY <1>4, TakenBounded DEF WorkerGet, IsMarker, Consumers, Typed
<1>5. ASSUME NEW w \in Workers, WorkerWrote(w) PROVE Bounded
    BY <1>5, HandedBounded DEF WorkerWrote, ItemsAt, Consumers, Typed
<1>6. ASSUME NEW w \in Workers, WorkerExit(w) PROVE Bounded
    BY <1>0, <1>6 DEF WorkerExit
<1>7. ASSUME NEW c \in Callers, NEW o \in Ops, Begin(c, o) PROVE Bounded
    BY <1>0, <1>7 DEF Begin
<1>8. ASSUME NEW c \in Callers, PutStop(c) PROVE Bounded
    <2>1. Range(queue') = Range(queue) \cup {Stop}
        BY <1>8, RangeAfter DEF PutStop, Put, Typed, TypeOK, Entries
    <2>. QED
        BY <1>8, <2>1 DEF PutStop, Known, Outstanding
<1>9. ASSUME NEW c \in Callers, DrainGet(c) PROVE Bounded
    BY <1>9, TakenBounded DEF DrainGet, IsMarker, Consumers, Typed
<1>10. ASSUME NEW c \in Callers, DrainWrote(c) PROVE Bounded
    BY <1>10, HandedBounded DEF DrainWrote, ItemsAt, Consumers, Typed
<1>11. ASSUME NEW c \in Callers, CallStep(c), ~(PutStop(c) \/ DrainGet(c) \/ DrainWrote(c))
       PROVE  UNCHANGED <<queue, item, handed>>
    BY <1>11 DEF CallStep, AcquireClose, FlushEnsure, FlushCheck, ResetWrapped, BeginStop,
        AwaitPutters, Join, DrainEmpty, FinishStop, AbortStop, CloseWrapped
<1>12. CASE UNCHANGED vars
    BY <1>0, <1>12 DEF vars
<1>. QED
    BY <1>0, <1>1, <1>2, <1>3, <1>4, <1>5, <1>6, <1>7, <1>8, <1>9, <1>10, <1>11, <1>12
    DEF Next, HandleStep, WorkerStep

\* logged grows with handle() alone.
LEMMA LoggedKept ==
    /\ \A w \in Workers : WorkerStep(w) => logged' = logged
    /\ \A c \in Callers : CallStep(c) => logged' = logged
    /\ \A c \in Callers, o \in Ops : Begin(c, o) => logged' = logged
<1>1. ASSUME NEW w \in Workers, WorkerStep(w) PROVE logged' = logged
    BY <1>1 DEF WorkerStep, WorkerGet, WorkerWrote, WorkerExit
<1>2. ASSUME NEW c \in Callers, CallStep(c) PROVE logged' = logged
    BY <1>2 DEF CallStep, AcquireClose, FlushEnsure, FlushCheck, ResetWrapped, BeginStop,
        AwaitPutters, PutStop, Join, DrainGet, DrainWrote, DrainEmpty,
        FinishStop, AbortStop, CloseWrapped
<1>3. ASSUME NEW c \in Callers, NEW o \in Ops, Begin(c, o) PROVE logged' = logged
    BY <1>3 DEF Begin
<1>. QED
    BY <1>1, <1>2, <1>3

\* Every step keeps the records on their way apart.
LEMMA FreshStep ==
    ASSUME Typed, Fresh, [Next]_vars
    PROVE  Fresh'
<1>1. ASSUME NEW t \in Threads, NEW r \in Records, BeginHandle(t, r) PROVE Fresh'
    <2>1. Known' = Known
        BY <1>1 DEF BeginHandle, Known, Outstanding
    <2>2. /\ call' = [call EXCEPT ![t] = "enter"] /\ rec' = [rec EXCEPT ![t] = r]
          /\ logged' = logged \cup {r} /\ r \notin logged
        BY <1>1 DEF BeginHandle
    <2>. QED
        BY <2>1, <2>2 DEF Fresh, Typed, TypeOK
<1>2. ASSUME NEW t \in Threads, EnterHandle(t) PROVE Fresh'
    <2>1. Known' = Known /\ UNCHANGED <<rec, logged>>
        BY <1>2 DEF EnterHandle, Known, Outstanding
    <2>2. call[t] = "enter" /\ (call' = call \/ call' = [call EXCEPT ![t] = "put"])
        BY <1>2 DEF EnterHandle
    <2>. QED
        BY <2>1, <2>2 DEF Fresh, Typed, TypeOK
<1>3. ASSUME NEW t \in Threads, PutRecord(t) PROVE Fresh'
    <2>1. /\ call[t] = "put" /\ call' = [call EXCEPT ![t] = "leave"]
          /\ UNCHANGED <<rec, logged>>
        BY <1>3 DEF PutRecord
    <2>2. Known' \subseteq Known \cup {rec[t]}
        <3>1. ASSUME NEW u \in Threads, PutRecord(u) PROVE u = t
            BY <1>3, <3>1 DEF PutRecord, Typed, TypeOK
        <3>. QED
            BY <3>1, KnownBounded
    <2>. QED
        BY <2>1, <2>2 DEF Fresh, Typed, TypeOK
<1>4. ASSUME NEW t \in Threads, LeaveHandle(t) PROVE Fresh'
    <2>1. Known' = Known /\ logged' = logged
        BY <1>4 DEF LeaveHandle, Known, Outstanding
    <2>2. call' = [call EXCEPT ![t] = "none"] /\ rec' = [rec EXCEPT ![t] = NoRecord]
        BY <1>4 DEF LeaveHandle
    <2>. QED
        BY <2>1, <2>2 DEF Fresh, Typed, TypeOK
<1>5. CASE UNCHANGED <<call, rec, logged>>
    <2>1. ASSUME NEW t \in Threads, PutRecord(t) PROVE FALSE
        BY <1>5, <2>1 DEF PutRecord, Typed, TypeOK
    <2>2. Known' \subseteq Known
        BY <2>1, KnownBounded
    <2>. QED
        BY <1>5, <2>2 DEF Fresh
<1>6. UNCHANGED vars => UNCHANGED <<call, rec, logged>>
    BY DEF vars
<1>. QED
    BY <1>1, <1>2, <1>3, <1>4, <1>5, <1>6, OthersLeaveHandle, LoggedKept DEF Next, HandleStep

-----------------------------------------------------------------------------
(* The relay *)

\* What the mapping Relay makes of the state.
Backlog == Selected(queue, Records)
Busy    == {item[k] : k \in Consumers} \ {NoRecord}
Asking  == {c \in Callers : cpc[c] \in FlushPhases}

\* The relay speaks of the same ranges.
LEMMA SameRange == \A f : Relay!Range(f) = Range(f)
  BY DEF Range, Relay!Range

\* All that is outstanding is in the backlog, or in hand.
LEMMA OutstandingIs ==
    ASSUME TypeOK
    PROVE  Outstanding = Range(Backlog) \cup Busy
<1>1. Range(Backlog) = Range(queue) \cap Records
    BY SelectedRange DEF Backlog, TypeOK
<1>2. Range(queue) \subseteq Entries
    BY RangeTyped DEF TypeOK
<1>3. Busy \subseteq Records
    BY DEF Busy, TypeOK
<1>. QED
    BY <1>1, <1>2, <1>3, QueueAssumption DEF Outstanding, Busy, Entries

\* A step that moves none of these is no step of the relay.
LEMMA Unnoticed ==
    ASSUME UNCHANGED <<queue, item, handed, due>>, Asking' = Asking
    PROVE  UNCHANGED Relay!relayVars
<1>1. Backlog' = Backlog /\ Busy' = Busy
    BY DEF Backlog, Busy
<1>. QED
    BY <1>1 DEF Relay!relayVars, Backlog, Busy, Asking

\* A consumer that has nothing in hand takes a record, or the marker.
LEMMA TakesOldest ==
    ASSUME TypeOK, NEW k \in Consumers,
           queue # <<>>, queue' = Tail(queue), UNCHANGED <<handed, due>>,
           Asking' = Asking,
           \A j \in Consumers : item[j] = NoRecord,
           IF Head(queue) = Stop
           THEN item' = item
           ELSE item' = [item EXCEPT ![k] = Head(queue)]
    PROVE  [Relay!Next]_Relay!relayVars
<1>1. queue \in Seq(Entries) /\ Head(queue) \in Entries /\ Tail(queue) \in Seq(Entries)
    BY HeadTailTyped DEF TypeOK
<1>2. Backlog = IF Head(queue) \in Records THEN <<Head(queue)>> \o Backlog' ELSE Backlog'
    BY <1>1, SelectedTail DEF Backlog
<1>3. CASE Head(queue) = Stop
    <2>1. Backlog' = Backlog /\ Busy' = Busy
        BY <1>2, <1>3, QueueAssumption DEF Busy
    <2>. QED
        BY <2>1 DEF Relay!relayVars, Backlog, Busy, Asking
<1>4. CASE Head(queue) # Stop
    <2>1. Head(queue) \in Records /\ Head(queue) # NoRecord
        BY <1>1, <1>4, QueueAssumption DEF Entries
    <2>2. Busy = {}
        BY DEF Busy
    <2>3. Busy' = {Head(queue)}
        <3>1. item'[k] = Head(queue) /\ \A j \in Consumers : j # k => item'[j] = NoRecord
            BY <1>4 DEF TypeOK
        <3>. QED
            BY <2>1, <3>1 DEF Busy
    <2>4. Backlog' \in Seq(Records)
        <3>1. Backlog' \in Seq(Entries \cap Records)
            BY <1>1, SelectedTyped DEF Backlog
        <3>. QED
            BY <3>1, SeqMonotonic
    <2>5. Backlog # <<>> /\ Head(Backlog) = Head(queue) /\ Tail(Backlog) = Backlog'
        <3>. DEFINE r == Head(queue)
                    rest == Backlog'
        <3>1. r \in Records /\ rest \in Seq(Records) /\ Backlog = <<r>> \o rest
            BY <1>2, <2>1, <2>4
        <3>. HIDE DEF r, rest
        <3>2. <<r>> \o rest # <<>> /\ Head(<<r>> \o rest) = r /\ Tail(<<r>> \o rest) = rest
            BY <3>1
        <3>3. Backlog # <<>> /\ Head(Backlog) = r /\ Tail(Backlog) = rest
            BY <3>1, <3>2
        <3>. QED
            BY <3>3 DEF r, rest
    <2>6. Relay!Take
        BY <2>2, <2>3, <2>5 DEF Relay!Take, Backlog, Busy, Asking
    <2>. QED
        BY <2>6 DEF Relay!Next
<1>. QED
    BY <1>3, <1>4

\* The consumer that holds a record is done with it.
LEMMA HandsOver ==
    ASSUME TypeOK, NEW k \in Consumers, item[k] # NoRecord,
           \A j \in Consumers : item[j] # NoRecord => j = k,
           Handed(k), UNCHANGED <<queue, due>>, Asking' = Asking
    PROVE  [Relay!Next]_Relay!relayVars
<1>1. Busy = {item[k]}
    BY DEF Busy
<1>2. /\ handed' = Append(handed, item[k])
      /\ \A j \in Consumers : item'[j] = NoRecord
    BY DEF Handed, TypeOK
<1>3. Busy' = {}
    BY <1>2 DEF Busy
<1>4. Backlog' = Backlog
    BY DEF Backlog
<1>5. Relay!Done
    BY <1>1, <1>2, <1>3, <1>4 DEF Relay!Done, Backlog, Busy, Asking
<1>. QED
    BY <1>5 DEF Relay!Next

\* An entry is put: a record is accepted, the marker goes unnoticed.
LEMMA Accepts ==
    ASSUME TypeOK, NEW e \in Entries, queue' = Append(queue, e), e \notin Known,
           UNCHANGED <<item, handed, due>>, Asking' = Asking
    PROVE  [Relay!Next]_Relay!relayVars
<1>1. Backlog' = IF e \in Records THEN Append(Backlog, e) ELSE Backlog
    BY SelectedAppend DEF Backlog, TypeOK
<1>2. Busy' = Busy
    BY DEF Busy
<1>3. CASE e \in Records
    <2>1. e \notin Range(Backlog) \cup Busy \cup Range(handed)
        BY OutstandingIs DEF Known
    <2>2. Backlog' = Append(Backlog, e)
        BY <1>1, <1>3
    <2>3. Relay!Accept(e)
        BY <1>2, <2>1, <2>2, SameRange DEF Relay!Accept, Backlog, Busy, Asking
    <2>. QED
        BY <1>3, <2>3 DEF Relay!Next
<1>4. CASE e \notin Records
    BY <1>1, <1>2, <1>4 DEF Relay!relayVars, Backlog, Busy, Asking
<1>. QED
    BY <1>3, <1>4

\* A call is made.
LEMMA Asks ==
    ASSUME TypeOK, NEW c \in Callers, NEW o \in Ops, Begin(c, o)
    PROVE  Relay!Ask(c)
<1>1. c \notin Asking /\ Asking' = Asking \cup {c}
    BY DEF Begin, GoTo, Asking, FlushPhases, TypeOK
<1>2. due' = [due EXCEPT ![c] = Range(Backlog) \cup Busy]
    BY OutstandingIs DEF Begin
<1>3. UNCHANGED <<queue, item, handed>>
    BY DEF Begin
<1>4. Backlog' = Backlog /\ Busy' = Busy
    BY <1>3 DEF Backlog, Busy
<1>. QED
    BY <1>1, <1>2, <1>3, <1>4, SameRange DEF Relay!Ask, Backlog, Busy, Asking

\* The count is read: as 0 the caller has its answer.
LEMMA Answers ==
    ASSUME Typed, UnfinishedExact, DueKept, NEW c \in Callers, FlushCheck(c)
    PROVE  [Relay!Next]_Relay!relayVars
<1>. USE DEF Typed
<1>1. UNCHANGED <<queue, item, handed, due>> /\ cpc[c] = "check"
    BY DEF FlushCheck
<1>2. CASE unfinished = 0
    <2>1. c \in Asking /\ Asking' = Asking \ {c}
        BY <1>2 DEF FlushCheck, BacklogIsClear, GoTo, AfterFlush, Ops, Asking, FlushPhases,
            TypeOK
    <2>2. due[c] \subseteq Range(handed)
        BY <1>2, NothingOutstanding DEF DueKept, Known
    <2>3. Backlog' = Backlog /\ Busy' = Busy
        BY <1>1 DEF Backlog, Busy
    <2>4. Relay!Answer(c)
        BY <1>1, <2>1, <2>2, <2>3, SameRange DEF Relay!Answer, Backlog, Busy, Asking
    <2>. QED
        BY <2>4 DEF Relay!Next
<1>3. CASE unfinished # 0
    <2>1. Asking' = Asking
        BY <1>3 DEF FlushCheck, BacklogIsClear, GoTo, Asking, FlushPhases, TypeOK
    <2>. QED
        BY <1>1, <2>1, Unnoticed
<1>. QED
    BY <1>2, <1>3

\* While one consumer has the wrapped handler, or is about to take a record
\* to it, no other has a record in hand.
LEMMA Alone ==
    ASSUME IInv, NEW k \in Consumers, NEW j \in Consumers, item[j] # NoRecord,
           \/ k \in Workers /\ wpc[k] \in {"get", "write"}
           \/ k \in Callers /\ cpc[k] \in {"drain", "drainWrite"}
    PROVE  j = k
<1>. USE DEF IInv, Typed, ItemsAt, Control
<1>1. CASE j \in Workers /\ k \in Workers
    BY <1>1, QueueAssumption DEF OneWorker
<1>2. CASE j \in Callers /\ k \in Callers
    BY <1>2, QueueAssumption DEF LockHeld, StopPhases
<1>3. CASE (j \in Workers /\ k \in Callers) \/ (j \in Callers /\ k \in Workers)
    BY <1>3, QueueAssumption DEF Drained
<1>. QED
    BY <1>1, <1>2, <1>3 DEF Consumers

\* Every step of the handler is a step of the relay, or goes unnoticed there.
LEMMA RelayStep ==
    ASSUME IInv, BInv, Fresh, [Next]_vars
    PROVE  [Relay!Next]_Relay!relayVars
<1>. DEFINE Step == [Relay!Next]_Relay!relayVars
<1>. USE DEF IInv, Typed
<1>1. ASSUME NEW t \in Threads, NEW r \in Records, BeginHandle(t, r) PROVE Step
    BY <1>1, Unnoticed DEF BeginHandle, Asking
<1>2. ASSUME NEW t \in Threads, EnterHandle(t) \/ LeaveHandle(t) PROVE Step
    BY <1>2, Unnoticed DEF EnterHandle, LeaveHandle, Asking
<1>3. ASSUME NEW t \in Threads, PutRecord(t) PROVE Step
    <2>1. rec[t] \in Entries /\ queue' = Append(queue, rec[t])
        BY <1>3 DEF PutRecord, Put, RecsAt, TypeOK, Entries
    <2>2. rec[t] \notin Known
        BY <1>3 DEF PutRecord, Fresh
    <2>3. UNCHANGED <<item, handed, due>> /\ Asking' = Asking
        BY <1>3 DEF PutRecord, Asking
    <2>. QED
        BY <2>1, <2>2, <2>3, Accepts
<1>4. ASSUME NEW w \in Workers, WorkerGet(w) PROVE Step
    <2>1. item[w] = NoRecord
        BY <1>4 DEF WorkerGet, ItemsAt
    <2>2. \A j \in Consumers : item[j] = NoRecord
        BY <1>4, <2>1, Alone DEF WorkerGet, Consumers
    <2>3. UNCHANGED <<handed, due>> /\ Asking' = Asking
        BY <1>4 DEF WorkerGet, Asking
    <2>. QED
        BY <1>4, <2>2, <2>3, TakesOldest DEF WorkerGet, IsMarker, Consumers
<1>5. ASSUME NEW w \in Workers, WorkerWrote(w) PROVE Step
    <2>1. item[w] # NoRecord
        BY <1>5 DEF WorkerWrote, ItemsAt
    <2>2. \A j \in Consumers : item[j] # NoRecord => j = w
        BY <1>5, Alone DEF WorkerWrote, Consumers
    <2>3. UNCHANGED <<queue, due>> /\ Asking' = Asking /\ Handed(w)
        BY <1>5 DEF WorkerWrote, Asking
    <2>. QED
        BY <2>1, <2>2, <2>3, HandsOver DEF Consumers
<1>6. ASSUME NEW w \in Workers, WorkerExit(w) PROVE Step
    BY <1>6, Unnoticed DEF WorkerExit, Asking
<1>7. ASSUME NEW c \in Callers, NEW o \in Ops, Begin(c, o) PROVE Step
    BY <1>7, Asks DEF Relay!Next
<1>8. ASSUME NEW c \in Callers, FlushCheck(c) PROVE Step
    BY <1>8, Answers DEF BInv
<1>9. ASSUME NEW c \in Callers, AcquireClose(c) \/ FlushEnsure(c) PROVE Step
    <2>1. Asking' = Asking
        BY <1>9 DEF AcquireClose, FlushEnsure, GoTo, Asking, FlushPhases, TypeOK
    <2>. QED
        BY <1>9, <2>1, Unnoticed DEF AcquireClose, FlushEnsure
<1>10. ASSUME NEW c \in Callers, NEW there \in CallPhases \ FlushPhases,
              cpc[c] \notin FlushPhases, GoTo(c, there)
       PROVE  Asking' = Asking
    BY <1>10 DEF GoTo, Asking, TypeOK
<1>11. ASSUME NEW c \in Callers, PutStop(c) PROVE Step
    <2>1. Asking' = Asking
        BY <1>10, <1>11 DEF PutStop, CallPhases, FlushPhases, StopPhases
    <2>2. Stop \notin Known
        BY QueueAssumption, RangeTyped DEF Known, Outstanding, TypeOK
    <2>. QED
        BY <1>11, <2>1, <2>2, Accepts DEF PutStop, Put, Entries
<1>12. ASSUME NEW c \in Callers, DrainGet(c) PROVE Step
    <2>1. item[c] = NoRecord
        BY <1>12 DEF DrainGet, ItemsAt
    <2>2. \A j \in Consumers : item[j] = NoRecord
        BY <1>12, <2>1, Alone DEF DrainGet, Consumers
    <2>3. cpc[c] = "drain" /\ (UNCHANGED cpc \/ GoTo(c, "drainWrite"))
        BY <1>12 DEF DrainGet
    <2>4. Asking' = Asking
        BY <1>10, <2>3 DEF Asking, CallPhases, FlushPhases, StopPhases
    <2>. QED
        BY <1>12, <2>2, <2>4, TakesOldest DEF DrainGet, IsMarker, Consumers
<1>13. ASSUME NEW c \in Callers, DrainWrote(c) PROVE Step
    <2>1. item[c] # NoRecord
        BY <1>13 DEF DrainWrote, ItemsAt
    <2>2. \A j \in Consumers : item[j] # NoRecord => j = c
        BY <1>13, Alone DEF DrainWrote, Consumers
    <2>3. cpc[c] = "drainWrite" /\ (GoTo(c, "drain") \/ GoTo(c, "abort"))
        BY <1>13 DEF DrainWrote
    <2>4. Asking' = Asking
        BY <1>10, <2>3 DEF CallPhases, FlushPhases, StopPhases
    <2>. QED
        BY <1>13, <2>1, <2>2, <2>4, HandsOver DEF DrainWrote, Consumers
<1>14. ASSUME NEW c \in Callers,
              ResetWrapped(c) \/ BeginStop(c) \/ AwaitPutters(c) \/ Join(c) \/ DrainEmpty(c)
              \/ FinishStop(c) \/ AbortStop(c) \/ CloseWrapped(c)
       PROVE  Step
    <2>1. UNCHANGED <<queue, item, handed, due>>
        BY <1>14 DEF ResetWrapped, BeginStop, AwaitPutters, Join, DrainEmpty, FinishStop,
            AbortStop, CloseWrapped
    <2>2. /\ cpc[c] \notin FlushPhases
          /\ \E there \in CallPhases \ FlushPhases : GoTo(c, there)
        BY <1>14 DEF ResetWrapped, BeginStop, AwaitPutters, CaptureOrWait, Join, DrainEmpty,
            FinishStop, AbortStop, CloseWrapped, CallPhases, FlushPhases, StopPhases
    <2>. QED
        BY <1>10, <2>1, <2>2, Unnoticed
<1>15. CASE UNCHANGED vars
    BY <1>15, Unnoticed DEF vars, Asking
<1>. QED
    BY <1>1, <1>2, <1>3, <1>4, <1>5, <1>6, <1>7, <1>8, <1>9, <1>11, <1>12, <1>13, <1>14,
       <1>15
    DEF Next, HandleStep, WorkerStep, CallStep

\* Whatever threads, locks and the marker do, what is seen of the handler is
\* the relay: first in, first out, each record handed over once, and no caller
\* answered before what it waits for.
THEOREM QueueIsRelay == Spec => RelaySpec
<1>1. Init => Fresh
    BY DEF Init, Fresh, Known, Outstanding, Range
<1>2. Init => Relay!Init
    <2>. SUFFICES ASSUME Init PROVE Relay!Init
        OBVIOUS
    <2>1. Backlog = <<>>
        BY SelectedEmpty DEF Init, Backlog
    <2>2. Busy = {} /\ Asking = {}
        BY DEF Init, Busy, Asking, FlushPhases
    <2>. QED
        BY <2>1, <2>2 DEF Init, Relay!Init, Backlog, Busy, Asking
<1>3. Spec => []Fresh
    BY <1>1, Inductive, FreshStep, PTL DEF Spec, IInv
<1>. QED
    BY <1>2, <1>3, Inductive2, RelayStep, PTL DEF Spec, RelaySpec, Relay!Spec
=============================================================================
