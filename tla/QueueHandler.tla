---------------------------- MODULE QueueHandler ----------------------------
(***************************************************************************)
(* QueueHandler (handler/queue_handler.py): threads enqueue records, one   *)
(* worker thread hands them to the wrapped handler, and flush(), reset()   *)
(* and close() wait for the backlog, stop the worker and drain what it     *)
(* left.  One action per step a thread takes between two points where      *)
(* another thread may come in: acquiring a lock or the condition, a queue  *)
(* operation, a join, a call of the wrapped handler.                       *)
(*                                                                         *)
(* queue.Queue and threading.Condition are outside the repository: a       *)
(* queue operation is one step, a thread in Condition.wait() is in         *)
(* `asleep` until notify_all() empties it, and the timed wait of flush()   *)
(* is the loop going round again.                                          *)
(***************************************************************************)
EXTENDS Integers, Sequences, SequencesExt, FiniteSets, Selection

CONSTANTS
    Loggers,    \* threads that log records
    Callers,    \* threads that call flush(), reset() and close()
    Workers,    \* identities for the worker threads, reused once dead
    Records,    \* records; each is logged at most once
    Echo,       \* Echo[r]: what the wrapped handler may log while handling r
    Fatal,      \* records on which it may raise what is not an Exception
    MaxSize,    \* the bound of the queue, 0 for none
    MaxCalls,   \* bound: how many calls each caller makes
    Stop,       \* the stop marker
    NoThread, NoRecord

Consumers == Workers \cup Callers      \* who may call the wrapped handler
Threads   == Loggers \cup Consumers

ASSUME QueueAssumption ==
    /\ Loggers \cap Consumers = {}
    /\ Workers \cap Callers = {}
    /\ NoThread \notin Threads
    /\ NoRecord \notin Records
    /\ Stop \notin Records
    /\ Stop # NoRecord
    /\ Echo \in [Records -> SUBSET Records]
    /\ Fatal \subseteq Records
    /\ MaxSize \in Nat
    /\ MaxCalls \in Nat

ASSUME FiniteThreads == IsFiniteSet(Threads)

VARIABLES
    queue,      \* _queue
    unfinished, \* _queue.unfinished_tasks
    worker,     \* _worker
    closing,    \* _closing
    putting,    \* _putting
    closeLock,  \* who holds _close_lock
    asleep,     \* threads inside _state.wait()
    call,       \* call[t]: where t is in handle()
    rec,        \* rec[t]: the record t passes to handle()
    wpc,        \* wpc[w]: where worker w is in _work()
    cpc,        \* cpc[c]: where c is in flush(), reset() or close()
    op,         \* op[c]: which of the three c is in
    target,     \* target[c]: the local `worker` of _stop_worker()
    item,       \* item[k]: the record consumer k is handing over
    calls,      \* calls[c]: how many calls c has made
    logged,     \* history: records passed to handle() so far
    handed,     \* history: records in the order their handling ended
    due         \* history: what was outstanding when c called

queueVars  == <<queue, unfinished>>
stateVars  == <<worker, closing, putting, asleep>>
handleVars == <<call, rec, logged>>
callVars   == <<closeLock, cpc, op, target, calls, due>>
writeVars  == <<item, handed>>
vars == <<queueVars, stateVars, handleVars, callVars, writeVars, wpc>>

Entries == Records \cup {Stop}
Ops     == {"flush", "reset", "close"}

\* The program counters while a record is being handled, and while close()
\* is between setting _closing and clearing it.
Writing(k) ==
    \/ k \in Workers /\ wpc[k] = "write"
    \/ k \in Callers /\ cpc[k] = "drainWrite"
StopPhases == {"await", "putStop", "join", "drain", "drainWrite", "finish", "abort"}
FlushPhases == {"lock", "ensure", "check"}
CallPhases  ==
    StopPhases \cup FlushPhases \cup {"idle", "resetWrapped", "stop", "closeWrapped"}
WorkPhases  == {"off", "get", "write", "exit"}
HandlePhases == {"none", "enter", "put", "leave"}

Outstanding == (Range(queue) \cup {item[k] : k \in Consumers}) \ {Stop, NoRecord}

Init ==
    /\ queue = <<>> /\ unfinished = 0
    /\ worker = NoThread /\ closing = FALSE /\ putting = 0
    /\ closeLock = NoThread /\ asleep = {}
    /\ call = [t \in Threads |-> "none"] /\ rec = [t \in Threads |-> NoRecord]
    /\ wpc = [w \in Workers |-> "off"]
    /\ cpc = [c \in Callers |-> "idle"] /\ op = [c \in Callers |-> "flush"]
    /\ target = [c \in Callers |-> NoThread]
    /\ item = [k \in Consumers |-> NoRecord]
    /\ calls = [c \in Callers |-> 0]
    /\ logged = {} /\ handed = <<>> /\ due = [c \in Callers |-> {}]

-----------------------------------------------------------------------------
(* What the steps share. *)

Full == MaxSize > 0 /\ Len(queue) >= MaxSize

Put(e) ==
    /\ ~Full
    /\ queue' = Append(queue, e)
    /\ unfinished' = unfinished + 1

\* A slip: nobody is woken.
NotifyNobody == UNCHANGED asleep

NotifyAll == asleep' = {}

\* A slip: the closing flag is not looked at.
StartEvenClosing ==
    IF worker # NoThread /\ wpc[worker] # "off"
    THEN UNCHANGED <<worker, wpc>>
    ELSE \E w \in Workers :
            /\ wpc[w] = "off"
            /\ worker' = w
            /\ wpc' = [wpc EXCEPT ![w] = "get"]

\* _start_worker: the caller holds _state.
StartWorker ==
    IF closing \/ (worker # NoThread /\ wpc[worker] # "off")
    THEN UNCHANGED <<worker, wpc>>
    ELSE \E w \in Workers :
            /\ wpc[w] = "off"
            /\ worker' = w
            /\ wpc' = [wpc EXCEPT ![w] = "get"]

\* Slips: the marker is taken for a record; it is never marked done.
NeverMarker(e) == FALSE
MarkerNotDone == UNCHANGED unfinished

IsMarker(e) == e = Stop
MarkerDone  == unfinished' = unfinished - 1

\* The wrapped handler returned, or raised: _write() is over and
\* task_done() is called.
Handed(k) ==
    /\ item' = [item EXCEPT ![k] = NoRecord]
    /\ handed' = Append(handed, item[k])
    /\ unfinished' = unfinished - 1

-----------------------------------------------------------------------------
(* handle() *)

\* A logger logs a record, or the wrapped handler logs one while it handles
\* another, on the thread that called it.
BeginHandle(t, r) ==
    /\ call[t] = "none"
    /\ r \notin logged
    /\ t \in Loggers \/ (Writing(t) /\ r \in Echo[item[t]])
    /\ call' = [call EXCEPT ![t] = "enter"]
    /\ rec' = [rec EXCEPT ![t] = r]
    /\ logged' = logged \cup {r}
    /\ UNCHANGED <<queueVars, stateVars, callVars, writeVars, wpc>>

MustWait(t) == closing /\ t # worker

EnterHandle(t) ==
    /\ call[t] = "enter"
    /\ t \notin asleep
    /\ IF MustWait(t)
       THEN /\ asleep' = asleep \cup {t}
            /\ UNCHANGED <<worker, putting, call, wpc>>
       ELSE /\ StartWorker
            /\ putting' = putting + 1
            /\ call' = [call EXCEPT ![t] = "put"]
            /\ UNCHANGED asleep
    /\ UNCHANGED <<queueVars, closing, rec, logged, callVars, writeVars>>

PutRecord(t) ==
    /\ call[t] = "put"
    /\ Put(rec[t])
    /\ call' = [call EXCEPT ![t] = "leave"]
    /\ UNCHANGED <<stateVars, rec, logged, callVars, writeVars, wpc>>

LeaveHandle(t) ==
    /\ call[t] = "leave"
    /\ putting' = putting - 1
    /\ NotifyAll
    /\ call' = [call EXCEPT ![t] = "none"]
    /\ rec' = [rec EXCEPT ![t] = NoRecord]
    /\ UNCHANGED <<queueVars, worker, closing, logged, callVars, writeVars, wpc>>

-----------------------------------------------------------------------------
(* _work(): the worker thread *)

WorkerGet(w) ==
    /\ wpc[w] = "get"
    /\ queue # <<>>
    /\ queue' = Tail(queue)
    /\ IF IsMarker(Head(queue))
       THEN /\ MarkerDone
            /\ wpc' = [wpc EXCEPT ![w] = "exit"]
            /\ UNCHANGED item
       ELSE /\ item' = [item EXCEPT ![w] = Head(queue)]
            /\ wpc' = [wpc EXCEPT ![w] = "write"]
            /\ UNCHANGED unfinished
    /\ UNCHANGED <<stateVars, handleVars, callVars, handed>>

\* What was raised is passed to on_error if it is an Exception; anything else
\* leaves _work() and ends the thread.
WorkerWrote(w) ==
    /\ wpc[w] = "write"
    /\ call[w] = "none"
    /\ Handed(w)
    /\ \/ wpc' = [wpc EXCEPT ![w] = "get"]
       \/ item[w] \in Fatal /\ wpc' = [wpc EXCEPT ![w] = "exit"]
    /\ UNCHANGED <<queue, stateVars, handleVars, callVars>>

\* The thread is alive until it has left its run() for good.
WorkerExit(w) ==
    /\ wpc[w] = "exit"
    /\ wpc' = [wpc EXCEPT ![w] = "off"]
    /\ UNCHANGED <<queueVars, stateVars, handleVars, callVars, writeVars>>

-----------------------------------------------------------------------------
(* flush(), reset() and close() *)

GoTo(c, there) == cpc' = [cpc EXCEPT ![c] = there]

Begin(c, o) ==
    /\ cpc[c] = "idle"
    /\ calls[c] < MaxCalls
    /\ calls' = [calls EXCEPT ![c] = @ + 1]
    /\ op' = [op EXCEPT ![c] = o]
    /\ due' = [due EXCEPT ![c] = Outstanding]
    /\ GoTo(c, IF o = "close" THEN "lock" ELSE "ensure")
    /\ UNCHANGED <<queueVars, stateVars, handleVars, closeLock, target, writeVars, wpc>>

AcquireClose(c) ==
    /\ cpc[c] = "lock"
    /\ closeLock = NoThread
    /\ closeLock' = c
    /\ GoTo(c, "ensure")
    /\ UNCHANGED <<queueVars, stateVars, handleVars, op, target, calls, due, writeVars, wpc>>

\* A slip: flush() waits on a worker that may be dead.
NoRestart(c) ==
    /\ cpc[c] = "ensure"
    /\ GoTo(c, "check")
    /\ UNCHANGED <<queueVars, stateVars, handleVars,
                   closeLock, op, target, calls, due, writeVars, wpc>>

\* One round of flush(): a dead worker is replaced, then the count is read.
FlushEnsure(c) ==
    /\ cpc[c] = "ensure"
    /\ StartWorker
    /\ GoTo(c, "check")
    /\ UNCHANGED <<queueVars, closing, putting, asleep, handleVars,
                   closeLock, op, target, calls, due, writeVars>>

AfterFlush == [flush |-> "idle", reset |-> "resetWrapped", close |-> "stop"]

\* Slips: an empty queue, or a dead worker, is taken for a clear backlog.
QueueIsEmpty   == queue = <<>>
NoWorkerAlive  == unfinished = 0 \/ \A w \in Workers : wpc[w] = "off"

BacklogIsClear == unfinished = 0

FlushCheck(c) ==
    /\ cpc[c] = "check"
    /\ GoTo(c, IF BacklogIsClear THEN AfterFlush[op[c]] ELSE "ensure")
    /\ UNCHANGED <<queueVars, stateVars, handleVars,
                   closeLock, op, target, calls, due, writeVars, wpc>>

ResetWrapped(c) ==
    /\ cpc[c] = "resetWrapped"
    /\ GoTo(c, "idle")
    /\ UNCHANGED <<queueVars, stateVars, handleVars,
                   closeLock, op, target, calls, due, writeVars, wpc>>

-----------------------------------------------------------------------------
(* _stop_worker() and _drain(), on the thread that calls close() *)

\* A slip: the puts in progress are not waited for.
CaptureAtOnce(c) ==
    /\ target' = [target EXCEPT ![c] = worker]
    /\ GoTo(c, IF worker = NoThread THEN "drain" ELSE "putStop")
    /\ UNCHANGED asleep

\* Under _state: wait for the puts in progress, then note the worker to stop.
CaptureOrWait(c) ==
    IF putting = 0
    THEN /\ target' = [target EXCEPT ![c] = worker]
         /\ GoTo(c, IF worker = NoThread THEN "drain" ELSE "putStop")
         /\ UNCHANGED asleep
    ELSE /\ asleep' = asleep \cup {c}
         /\ GoTo(c, "await")
         /\ UNCHANGED target

BeginStop(c) ==
    /\ cpc[c] = "stop"
    /\ closing' = TRUE
    /\ CaptureOrWait(c)
    /\ UNCHANGED <<queueVars, worker, putting, handleVars,
                   closeLock, op, calls, due, writeVars, wpc>>

AwaitPutters(c) ==
    /\ cpc[c] = "await"
    /\ c \notin asleep
    /\ CaptureOrWait(c)
    /\ UNCHANGED <<queueVars, worker, closing, putting, handleVars,
                   closeLock, op, calls, due, writeVars, wpc>>

PutStop(c) ==
    /\ cpc[c] = "putStop"
    /\ Put(Stop)
    /\ GoTo(c, "join")
    /\ UNCHANGED <<stateVars, handleVars, closeLock, op, target, calls, due, writeVars, wpc>>

\* A slip: what the worker left on the queue is forgotten.
JoinWithoutDrain(c) ==
    /\ cpc[c] = "join"
    /\ wpc[target[c]] = "off"
    /\ GoTo(c, "finish")
    /\ UNCHANGED <<queueVars, stateVars, handleVars,
                   closeLock, op, target, calls, due, writeVars, wpc>>

Join(c) ==
    /\ cpc[c] = "join"
    /\ wpc[target[c]] = "off"
    /\ GoTo(c, "drain")
    /\ UNCHANGED <<queueVars, stateVars, handleVars,
                   closeLock, op, target, calls, due, writeVars, wpc>>

DrainGet(c) ==
    /\ cpc[c] = "drain"
    /\ queue # <<>>
    /\ queue' = Tail(queue)
    /\ IF IsMarker(Head(queue))
       THEN /\ MarkerDone
            /\ UNCHANGED <<cpc, item>>
       ELSE /\ item' = [item EXCEPT ![c] = Head(queue)]
            /\ GoTo(c, "drainWrite")
            /\ UNCHANGED unfinished
    /\ UNCHANGED <<stateVars, handleVars, closeLock, op, target, calls, due, handed, wpc>>

DrainWrote(c) ==
    /\ cpc[c] = "drainWrite"
    /\ call[c] = "none"
    /\ Handed(c)
    /\ \/ GoTo(c, "drain")
       \/ item[c] \in Fatal /\ GoTo(c, "abort")
    /\ UNCHANGED <<queue, stateVars, handleVars, closeLock, op, target, calls, due, wpc>>

DrainEmpty(c) ==
    /\ cpc[c] = "drain"
    /\ queue = <<>>
    /\ GoTo(c, "finish")
    /\ UNCHANGED <<queueVars, stateVars, handleVars,
                   closeLock, op, target, calls, due, writeVars, wpc>>

\* The finally clause: handle() may go on and a worker may start again.
Reopen ==
    /\ worker' = NoThread
    /\ closing' = FALSE
    /\ NotifyAll
    /\ UNCHANGED putting

FinishStop(c) ==
    /\ cpc[c] = "finish"
    /\ Reopen
    /\ GoTo(c, "closeWrapped")
    /\ UNCHANGED <<queueVars, handleVars, closeLock, op, target, calls, due, writeVars, wpc>>

\* A slip: the clause is skipped when an exception passes.
AbortWithoutReopen(c) ==
    /\ cpc[c] = "abort"
    /\ closeLock' = NoThread
    /\ GoTo(c, "idle")
    /\ UNCHANGED <<queueVars, stateVars, handleVars, op, target, calls, due, writeVars, wpc>>

\* The same clause with an exception passing: it leaves close() too, and the
\* wrapped handler is not closed.
AbortStop(c) ==
    /\ cpc[c] = "abort"
    /\ Reopen
    /\ closeLock' = NoThread
    /\ GoTo(c, "idle")
    /\ UNCHANGED <<queueVars, handleVars, op, target, calls, due, writeVars, wpc>>

CloseWrapped(c) ==
    /\ cpc[c] = "closeWrapped"
    /\ closeLock' = NoThread
    /\ GoTo(c, "idle")
    /\ UNCHANGED <<queueVars, stateVars, handleVars, op, target, calls, due, writeVars, wpc>>

-----------------------------------------------------------------------------
HandleStep(t) == EnterHandle(t) \/ PutRecord(t) \/ LeaveHandle(t)

WorkerStep(w) == WorkerGet(w) \/ WorkerWrote(w) \/ WorkerExit(w)

CallStep(c) ==
    \/ AcquireClose(c) \/ FlushEnsure(c) \/ FlushCheck(c) \/ ResetWrapped(c)
    \/ BeginStop(c) \/ AwaitPutters(c) \/ PutStop(c) \/ Join(c)
    \/ DrainGet(c) \/ DrainWrote(c) \/ DrainEmpty(c)
    \/ FinishStop(c) \/ AbortStop(c) \/ CloseWrapped(c)

Next ==
    \/ \E t \in Threads : HandleStep(t) \/ \E r \in Records : BeginHandle(t, r)
    \/ \E w \in Workers : WorkerStep(w)
    \/ \E c \in Callers : CallStep(c) \/ \E o \in Ops : Begin(c, o)

Spec == Init /\ [][Next]_vars

\* Threads that are able to go on are scheduled; nobody has to start a call.
Fairness ==
    /\ \A t \in Threads : WF_vars(HandleStep(t))
    /\ \A w \in Workers : WF_vars(WorkerStep(w))
    /\ \A c \in Callers : WF_vars(CallStep(c))

FairSpec == Spec /\ Fairness

-----------------------------------------------------------------------------
(* Properties *)

TypeOK ==
    /\ queue \in Seq(Entries) /\ unfinished \in Int
    /\ worker \in Workers \cup {NoThread} /\ closing \in BOOLEAN /\ putting \in Int
    /\ closeLock \in Callers \cup {NoThread} /\ asleep \subseteq Threads
    /\ call \in [Threads -> HandlePhases]
    /\ rec \in [Threads -> Records \cup {NoRecord}]
    /\ wpc \in [Workers -> WorkPhases]
    /\ cpc \in [Callers -> CallPhases]
    /\ op \in [Callers -> Ops]
    /\ target \in [Callers -> Workers \cup {NoThread}]
    /\ item \in [Consumers -> Records \cup {NoRecord}]
    /\ calls \in [Callers -> 0..MaxCalls]
    /\ logged \subseteq Records /\ handed \in Seq(Records)
    /\ due \in [Callers -> SUBSET Records]

\* The wrapped handler is called by one thread at a time, whichever of the
\* worker and the closing thread it is: handlers are written for one caller.
SingleConsumer ==
    \A j, k \in Consumers :
        item[j] # NoRecord /\ item[k] # NoRecord => j = k

\* unfinished_tasks counts exactly the queue and what is being handed over, so
\* a flush that reads 0 has nothing left to wait for and one that does not has.
UnfinishedExact ==
    unfinished = Len(queue) + Cardinality({k \in Consumers : item[k] # NoRecord})

\* flush(): once the count was read as 0, all that was queued or in flight
\* when the call was made has been handled, worker deaths and concurrent
\* closes notwithstanding.
BarrierHolds ==
    \A c \in Callers :
        cpc[c] \notin FlushPhases => due[c] \subseteq Range(handed)

\* _stop_worker(): when close() clears _closing, the worker has ended, nobody
\* is between counting itself in and its put, and nothing is left on the queue.
StopIsClean ==
    \A c \in Callers :
        cpc[c] = "finish" =>
            /\ closing /\ queue = <<>> /\ unfinished = 0 /\ putting = 0
            /\ \A w \in Workers : wpc[w] = "off"

\* The class's "never stranded on a queue nothing drains": until a worker may
\* have died, a record on the queue has a live worker or a draining close().
NeverStranded ==
    (Range(handed) \cap Fatal = {} /\ Outstanding # {}) =>
        closing \/ \E w \in Workers : wpc[w] \in {"get", "write"}

\* No wakeup is lost: a closing thread sleeps only while a put is in progress,
\* and any other sleeper only while a close runs.
NoLostWakeup ==
    \A t \in asleep :
        IF t \in Callers /\ cpc[t] = "await" THEN putting > 0 ELSE closing

\* The queue behaves as the relay: first in, first out, each record handed
\* over once, every flush answered after what it has to wait for.
Relay == INSTANCE RecordRelay WITH
    backlog <- Selected(queue, Records),
    busy    <- {item[k] : k \in Consumers} \ {NoRecord},
    handed  <- handed,
    asking  <- {c \in Callers : cpc[c] \in FlushPhases},
    due     <- due

RelaySpec == Relay!Spec
RelayFairSpec == Relay!FairSpec

\* Every flush(), reset() and close() returns.
CallsReturn == \A c \in Callers : cpc[c] # "idle" ~> cpc[c] = "idle"

\* Logging never blocks for good, even if it has to wait for a close.
LogsReturn == \A t \in Threads : call[t] # "none" ~> call[t] = "none"

\* Nobody who logs, flushes, resets or closes is left waiting.
EveryoneReturns == CallsReturn /\ LogsReturn
=============================================================================
