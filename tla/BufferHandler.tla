--------------------------- MODULE BufferHandler ---------------------------
(***************************************************************************)
(* BufferHandler (handler/buffer_handler.py): records are held in the      *)
(* state of the unit they are logged in and handed to the wrapped handler  *)
(* as a batch: by flush(), close() and reset(), at the end of the unit,    *)
(* and when the buffer is full if flush_on_overflow is set.  A buffer is   *)
(* swapped out under _buffer_lock, in one step here, and forwarded outside *)
(* it, record by record; meanwhile other contexts, or the wrapped handler  *)
(* itself, may log, and overflow the buffer again.                         *)
(***************************************************************************)
EXTENDS LogUnit

CONSTANTS
    Records,            \* records, each logged at most once
    NoRecord

\* The options of the handler that a setup gives:
\*   limit: buffer_limit, 0 for no limit;  flush: flush_on_overflow;
\*   faulty: whether the wrapped handler may raise, echo: whether it may log,
\*   any record and at any point of handle_batch();
\*   records: bound, the records that are logged.

BufferAssumption ==
    /\ NoRecord \notin Records
    /\ \A s \in Setups :
           /\ s.limit \in Nat
           /\ s.flush \in BOOLEAN /\ s.faulty \in BOOLEAN /\ s.echo \in BOOLEAN
           /\ s.records \subseteq Records

VARIABLES
    buffer,     \* the buffer of each state
    rec,        \* rec[x]: the record context x passes to handle()
    pending,    \* pending[x]: what is left to send of the locals `overflow` and
                \* `pending`, of a call inside handle_batch() before those outside
    closing,    \* closing[x]: whether the call of x is close()
    forwarded,  \* history: what the wrapped handler was given, in order
    dropped,    \* history: pushed out by the limit, cleared, or left of a batch
                \* whose sending raised
    story       \* history: story[u], the records logged in u, in order

bufferVars == <<buffer, rec, pending, closing, forwarded, dropped, story>>
vars == <<unitVars, flowVars, bufferVars>>

Homes == Units \cup {NoUnit}
Logged == UNION {Range(story[u]) : u \in Homes}

Init ==
    /\ UnitInit
    /\ buffer = [s \in States |-> <<>>]
    /\ rec = [x \in Contexts |-> NoRecord]
    /\ pending = [x \in Contexts |-> <<>>]
    /\ closing = [x \in Contexts |-> FALSE]
    /\ forwarded = <<>> /\ dropped = {}
    /\ story = [u \in Homes |-> <<>>]

-----------------------------------------------------------------------------
(* handle() *)

\* The level is high enough: is_handling() is true.
BeginHandle(x, r) ==
    /\ pc[x] = "idle"
    /\ setup.sharing \/ current[x] # NoUnit
    /\ r \in setup.records \ Logged
    /\ story' = [story EXCEPT ![current[x]] = Append(@, r)]
    /\ rec' = [rec EXCEPT ![x] = r]
    /\ LookupThen(x, "add")
    /\ UNCHANGED <<unitVars, buffer, pending, closing, forwarded, dropped>>

\* A slip: full is one too late.
FullLate(s) == setup.limit > 0 /\ Len(buffer[s]) > setup.limit

Full(s) == setup.limit > 0 /\ Len(buffer[s]) = setup.limit

\* A slip: the record that did not fit goes with neither.
TakeWithoutIt(x, s, r) ==
    /\ pending' = [pending EXCEPT ![x] = buffer[s] \o @]
    /\ buffer' = [buffer EXCEPT ![s] = <<>>]
    /\ UNCHANGED dropped

TakeOverflow(x, s, r) ==
    /\ pending' = [pending EXCEPT ![x] = buffer[s] \o @]
    /\ buffer' = [buffer EXCEPT ![s] = <<r>>]
    /\ UNCHANGED dropped

\* A slip: the newest leaves.
PushNewestOut(s, r) ==
    /\ buffer' = [buffer EXCEPT ![s] = Append(Front(@), r)]
    /\ dropped' = dropped \cup {Last(buffer[s])}

PushOldestOut(s, r) ==
    /\ buffer' = [buffer EXCEPT ![s] = Append(Tail(@), r)]
    /\ dropped' = dropped \cup {Head(buffer[s])}

\* A slip: the newest record comes first.
HoldFirst(s, r) ==
    /\ buffer' = [buffer EXCEPT ![s] = <<r>> \o @]
    /\ UNCHANGED dropped

Hold(s, r) ==
    /\ buffer' = [buffer EXCEPT ![s] = Append(@, r)]
    /\ UNCHANGED dropped

\* Under the lock: a full buffer is taken whole, or its oldest record leaves.
Place(x, s, r) ==
    \/ Full(s) /\ setup.flush /\ TakeOverflow(x, s, r)
    \/ Full(s) /\ ~setup.flush /\ PushOldestOut(s, r) /\ UNCHANGED pending
    \/ ~Full(s) /\ Hold(s, r) /\ UNCHANGED pending

AddRecord(x) ==
    /\ pc[x] = "add"
    /\ Place(x, mine[x], rec[x])
    /\ IF Full(mine[x]) /\ setup.flush THEN GoTo(x, "forward") /\ UNCHANGED mine ELSE Return(x)
    /\ rec' = [rec EXCEPT ![x] = NoRecord]
    /\ UNCHANGED <<unitVars, todo, closing, forwarded, story>>

-----------------------------------------------------------------------------
(* flush(), reset(), close(), clear() and the end of a unit *)

\* reset() flushes, then resets what holds no record.
CallHandler(x) ==
    /\ pc[x] = "idle"
    /\ setup.sharing \/ current[x] # NoUnit
    /\ \/ LookupThen(x, "flush") /\ UNCHANGED closing
       \/ LookupThen(x, "flush") /\ closing' = [closing EXCEPT ![x] = TRUE]
       \/ LookupThen(x, "clear") /\ UNCHANGED closing
    /\ UNCHANGED <<unitVars, buffer, rec, pending, forwarded, dropped, story>>

\* The flush is over: close() goes on, end_unit() takes the next callback.
AfterFlush(x) ==
    IF closing[x] THEN GoTo(x, "closeWrapped") /\ UNCHANGED mine ELSE Return(x)

FlushState(x) ==
    /\ pc[x] = "flush"
    /\ pending' = [pending EXCEPT ![x] = buffer[mine[x]]]
    /\ buffer' = [buffer EXCEPT ![mine[x]] = <<>>]
    /\ IF buffer[mine[x]] = <<>>
       THEN AfterFlush(x)
       ELSE GoTo(x, "forward") /\ UNCHANGED mine
    /\ UNCHANGED <<unitVars, todo, rec, closing, forwarded, dropped, story>>

ClearState(x) ==
    /\ pc[x] = "clear"
    /\ dropped' = dropped \cup Range(buffer[mine[x]])
    /\ buffer' = [buffer EXCEPT ![mine[x]] = <<>>]
    /\ Return(x)
    /\ UNCHANGED <<unitVars, todo, rec, pending, closing, forwarded, story>>

\* The wrapped handler logs a record: a call of handle() inside handle_batch(),
\* up to the end of its hold on the lock.  What it takes from a full buffer is
\* sent before handle_batch() goes on with the rest.
EchoRecord(x, r) ==
    /\ pc[x] = "forward"
    /\ setup.echo
    /\ r \in setup.records \ Logged
    /\ LET u == current[x]
           s == IF u = NoUnit THEN Instance ELSE kept[u]
       IN  /\ u # NoUnit => s # Instance
           /\ Place(x, s, r)
           /\ story' = [story EXCEPT ![u] = Append(@, r)]
    /\ UNCHANGED <<unitVars, flowVars, rec, closing, forwarded>>

\* handle_batch() gives the next record to the wrapped handler.
Give(x) ==
    /\ pc[x] = "forward"
    /\ pending[x] # <<>>
    /\ forwarded' = Append(forwarded, Head(pending[x]))
    /\ pending' = [pending EXCEPT ![x] = Tail(@)]
    /\ UNCHANGED <<unitVars, flowVars, buffer, rec, closing, dropped, story>>

EndForward(x) ==
    /\ pc[x] = "forward"
    /\ pending[x] = <<>>
    /\ AfterFlush(x)
    /\ UNCHANGED <<unitVars, todo, bufferVars>>

EndClose(x) == closing' = [closing EXCEPT ![x] = FALSE]

\* What handle_batch() raises, on any record, leaves the calls it is inside of:
\* the rest of the batch goes with it.  end_unit() keeps it, and it leaves any
\* other call: a close() that fails here does not close the wrapped handler.
ForwardFails(x) ==
    /\ pc[x] = "forward"
    /\ setup.faulty
    /\ dropped' = dropped \cup Range(pending[x])
    /\ pending' = [pending EXCEPT ![x] = <<>>]
    /\ failed' = [failed EXCEPT ![x] = slot[x] > 0]
    /\ EndClose(x)
    /\ Return(x)
    /\ UNCHANGED <<setup, current, opened, kept, callbacks, slot, next, todo,
                   buffer, rec, forwarded, story>>

CloseWrapped(x) ==
    /\ pc[x] = "closeWrapped"
    /\ EndClose(x)
    /\ Return(x)
    /\ UNCHANGED <<unitVars, todo, buffer, rec, pending, forwarded, dropped, story>>

-----------------------------------------------------------------------------
HandlerStep(x) ==
    \/ AddRecord(x) \/ FlushState(x) \/ ClearState(x)
    \/ Give(x) \/ EndForward(x) \/ ForwardFails(x) \/ CloseWrapped(x)

Step(x) == HandlerStep(x) \/ (UnitStep(x) /\ UNCHANGED bufferVars)

Next ==
    \E x \in Contexts :
        \/ Step(x)
        \/ UnitCall(x) /\ UNCHANGED bufferVars
        \/ \E r \in Records : BeginHandle(x, r) \/ EchoRecord(x, r)
        \/ CallHandler(x)

Spec == Init /\ [][Next]_vars

-----------------------------------------------------------------------------
(* Properties *)

BufferPhases ==
    {"idle", "create", "register", "ending", "add", "flush", "clear", "forward", "closeWrapped"}

TypeOK ==
    /\ UnitTypeOK
    /\ pc \in [Contexts -> BufferPhases] /\ todo \in [Contexts -> BufferPhases]
    /\ buffer \in [States -> Seq(Records)]
    /\ \A s \in States : setup.limit > 0 => Len(buffer[s]) <= setup.limit
    /\ rec \in [Contexts -> Records \cup {NoRecord}]
    /\ pending \in [Contexts -> Seq(Records)] /\ closing \in [Contexts -> BOOLEAN]
    /\ forwarded \in Seq(Records) /\ dropped \subseteq Records
    /\ story \in [Homes -> Seq(Records)]

\* Where a record may be.
Places(r) ==
    {<<"hand", x>> : x \in {y \in Contexts : rec[y] = r}}
    \cup {<<"buffer", s>> : s \in {s \in States : r \in Range(buffer[s])}}
    \cup {<<"batch", x>> : x \in {y \in Contexts : r \in Range(pending[y])}}
    \cup {<<"out", i>> : i \in {i \in DOMAIN forwarded : forwarded[i] = r}}
    \cup {<<"dropped", r>> : d \in {r} \cap dropped}

\* A record buffered while a batch is forwarded is neither lost nor sent twice:
\* what was logged is in exactly one place.
Conserved == \A r \in Logged : Cardinality(Places(r)) = 1

\* A buffer that is dropped from loses its oldest: what a unit has dropped was
\* logged before what the same unit still holds.
OldestGoFirst ==
    ~setup.sharing =>
        \A s \in UnitStates : \A i, j \in DOMAIN story[s[1]] :
            LET before == story[s[1]][i]
                after  == story[s[1]][j]
            IN  before \in Range(buffer[s]) /\ after \in dropped => j < i

\* Batches keep the order within a unit, unless the wrapped handler logs, and
\* what that overflows is sent in the middle of a batch.
InOrder ==
    ~setup.sharing /\ ~(setup.echo /\ setup.flush) =>
        \A u \in Homes : \A k, l \in DOMAIN story[u] : \A i, j \in DOMAIN forwarded :
            (story[u][k] = forwarded[i] /\ story[u][l] = forwarded[j]) => (k < l <=> i < j)

\* A unit no context is in any more has nothing left buffered, even if the
\* batch of one callback failed.
EndedIsFlushed ==
    ~setup.sharing /\ ~setup.echo =>
        \A s \in UnitStates : buffer[s] # <<>> => \E x \in Contexts : current[x] = s[1]
=============================================================================
