----------------------- MODULE FingersCrossedHandler -----------------------
(***************************************************************************)
(* FingersCrossedHandler (handler/fingers_crossed_handler.py): every       *)
(* record is buffered in the state of the unit it is logged in, until one  *)
(* activates the handler and the whole buffer is handed to the wrapped     *)
(* handler.  The buffer is changed under _buffer_lock, each time in one    *)
(* step here; the flag `buffering` is read, the strategy is asked and the  *)
(* wrapped handler is called outside the lock.                             *)
(***************************************************************************)
EXTENDS LogUnit, Selection

CONSTANTS
    Records,        \* records, each logged at most once
    Activating,     \* those on which the activation strategy fires
    Floor,          \* those at passthru_level or above; none when it is None
    NoRecord

\* The options of the handler that a setup gives:
\*   limit: buffer_size, 0 for no limit;  stop: stop_buffering;
\*   faulty: whether the wrapped handler may raise;
\*   records: bound, the records that are logged.

ASSUME CrossedAssumption ==
    /\ NoRecord \notin Records
    /\ Activating \subseteq Records /\ Floor \subseteq Records
    /\ \A s \in Setups :
           /\ s.limit \in Nat /\ s.stop \in BOOLEAN /\ s.faulty \in BOOLEAN
           /\ s.records \subseteq Records

VARIABLES
    buffer, buffering,  \* the two fields of each state
    rec,        \* rec[x]: the record context x passes to handle()
    pending,    \* pending[x]: the local of activate() and _flush_state()
    forwarded,  \* history: what the wrapped handler was given, in order
    dropped,    \* history: evicted by the limit, below the floor, or cleared
    story,      \* history: story[u], the records logged in u, in order
    activated   \* history: the units, or NoUnit, the handler was activated in

crossedVars == <<buffer, buffering, rec, pending, forwarded, dropped, story, activated>>
vars == <<unitVars, flowVars, crossedVars>>

Homes == Units \cup {NoUnit}
Logged == UNION {Range(story[u]) : u \in Homes}

Init ==
    /\ UnitInit
    /\ buffer = [s \in States |-> <<>>]
    /\ buffering = [s \in States |-> TRUE]
    /\ rec = [x \in Contexts |-> NoRecord]
    /\ pending = [x \in Contexts |-> <<>>]
    /\ forwarded = <<>> /\ dropped = {}
    /\ story = [u \in Homes |-> <<>>]
    /\ activated = {}

-----------------------------------------------------------------------------
(* handle() *)

BeginHandle(x, r) ==
    /\ pc[x] = "idle"
    /\ setup.sharing \/ current[x] # NoUnit
    /\ r \in setup.records \ Logged
    /\ story' = [story EXCEPT ![current[x]] = Append(@, r)]
    /\ rec' = [rec EXCEPT ![x] = r]
    /\ LookupThen(x, "read")
    /\ UNCHANGED <<unitVars, buffer, buffering, pending, forwarded, dropped, activated>>

\* A slip: a released state goes on buffering.
AlwaysAppend(x) ==
    /\ pc[x] = "read"
    /\ GoTo(x, "append")
    /\ UNCHANGED <<unitVars, todo, mine, crossedVars>>

\* `if state.buffering`, read outside the lock.
ReadBuffering(x) ==
    /\ pc[x] = "read"
    /\ GoTo(x, IF buffering[mine[x]] THEN "append" ELSE "pass")
    /\ UNCHANGED <<unitVars, todo, mine, crossedVars>>

\* A slip: full is one too late.
OverflowingLate(s) == setup.limit > 0 /\ Len(buffer[s]) > setup.limit

Overflowing(s) == setup.limit > 0 /\ Len(buffer[s]) = setup.limit

\* A slip: the record goes to the wrong end.
AddedFirst(s, r) == <<r>> \o buffer[s]

Added(s, r) == Append(buffer[s], r)

\* Under the lock: the record joins the buffer and the oldest may leave it.
AppendRecord(x) ==
    /\ pc[x] = "append"
    /\ LET s == mine[x]
           all == Added(s, rec[x])
       IN  IF Overflowing(s)
           THEN /\ buffer' = [buffer EXCEPT ![s] = Tail(all)]
                /\ dropped' = dropped \cup {Head(all)}
           ELSE /\ buffer' = [buffer EXCEPT ![s] = all]
                /\ UNCHANGED dropped
    /\ GoTo(x, "decide")
    /\ UNCHANGED <<unitVars, todo, mine, buffering, rec, pending, forwarded, story, activated>>

\* activate() looks the state up anew, then empties it.
Activate(x) ==
    /\ LookupThen(x, "swap")
    /\ activated' = activated \cup {current[x]}

Decide(x) ==
    /\ pc[x] = "decide"
    /\ IF rec[x] \in Activating
       THEN Activate(x)
       ELSE Return(x) /\ UNCHANGED <<todo, activated>>
    /\ rec' = [rec EXCEPT ![x] = NoRecord]
    /\ UNCHANGED <<unitVars, buffer, buffering, pending, forwarded, dropped, story>>

PassThrough(x) ==
    /\ pc[x] = "pass"
    /\ forwarded' = Append(forwarded, rec[x])
    /\ rec' = [rec EXCEPT ![x] = NoRecord]
    /\ Return(x)
    /\ UNCHANGED <<unitVars, todo, buffer, buffering, pending, dropped, story, activated>>

-----------------------------------------------------------------------------
(* activate(), close(), reset(), clear() and the end of a unit *)

\* Calls from outside: close() and reset() flush the state.
CallHandler(x) ==
    /\ pc[x] = "idle"
    /\ setup.sharing \/ current[x] # NoUnit
    /\ \/ Activate(x)
       \/ LookupThen(x, "flush") /\ UNCHANGED activated
       \/ LookupThen(x, "clear") /\ UNCHANGED activated
    /\ UNCHANGED <<unitVars, buffer, buffering, rec, pending, forwarded, dropped, story>>

\* A slip: the buffer is handed over and kept.
EmptyNothing(s) == UNCHANGED buffer

Empty(s) == buffer' = [buffer EXCEPT ![s] = <<>>]

SwapBuffer(x) ==
    /\ pc[x] = "swap"
    /\ pending' = [pending EXCEPT ![x] = buffer[mine[x]]]
    /\ Empty(mine[x])
    /\ buffering' = [buffering EXCEPT ![mine[x]] = @ /\ ~setup.stop]
    /\ GoTo(x, "forward")
    /\ UNCHANGED <<unitVars, todo, mine, rec, forwarded, dropped, story, activated>>

Spared(s) == Selected(buffer[s], Floor)

\* _flush_state: only the floor is kept, and forwarded if there is any.
FlushState(x) ==
    /\ pc[x] = "flush"
    /\ LET spared == Spared(mine[x])
       IN  /\ pending' = [pending EXCEPT ![x] = spared]
           /\ IF spared = <<>>
              THEN Return(x)
              ELSE GoTo(x, "forward") /\ UNCHANGED mine
    /\ dropped' = dropped \cup (Range(buffer[mine[x]]) \ Floor)
    /\ Empty(mine[x])
    /\ buffering' = [buffering EXCEPT ![mine[x]] = TRUE]
    /\ UNCHANGED <<unitVars, todo, rec, forwarded, story, activated>>

ClearState(x) ==
    /\ pc[x] = "clear"
    /\ dropped' = dropped \cup Range(buffer[mine[x]])
    /\ Empty(mine[x])
    /\ buffering' = [buffering EXCEPT ![mine[x]] = TRUE]
    /\ Return(x)
    /\ UNCHANGED <<unitVars, todo, rec, pending, forwarded, story, activated>>

\* The wrapped handler is given the batch, outside the lock; what it raises
\* is kept by end_unit(), and leaves any other call.
Forward(x) ==
    /\ pc[x] = "forward"
    /\ forwarded' = forwarded \o pending[x]
    /\ pending' = [pending EXCEPT ![x] = <<>>]
    /\ \/ UNCHANGED failed
       \/ setup.faulty /\ slot[x] > 0 /\ failed' = [failed EXCEPT ![x] = TRUE]
    /\ Return(x)
    /\ UNCHANGED <<setup, current, opened, kept, callbacks, slot, next, todo,
                   buffer, buffering, rec, dropped, story, activated>>

-----------------------------------------------------------------------------
HandlerStep(x) ==
    \/ ReadBuffering(x) \/ AppendRecord(x) \/ Decide(x) \/ PassThrough(x)
    \/ SwapBuffer(x) \/ FlushState(x) \/ ClearState(x) \/ Forward(x)

Step(x) == HandlerStep(x) \/ (UnitStep(x) /\ UNCHANGED crossedVars)

Next ==
    \E x \in Contexts :
        \/ Step(x)
        \/ UnitCall(x) /\ UNCHANGED crossedVars
        \/ \E r \in Records : BeginHandle(x, r)
        \/ CallHandler(x)

Spec == Init /\ [][Next]_vars

-----------------------------------------------------------------------------
(* Properties *)

CrossedPhases ==
    {"idle", "create", "register", "ending", "read", "append", "decide", "pass",
     "swap", "flush", "clear", "forward"}

TypeOK ==
    /\ UnitTypeOK
    /\ pc \in [Contexts -> CrossedPhases] /\ todo \in [Contexts -> CrossedPhases]
    /\ buffer \in [States -> Seq(Records)] /\ buffering \in [States -> BOOLEAN]
    /\ \A s \in States : setup.limit > 0 => Len(buffer[s]) <= setup.limit
    /\ rec \in [Contexts -> Records \cup {NoRecord}]
    /\ pending \in [Contexts -> Seq(Records)]
    /\ forwarded \in Seq(Records) /\ dropped \subseteq Records
    /\ story \in [Homes -> Seq(Records)]
    /\ activated \subseteq Homes

\* Where a record may be.
Places(r) ==
    {<<"hand", x>> : x \in {y \in Contexts : rec[y] = r /\ pc[y] # "decide"}}
    \cup {<<"buffer", s>> : s \in {s \in States : r \in Range(buffer[s])}}
    \cup {<<"batch", x>> : x \in {y \in Contexts : r \in Range(pending[y])}}
    \cup {<<"out", i>> : i \in {i \in DOMAIN forwarded : forwarded[i] = r}}
    \cup {<<"dropped", r>> : d \in {r} \cap dropped}

\* No record vanishes without a rule that says so, and none is written twice:
\* what was logged is in exactly one place.
Conserved == \A r \in Logged : Cardinality(Places(r)) = 1

\* A record below the floor is written only if its own unit was activated: no
\* unit's trouble releases what another one buffered.
SilentUnlessActivated ==
    \A u \in Homes : \A r \in Range(story[u]) \ Floor :
        r \in Range(forwarded) => u \in activated

\* handle() of an activating record does not return before it is written.
AlarmsArrive ==
    ~setup.sharing =>
        \A u \in Homes : \A r \in Activating \cap Range(story[u]) :
            \/ r \in Range(forwarded)
            \/ \E x \in Contexts : pc[x] # "idle" /\ current[x] = u

\* A state that passes records straight through holds none back: what was
\* buffered before the release went with it.
Released == \A s \in States : ~buffering[s] => buffer[s] = <<>>

\* The same where each unit is used by one context.
ReleasedIsEmpty == ~setup.sharing => Released

\* end_unit(): a unit that its one context has left has nothing left buffered.
EndedIsFlushed ==
    ~setup.sharing =>
        \A s \in UnitStates : buffer[s] # <<>> => \E x \in Contexts : current[x] = s[1]

\* The story of a unit is told in the order it happened.
InOrder ==
    ~setup.sharing =>
        \A u \in Homes : \A k, l \in DOMAIN story[u] : \A i, j \in DOMAIN forwarded :
            (story[u][k] = forwarded[i] /\ story[u][l] = forwarded[j]) => (k < l <=> i < j)
=============================================================================
