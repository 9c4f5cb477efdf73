------------------------------ MODULE LogUnit ------------------------------
(***************************************************************************)
(* Units of work (log_unit.py) and the state one handler keeps in them.    *)
(* Each thread or task runs in a context of its own; a context holds a     *)
(* reference to the unit object, so contexts copied from one another share *)
(* the unit, its states and its end callbacks.                             *)
(*                                                                         *)
(* unit_state() looks the state up, creates it and registers its callback  *)
(* in three steps with no lock, so two contexts that share a unit may both *)
(* create one: a state is named by its unit and by the context that made   *)
(* it.  The handlers that keep their state this way extend the module:     *)
(* after LookupThen or RegisterState a context goes on with the state in   *)
(* mine[x], and end_unit() sends it to the phase "flush" of the handler,   *)
(* once for each callback.  A local out of scope has its initial value.    *)
(***************************************************************************)
EXTENDS Naturals, Sequences, SequencesExt, FiniteSets

CONSTANTS
    Contexts,   \* contexts, one per thread or task
    Units,      \* unit objects, each opened at most once
    NoUnit,     \* no unit is open
    Instance,   \* the handler's own state, used outside any unit
    Setups      \* the setups of a run

UnitStates == Units \X Contexts
States == UnitStates \cup {Instance}

ASSUME UnitAssumption ==
    /\ NoUnit \notin Units
    /\ Instance \notin UnitStates
    /\ \A s \in Setups : s.sharing \in BOOLEAN /\ s.units \in Nat

VARIABLES
    setup,      \* the options the handler is built with, and the bounds
                \*   sharing: whether contexts are copied, or log outside a unit
                \*   units: how many units are opened
    current,    \* current[x]: the unit _CURRENT holds in context x
    opened,     \* the units opened so far
    kept,       \* kept[u]: the handler's state in u, Instance for none yet
    callbacks,  \* callbacks[u]: the states to flush when u ends, in order
    pc,         \* pc[x]: where context x is
    todo,       \* todo[x]: where it goes on once its state is created
    mine,       \* mine[x]: the local `state`
    slot,       \* slot[x]: the place of end_unit() in the callbacks, 0 outside it
    next,       \* next[x]: the unit begin_unit() is to open, if any
    failed      \* failed[x]: whether an end callback raised

unitVars == <<setup, current, opened, kept, callbacks, slot, next, failed>>
flowVars == <<pc, todo, mine>>

UnitInit ==
    /\ setup \in Setups
    /\ current = [x \in Contexts |-> NoUnit]
    /\ opened = {}
    /\ kept = [u \in Units |-> Instance]
    /\ callbacks = [u \in Units |-> <<>>]
    /\ pc = [x \in Contexts |-> "idle"]
    /\ todo = [x \in Contexts |-> "idle"]
    /\ mine = [x \in Contexts |-> Instance]
    /\ slot = [x \in Contexts |-> 0]
    /\ next = [x \in Contexts |-> NoUnit]
    /\ failed = [x \in Contexts |-> FALSE]

UnitTypeOK ==
    /\ setup \in Setups
    /\ current \in [Contexts -> Units \cup {NoUnit}]
    /\ opened \subseteq Units
    /\ kept \in [Units -> States]
    /\ callbacks \in [Units -> Seq(UnitStates)]
    /\ mine \in [Contexts -> States]
    /\ slot \in [Contexts -> Nat]
    /\ next \in [Contexts -> Units \cup {NoUnit}]
    /\ failed \in [Contexts -> BOOLEAN]

GoTo(x, there) == pc' = [pc EXCEPT ![x] = there]

\* The call is over, and its locals with it.
Return(x) ==
    /\ GoTo(x, IF slot[x] = 0 THEN "idle" ELSE "ending")
    /\ mine' = [mine EXCEPT ![x] = Instance]

-----------------------------------------------------------------------------
(* unit_state() *)

\* A slip: one state for every unit.
LookupInstance(x, there) ==
    /\ GoTo(x, there)
    /\ mine' = [mine EXCEPT ![x] = Instance]
    /\ UNCHANGED todo

\* The state is found, or is to be created: the handler goes on at `there`.
LookupThen(x, there) ==
    LET u == current[x]
    IN  IF u # NoUnit /\ kept[u] = Instance
        THEN /\ GoTo(x, "create")
             /\ todo' = [todo EXCEPT ![x] = there]
             /\ UNCHANGED mine
        ELSE /\ GoTo(x, there)
             /\ mine' = [mine EXCEPT ![x] = IF u = NoUnit THEN Instance ELSE kept[u]]
             /\ UNCHANGED todo

\* A slip: the callback is registered for the first state only.
RegisterOnce(s) ==
    callbacks' = IF \A u \in Units : callbacks[u] = <<>>
                 THEN [callbacks EXCEPT ![s[1]] = <<s>>] ELSE callbacks

Register(s) == callbacks' = [callbacks EXCEPT ![s[1]] = Append(@, s)]

Create(x) ==
    /\ pc[x] = "create"
    /\ LET s == <<current[x], x>>
       IN  /\ kept' = [kept EXCEPT ![s[1]] = s]
           /\ mine' = [mine EXCEPT ![x] = s]
    /\ UNCHANGED <<setup, current, opened, callbacks, slot, next, failed>>

CreateState(x) == Create(x) /\ GoTo(x, "register") /\ UNCHANGED todo

\* Without an on_end the owner goes on at once.
CreateUnheard(x) ==
    /\ Create(x)
    /\ GoTo(x, todo[x])
    /\ todo' = [todo EXCEPT ![x] = "idle"]

RegisterState(x) ==
    /\ pc[x] = "register"
    /\ Register(mine[x])
    /\ GoTo(x, todo[x])
    /\ todo' = [todo EXCEPT ![x] = "idle"]
    /\ UNCHANGED <<setup, current, opened, kept, slot, next, failed, mine>>

-----------------------------------------------------------------------------
(* begin_unit(), end_unit() and the copying of contexts *)

\* end_unit() when u is NoUnit; begin_unit() is the same, then opens u.
BeginEnding(x, u) ==
    /\ pc[x] = "idle"
    /\ u = NoUnit \/ (u \notin opened /\ Cardinality(opened) < setup.units)
    /\ opened' = opened \cup ({u} \ {NoUnit})
    /\ next' = [next EXCEPT ![x] = u]
    /\ slot' = [slot EXCEPT ![x] = 1]
    /\ GoTo(x, "ending")
    /\ UNCHANGED <<setup, current, kept, callbacks, failed, todo, mine>>

\* A slip: the loop stops before the last callback.
AllButLast(x) == current[x] # NoUnit /\ slot[x] < Len(callbacks[current[x]])

CallbacksLeft(x) == current[x] # NoUnit /\ slot[x] <= Len(callbacks[current[x]])

\* The loop reads the list as it goes: a callback added meanwhile runs too.
NextCallback(x) ==
    /\ pc[x] = "ending"
    /\ CallbacksLeft(x)
    /\ mine' = [mine EXCEPT ![x] = callbacks[current[x]][slot[x]]]
    /\ slot' = [slot EXCEPT ![x] = @ + 1]
    /\ GoTo(x, "flush")
    /\ UNCHANGED <<setup, current, opened, kept, callbacks, next, failed, todo>>

\* The context forgets its unit; failures raise out of begin_unit() before it
\* sets the unit it was to open.
LeaveUnit(x) ==
    /\ pc[x] = "ending"
    /\ ~CallbacksLeft(x)
    /\ current' = [current EXCEPT ![x] = IF failed[x] THEN NoUnit ELSE next[x]]
    /\ slot' = [slot EXCEPT ![x] = 0]
    /\ next' = [next EXCEPT ![x] = NoUnit]
    /\ failed' = [failed EXCEPT ![x] = FALSE]
    /\ GoTo(x, "idle")
    /\ UNCHANGED <<setup, opened, kept, callbacks, todo, mine>>

\* A thread or task is started from x in a copy of its context.
CopyContext(x, y) ==
    /\ setup.sharing
    /\ pc[x] = "idle" /\ pc[y] = "idle"
    /\ current[y] # current[x]
    /\ current' = [current EXCEPT ![y] = current[x]]
    /\ UNCHANGED <<setup, opened, kept, callbacks, slot, next, failed, flowVars>>

UnitStep(x) == CreateState(x) \/ RegisterState(x) \/ NextCallback(x) \/ LeaveUnit(x)

UnitCall(x) ==
    \/ \E u \in Units \cup {NoUnit} : BeginEnding(x, u)
    \/ \E y \in Contexts : CopyContext(x, y)
=============================================================================
