------------------------------ MODULE LogContext ------------------------------
(***************************************************************************)
(* The ambient context (log_context.py) and the records that have it       *)
(* (processor/context_vars_processor.py).  What is bound is a mapping that *)
(* the ContextVar of a task or thread refers to.  A task that is created   *)
(* starts with a copy of its parent's context, so that both refer to the   *)
(* same mapping, as does whoever asked for current_context(); a thread     *)
(* starts with the default, unless the interpreter was told otherwise.     *)
(* bound_context() is a block, left with the token that it was entered     *)
(* with, and by the task that entered it: reset() refuses a token of       *)
(* another context.                                                        *)
(***************************************************************************)
EXTENDS Naturals, Sequences

CONSTANTS
    Tasks,      \* the tasks and threads that may be
    First,      \* the task that is there from the start
    Names,      \* the keys that are bound
    MaxSteps    \* bound: calls and tasks

ContextAssumption == First \in Tasks /\ MaxSteps \in Nat

VARIABLES
    mappings,   \* the mappings that were made: what is bound under each name, 0 for nothing
    ambient,    \* ambient[t]: the mapping _CONTEXT refers to in task t, or 0 for no such task
    blocks,     \* blocks[t]: the blocks t is in, in order: the token of each, that is the
                \* mapping before it; history: what was bound then
    steps,
    inherited,  \* history: what was bound for t as it was created
    own         \* history: what t bound

contextVars == <<mappings, ambient, blocks, steps, inherited, own>>

Empty == [n \in Names |-> 0]

Alive(t) == ambient[t] # 0
Here(t)  == mappings[ambient[t]]

\* What ContextVarsProcessor adds to a record that t logs.
Seen(t) == [n \in {k \in Names : Here(t)[k] # 0} |-> Here(t)[n]]

Step == steps < MaxSteps /\ steps' = steps + 1

\* A slip: the mapping itself is changed, which others refer to.
Changed(t, m) == mappings' = [mappings EXCEPT ![ambient[t]] = m] /\ ambient' = ambient

\* The task refers to a mapping of its own from now on.
Anew(t, m) == mappings' = Append(mappings, m) /\ ambient' = [ambient EXCEPT ![t] = Len(mappings')]

\* {**_CONTEXT.get(), **values}, each value bound once in the whole run.
With(t, names) == [n \in Names |-> IF n \in names THEN steps' ELSE Here(t)[n]]

Bind(t, names) ==
    /\ Step /\ Alive(t)
    /\ Anew(t, With(t, names))
    /\ own' = [own EXCEPT ![t] = @ \cup {steps'}]
    /\ UNCHANGED <<blocks, inherited>>

\* Names that are not bound are ignored, and no mapping is made for them.
Unbind(t, names) ==
    /\ Step /\ Alive(t)
    /\ IF \A n \in names : Here(t)[n] = 0 THEN UNCHANGED <<mappings, ambient>>
       ELSE Anew(t, [n \in Names |-> IF n \in names THEN 0 ELSE Here(t)[n]])
    /\ UNCHANGED <<blocks, inherited, own>>

Clear(t) ==
    /\ Step /\ Alive(t)
    /\ Anew(t, Empty)
    /\ UNCHANGED <<blocks, inherited, own>>

Enter(t, names) ==
    /\ Step /\ Alive(t)
    /\ blocks' = [blocks EXCEPT ![t] = Append(@, [token |-> ambient[t], names |-> names, was |-> Here(t)])]
    /\ Anew(t, With(t, names))
    /\ own' = [own EXCEPT ![t] = @ \cup {steps'}]
    /\ UNCHANGED inherited

\* A slip: the names of the block are unbound.
Unbound(t, block) == Anew(t, [n \in Names |-> IF n \in block.names THEN 0 ELSE Here(t)[n]])

Restore(t, block) == ambient' = [ambient EXCEPT ![t] = block.token] /\ UNCHANGED mappings

\* A block is left, the innermost or, if the blocks are generators, another one.
Leave(t, i) ==
    /\ Step /\ i \in DOMAIN blocks[t]
    /\ Restore(t, blocks[t][i])
    /\ blocks' = [blocks EXCEPT ![t] = SubSeq(@, 1, i - 1) \o SubSeq(@, i + 1, Len(@))]
    /\ UNCHANGED <<inherited, own>>

\* A task is created: it refers to what its parent refers to.
Create(t, u) ==
    /\ Step /\ Alive(t) /\ ~Alive(u)
    /\ ambient' = [ambient EXCEPT ![u] = ambient[t]]
    /\ inherited' = [inherited EXCEPT ![u] = Here(t)]
    /\ UNCHANGED <<mappings, blocks, own>>

\* A thread is started: it refers to the default.
Start(u) ==
    /\ Step /\ ~Alive(u)
    /\ ambient' = [ambient EXCEPT ![u] = 1]
    /\ UNCHANGED <<mappings, blocks, inherited, own>>

Init ==
    /\ mappings = <<Empty>>
    /\ ambient = [t \in Tasks |-> IF t = First THEN 1 ELSE 0]
    /\ blocks = [t \in Tasks |-> <<>>]
    /\ steps = 0
    /\ inherited = [t \in Tasks |-> Empty]
    /\ own = [t \in Tasks |-> {}]

Next ==
    \E t \in Tasks :
        \/ \E names \in SUBSET Names \ {{}} : Bind(t, names) \/ Unbind(t, names) \/ Enter(t, names)
        \/ Clear(t) \/ \E i \in 1 .. MaxSteps : Leave(t, i)
        \/ Start(t) \/ \E u \in Tasks : Create(t, u)

Spec == Init /\ [][Next]_contextVars

-----------------------------------------------------------------------------
(* Properties *)

TypeOK ==
    /\ ambient \in [Tasks -> 0 .. Len(mappings)]
    /\ \A i \in DOMAIN mappings : mappings[i] \in [Names -> 0 .. steps]
    /\ \A t \in Tasks : \A i \in DOMAIN blocks[t] : blocks[t][i].token \in DOMAIN mappings

\* The records of a task have what it bound, or what was bound for it as it
\* was created, under the same name: nothing that another task, its parent
\* included, binds or unbinds afterwards.
Isolated ==
    \A t \in Tasks : Alive(t) => \A n \in DOMAIN Seen(t) :
        Seen(t)[n] \in {inherited[t][n]} \cup own[t]

PutsBack(t) ==
    LET innermost == Len(blocks[t])
    IN  innermost > 0 /\ blocks'[t] = SubSeq(blocks[t], 1, innermost - 1) =>
            mappings'[ambient'[t]] = blocks[t][innermost].was
\* When a task has left its blocks, the innermost first, what was bound before
\* each is bound again, whatever was bound and unbound inside.
PutBack == [][\A t \in Tasks : PutsBack(t)]_contextVars
=============================================================================
