-------------------------- MODULE ProcessorRegistry --------------------------
(***************************************************************************)
(* Which processors run where: declarations made with @as_processor        *)
(* (decorator/as_processor.py) go to a registry                            *)
(* (processor/processor_registry.py) and onto the declared object itself,  *)
(* where the scan of a kernel (bundle/logging_bundle.py) finds them for a  *)
(* registry of its own; a factory (logger_factory.py) takes what its       *)
(* registry holds, with the processors of the configuration, and attaches  *)
(* them to channels and handlers.                                          *)
(*                                                                         *)
(* A declaration names a function or a class, at most one of a channel and *)
(* a handler, and a priority.  A processor that runs is a function, or an  *)
(* instance of a class, numbered in the order they are made.               *)
(***************************************************************************)
EXTENDS Naturals, Sequences, SequencesExt, FiniteSets

CONSTANTS
    Functions, Classes,     \* the processors there may be
    Channels,               \* the channels the configuration declares
    Stacks,                 \* its handlers, each a new one for a factory, ...
    Plain,                  \* ... of which these run no processors
    Everywhere,             \* no channel is named; no handler is
    Declarations,           \* the channel, handler and priority of a declaration
    Offers,                 \* what may be declared how
    Configured,             \* the processors of the configuration, in order
    MaxDeclared, MaxFactories

Targets == Functions \cup Classes
Registries == {"default", "kernel"}

RegistryAssumption ==
    /\ Functions \cap Classes = {} /\ Plain \subseteq Stacks /\ Everywhere \notin Channels \cup Stacks
    /\ \A d \in Declarations : /\ d.priority \in Nat
                               /\ Everywhere \in {d.channel, d.handler}
    /\ Configured \in Seq([target : Functions, at : Declarations])
    /\ Offers \subseteq [target : Targets, at : Declarations]
    /\ MaxDeclared \in Nat /\ MaxFactories \in Nat

VARIABLES
    functions,  \* functions[g]: _instance_entries of a registry
    classes,    \* classes[g]: _class_entries
    instances,  \* instances[g]: _instances, 0 for a class not built yet
    bindings,   \* _bindings of the kernel's registry, 0 for none
    marks,      \* marks[t]: the declarations on the object itself
    made,       \* how many instances there are
    factories,  \* the factories made: their registry, and what runs where
    declared    \* history: declared[g]: everything declared, in order

regVars == <<functions, classes, instances, bindings, marks, made, factories, declared>>

-----------------------------------------------------------------------------
(* Declaring. *)

\* A slip: what is there already is added again.
AddAgain(entries, e) == Append(entries, e)

Add(entries, e) == IF Contains(entries, e) THEN entries ELSE Append(entries, e)

\* register() and register_class()
Register(g, t, d) ==
    LET e == [target |-> t, at |-> d]
    IN  /\ IF t \in Functions
           THEN functions' = [functions EXCEPT ![g] = Add(@, e)] /\ UNCHANGED classes
           ELSE classes' = [classes EXCEPT ![g] = Add(@, e)] /\ UNCHANGED functions
        /\ declared' = [declared EXCEPT ![g] = IF Contains(@, e) THEN @ ELSE Append(@, e)]

\* @as_processor: into the process-wide registry, and onto the object.
AsProcessor(t, d) ==
    /\ Len(declared["default"]) < MaxDeclared
    /\ Register("default", t, d)
    /\ marks' = [marks EXCEPT ![t] = IF Contains(@, d) THEN @ ELSE Append(@, d)]
    /\ UNCHANGED <<instances, bindings, made, factories>>

\* register_processor(): the scan comes to an object, once for each mark.
Scan(t, i) ==
    /\ i \in DOMAIN marks[t]
    /\ Register("kernel", t, marks[t][i])
    /\ UNCHANGED <<instances, bindings, marks, made, factories>>

\* services_factory(): the container makes one instance of each class that
\* was scanned, before the factory asks for it.
Unbound == {e.target : e \in Range(classes["kernel"])} \cap {c \in Classes : bindings[c] = 0}

Bind(c) ==
    /\ c \in Unbound
    /\ made' = made + 1
    /\ bindings' = [bindings EXCEPT ![c] = made']
    /\ UNCHANGED <<functions, classes, instances, marks, factories, declared>>

-----------------------------------------------------------------------------
(* descriptors *)

\* A slip: every read makes an instance.
MakeAnew(so, g, c) ==
    [so EXCEPT !.instances[c] = so.made + 1, !.made = so.made + 1]

\* _resolve(): bound, or made before, or made now.
Resolve(so, g, c) ==
    IF (g = "kernel" /\ bindings[c] # 0) \/ so.instances[c] # 0 THEN so
    ELSE [so EXCEPT !.instances[c] = so.made + 1, !.made = so.made + 1]

Instance(so, g, c) == IF g = "kernel" /\ bindings[c] # 0 THEN bindings[c] ELSE so.instances[c]

\* Functions, then classes; a class is made when it is come to.
Descriptors(g) ==
    LET Read(so, e) ==
            LET now == Resolve(so, g, e.target)
            IN  [now EXCEPT !.found = Append(@, [target |-> e.target, at |-> e.at,
                                                number |-> Instance(now, g, e.target)])]
        first == [e \in DOMAIN functions[g] |-> [target |-> functions[g][e].target,
                                                at |-> functions[g][e].at, number |-> 0]]
    IN  FoldLeft(Read, [instances |-> instances[g], made |-> made, found |-> first], classes[g])

-----------------------------------------------------------------------------
(* LoggerFactory.__init__() *)

\* Those of the configuration, then those declared; by priority, as they
\* come where it is the same.
Placed(found) ==
    LET config == [i \in DOMAIN Configured |->
                      [target |-> Configured[i].target, at |-> Configured[i].at, number |-> 0]]
        all    == config \o found
        order  == SortSeq([i \in DOMAIN all |-> i], LAMBDA i, j :
                      \/ all[i].at.priority > all[j].at.priority
                      \/ all[i].at.priority = all[j].at.priority /\ i < j)
    IN  [k \in DOMAIN all |-> all[order[k]]]

Refused(e) ==
    \/ e.at.channel # Everywhere /\ e.at.channel \notin Channels
    \/ e.at.handler # Everywhere /\ e.at.handler \notin Stacks \ Plain

\* A slip: pushed in the order they should run.
PushForward(placed) == placed

\* From the last to the first, since the one pushed last runs first.
PushOrder(placed) == Reverse(placed)

\* _attach_handler_processors()
Attached(placed) ==
    FoldLeft(LAMBDA own, e : IF e.at.handler = Everywhere THEN own
                             ELSE [own EXCEPT ![e.at.handler] = <<e>> \o @],
             [h \in Stacks |-> <<>>], PushOrder(placed))

OnChannel(placed, c) ==
    SelectSeq(placed, LAMBDA e : e.at.handler = Everywhere /\ e.at.channel \in {Everywhere, c})

\* The kernel's is made once the services are.  One that is refused has read
\* the registry.
MakeFactory(g) ==
    LET read   == Descriptors(g)
        placed == Placed(read.found)
    IN  /\ Len(factories) < MaxFactories
        /\ g = "kernel" => Unbound = {}
        /\ instances' = [instances EXCEPT ![g] = read.instances]
        /\ made' = read.made
        /\ factories' =
               IF \E e \in Range(placed) : Refused(e) THEN factories
               ELSE Append(factories,
                        [from |-> g, said |-> declared[g], own |-> Attached(placed),
                         runs |-> [c \in Channels |-> OnChannel(placed, c)]])
        /\ UNCHANGED <<functions, classes, bindings, marks, declared>>

Init ==
    /\ functions = [g \in Registries |-> <<>>] /\ classes = [g \in Registries |-> <<>>]
    /\ instances = [g \in Registries |-> [c \in Classes |-> 0]]
    /\ bindings = [c \in Classes |-> 0]
    /\ marks = [t \in Targets |-> <<>>]
    /\ made = 0 /\ factories = <<>>
    /\ declared = [g \in Registries |-> <<>>]

Next ==
    \/ \E e \in Offers : AsProcessor(e.target, e.at)
    \/ \E t \in Targets : \E i \in DOMAIN marks[t] : Scan(t, i)
    \/ \E c \in Classes : Bind(c)
    \/ \E g \in Registries : MakeFactory(g)

Spec == Init /\ [][Next]_regVars
-----------------------------------------------------------------------------
(* Properties *)

Processor == [target : Targets, at : Declarations, number : 0 .. made]

TypeOK ==
    /\ \A g \in Registries : /\ functions[g] \in Seq([target : Functions, at : Declarations])
                             /\ classes[g] \in Seq([target : Classes, at : Declarations])
    /\ instances \in [Registries -> [Classes -> 0 .. made]]
    /\ bindings \in [Classes -> 0 .. made]
    /\ marks \in [Targets -> Seq(Declarations)]
    /\ \A i \in DOMAIN factories : /\ factories[i].own \in [Stacks -> Seq(Processor)]
                                   /\ factories[i].runs \in [Channels -> Seq(Processor)]
    /\ \A i \in DOMAIN factories : \A c \in Channels : \A e \in Range(factories[i].runs[c]) :
           (e.target \in Classes) = (e.number # 0)

Lines(f) == {f.own[h] : h \in Stacks} \cup {f.runs[c] : c \in Channels}

\* On every channel and every handler a higher priority runs first.
HigherFirst ==
    \A i \in DOMAIN factories : \A line \in Lines(factories[i]) :
        \A m, n \in DOMAIN line : m < n => line[m].at.priority >= line[n].at.priority

\* A record on a channel passes each processor once for each declaration that
\* covers the channel, and inside a handler once for each that names it;
\* declared again the same way, by hand and by the scan, it is not run again.
OncePerDeclaration ==
    \A i \in DOMAIN factories :
        LET f == factories[i]
            Times(line, t) == Cardinality({n \in DOMAIN line : line[n].target = t})
            Due(covers(_), t) ==
                Cardinality({e \in Range(f.said) : e.target = t /\ covers(e.at)})
                + Cardinality({n \in DOMAIN Configured :
                                   Configured[n].target = t /\ covers(Configured[n].at)})
        IN  \A t \in Targets :
                /\ \A c \in Channels :
                       Times(f.runs[c], t) =
                           Due(LAMBDA d : d.handler = Everywhere /\ d.channel \in {Everywhere, c}, t)
                /\ \A h \in Stacks : Times(f.own[h], t) = Due(LAMBDA d : d.handler = h, t)

\* A class that is declared for several places, or read by several factories,
\* has one instance for each registry, so that what it keeps is one.
OneInstance ==
    \A i, j \in DOMAIN factories :
        factories[i].from = factories[j].from =>
            \A l \in Lines(factories[i]), m \in Lines(factories[j]) :
                \A e \in Range(l), d \in Range(m) : e.target = d.target => e.number = d.number

\* ProcessorDescriptor.priority: where priorities are the same, what was declared first
\* runs first.
TiesAsDeclared ==
    \A i \in DOMAIN factories : \A line \in Lines(factories[i]) :
        LET said == factories[i].said
            Place(e) == SelectInSeq(said, LAMBDA x : x.target = e.target /\ x.at = e.at)
            ours     == Targets \ {Configured[n].target : n \in DOMAIN Configured}
        IN  \A m, n \in DOMAIN line :
                /\ m < n /\ line[m].at.priority = line[n].at.priority
                /\ {line[m].target, line[n].target} \subseteq ours
                => Place(line[m]) < Place(line[n])
=============================================================================
