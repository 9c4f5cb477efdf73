---------------------------- MODULE LoggingConfig ----------------------------
(***************************************************************************)
(* A configuration is checked as it is made (config/logging_config.py) and *)
(* its handlers are then built (config/handler_builder.py), each once and  *)
(* what it wraps before it.  Both walk the references from each handler in *)
(* the order of declaration; the walk is a stack of the handlers that are  *)
(* open, the outermost first, each with the references left to follow.     *)
(***************************************************************************)
EXTENDS Naturals, Sequences, SequencesExt, FiniteSets

CONSTANTS
    Names,          \* the handlers, in the order of their declaration
    Nowhere,        \* a name that is not declared
    Default,        \* default_channel
    Elsewhere,      \* a channel that is not declared
    Configs

Named == Range(Names)
Reasons  == {"handler", "loop", "channel", "capture", "service"}

\* The fields of a configuration:
\*   refs: the references of each handler, the members of a group or what is wrapped;
\*   served: the channels a handler names;  channels: those listed;
\*   processors: each with the handler or the channel it targets;
\*   capture: whether it is on;  captured: the channels it names;
\*   stdlib: the handlers that send records to the standard library;
\*   services: those that are services;  supplied: the services there are.
ConfigAssumption ==
    /\ Nowhere \notin Named /\ IsInjective(Names)
    /\ \A c \in Configs :
           /\ c.refs \in [Named -> Seq(Named \cup {Nowhere})]
           /\ c.capture \in BOOLEAN
           /\ c.stdlib \cup c.services \subseteq {h \in Named : c.refs[h] = <<>>}

VARIABLES
    config,
    phase,      \* what is under way, or what came of it
    place,      \* the place of the walk among the handlers
    walk,       \* the handlers that are open
    reason,     \* why it was refused, and the loop in it, if there is one
    constructed \* history: the handlers constructed, in order

configVars == <<config, phase, place, walk, reason, constructed>>

Open(h)   == [name |-> h, left |-> config.refs[h]]
Onto(w)   == [i \in DOMAIN w |-> w[i].name]
Refuse(r) == phase' = "refused" /\ reason' = r /\ UNCHANGED <<config, place, walk, constructed>>

\* all_channels
AllChannels == {Default} \cup config.channels \cup UNION {config.served[h] : h \in Named}

-----------------------------------------------------------------------------
(* __post_init__() *)

CheckReferences ==
    /\ phase = "references"
    /\ IF \E h \in Named : Nowhere \in Range(config.refs[h])
       THEN Refuse([why |-> "handler", loop |-> <<>>])
       ELSE phase' = "loops" /\ UNCHANGED <<config, place, walk, reason, constructed>>

\* A slip: the way to the loop is named as part of it.
WholeWay(path, h) == Append(path, h)

Loop(path, h) == Append(SubSeq(path, SelectInSeq(path, LAMBDA x : x = h), Len(path)), h)

\* The next reference of the innermost handler is followed.
Follow(w, h) ==
    Append(Front(w), [Last(w) EXCEPT !.left = Tail(@)]) \o (IF h = Nowhere THEN <<>> ELSE <<Open(h)>>)

\* _check_acyclic() for each handler in turn.
CheckAcyclic ==
    /\ phase = "loops"
    /\ \/ /\ walk = <<>> /\ place < Len(Names)
          /\ place' = place + 1
          /\ walk' = <<Open(Names[place'])>>
          /\ UNCHANGED <<config, phase, reason, constructed>>
       \/ /\ walk # <<>> /\ Last(walk).left # <<>>
          /\ LET h == Head(Last(walk).left)
             IN  IF h \in Range(Onto(walk))
                 THEN Refuse([why |-> "loop", loop |-> Loop(Onto(walk), h)])
                 ELSE walk' = Follow(walk, h) /\ UNCHANGED <<config, phase, place, reason, constructed>>
       \/ /\ walk # <<>> /\ Last(walk).left = <<>>
          /\ walk' = Front(walk)
          /\ UNCHANGED <<config, phase, place, reason, constructed>>
       \/ /\ walk = <<>> /\ place = Len(Names)
          /\ phase' = "targets"
          /\ place' = 0
          /\ UNCHANGED <<config, walk, reason, constructed>>

\* The processors, in order: the first that is wrong says why.
CheckProcessors ==
    LET BadHandler(p) == p.handler = Nowhere
        BadChannel(p) == p.channel \notin AllChannels
        bad == {i \in DOMAIN config.processors :
                    BadHandler(config.processors[i]) \/ BadChannel(config.processors[i])}
    IN  /\ phase = "targets"
        /\ IF bad = {} THEN phase' = "capture" /\ UNCHANGED <<config, place, walk, reason, constructed>>
           ELSE LET p == config.processors[CHOOSE i \in bad : \A j \in bad : i <= j]
                IN  Refuse([why |-> IF BadHandler(p) THEN "handler" ELSE "channel", loop |-> <<>>])

\* A slip: only a handler that no other one wraps.
OnStacks == {h \in config.stdlib : \A k \in Named : h \notin Range(config.refs[k])}

\* Handlers that would send captured records back to where they came from.
Conflicting == config.stdlib

\* _check_capture()
CheckCapture ==
    /\ phase = "capture"
    /\ IF config.capture /\ ~(config.captured \subseteq AllChannels)
       THEN Refuse([why |-> "channel", loop |-> <<>>])
       ELSE IF config.capture /\ Conflicting # {}
       THEN Refuse([why |-> "capture", loop |-> <<>>])
       ELSE phase' = "accepted" /\ UNCHANGED <<config, place, walk, reason, constructed>>

\* with_channels(): a copy, which is checked as it is made.
WithChannels(c) ==
    /\ phase = "accepted"
    /\ c \notin AllChannels
    /\ config' = [config EXCEPT !.channels = @ \cup {c}]
    /\ phase' = "references"
    /\ UNCHANGED <<place, walk, reason, constructed>>

-----------------------------------------------------------------------------
(* HandlerBuilder *)

BuildAll ==
    /\ phase = "accepted"
    /\ phase' = "building"
    /\ UNCHANGED <<config, place, walk, reason, constructed>>

\* A slip: what was built is not looked up.
NeverBuilt(h) == FALSE

IsBuilt(h) == h \in Range(constructed)

\* build(): a handler that is built is returned as it is.
Build ==
    /\ phase = "building" /\ walk = <<>> /\ place < Len(Names)
    /\ place' = place + 1
    /\ walk' = IF IsBuilt(Names[place']) THEN <<>> ELSE <<Open(Names[place'])>>
    /\ UNCHANGED <<config, phase, reason, constructed>>

BuildWrapped ==
    /\ phase = "building" /\ walk # <<>> /\ Last(walk).left # <<>>
    /\ LET h == Head(Last(walk).left)
       IN  walk' = Follow(walk, IF IsBuilt(h) THEN Nowhere ELSE h)
    /\ UNCHANGED <<config, phase, place, reason, constructed>>

\* _create(): what it wraps is there, and a service is looked up.
Create ==
    /\ phase = "building" /\ walk # <<>> /\ Last(walk).left = <<>>
    /\ LET h == Last(walk).name
       IN  IF h \in config.services \ config.supplied
           THEN Refuse([why |-> "service", loop |-> <<>>])
           ELSE /\ constructed' = Append(constructed, h)
                /\ walk' = Front(walk)
                /\ UNCHANGED <<config, phase, place, reason>>

Built ==
    /\ phase = "building" /\ walk = <<>> /\ place = Len(Names)
    /\ phase' = "built"
    /\ UNCHANGED <<config, place, walk, reason, constructed>>

Init ==
    /\ config \in Configs
    /\ phase = "references" /\ place = 0 /\ walk = <<>>
    /\ reason = [why |-> "none", loop |-> <<>>]
    /\ constructed = <<>>

Next ==
    \/ CheckReferences \/ CheckAcyclic \/ CheckProcessors \/ CheckCapture
    \/ WithChannels(Elsewhere)
    \/ BuildAll \/ Build \/ BuildWrapped \/ Create \/ Built

Spec == Init /\ [][Next]_configVars

-----------------------------------------------------------------------------
(* Properties *)

Wraps(h, k) == k \in Range(config.refs[h])

TypeOK ==
    /\ phase \in {"references", "loops", "targets", "capture", "accepted", "building", "built",
                  "refused"}
    /\ place \in 0 .. Len(Names)
    /\ \A i \in DOMAIN walk : walk[i].name \in Named /\ walk[i].left \in Seq(Named)
    /\ reason.why \in Reasons \cup {"none"}
    /\ Range(constructed) \subseteq Named

\* What the walk must find, without a walk: each reference is declared, and
\* no set of handlers is such that each of them wraps another one of the set.
Sound ==
    /\ \A h \in Named : ~Wraps(h, Nowhere)
    /\ ~ \E some \in SUBSET Named \ {{}} : \A h \in some : \E k \in some : Wraps(h, k)
    /\ \A i \in DOMAIN config.processors :
           config.processors[i].handler # Nowhere /\ config.processors[i].channel \in AllChannels
    /\ config.capture => config.captured \subseteq AllChannels /\ config.stdlib = {}

\* A configuration is accepted if it is sound, and refused if it is not; with
\* more channels it stays so.
Judged ==
    /\ phase \in {"accepted", "building", "built"} => Sound
    /\ phase = "refused" /\ reason.why # "service" => ~Sound

\* The loop that a refusal names is one: each wraps the next, none is named
\* twice but the first.  The walk ends, since no handler is open twice.
LoopIsReal ==
    /\ IsInjective(Onto(walk))
    /\ reason.why = "loop" =>
           /\ Len(reason.loop) > 1 /\ Head(reason.loop) = Last(reason.loop)
           /\ IsInjective(Tail(reason.loop))
           /\ \A i \in 1 .. Len(reason.loop) - 1 : Wraps(reason.loop[i], reason.loop[i + 1])

\* Each handler is constructed once, after all that it wraps, however many
\* wrap it: the object they share is one.
InsideOut ==
    /\ IsInjective(constructed)
    /\ \A i \in DOMAIN constructed :
           Range(config.refs[constructed[i]]) \subseteq {constructed[j] : j \in 1 .. i - 1}
    /\ phase = "built" => Range(constructed) = Named
=============================================================================
