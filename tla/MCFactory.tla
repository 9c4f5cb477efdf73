----------------------------- MODULE MCFactory -----------------------------
(***************************************************************************)
(* What becomes of a configuration: it is checked and its handlers are     *)
(* constructed (LoggingConfig); an application starts with one             *)
(* (LoggingBundle); a factory made of one gives out loggers                *)
(* (LoggerFactory); a handler may wrap one that keeps state in units of    *)
(* work behind a queue (QueuedUnits, whose constants are in MCQueued).     *)
(* A behaviour is one of the four, the `part`.                             *)
(***************************************************************************)
EXTENDS LoggerFactory, MCQueued

CONSTANTS
    main, errs, pair, alone, tail, file, more, app, sec,
    Parts,              \* those a run is about
    Nowhere, Elsewhere, \* see LoggingConfig
    Nobody              \* Anonymous of LoggingBundle

VARIABLES
    part, config, phase, place, walk, reason, constructed,
    starting, stage, registered, services, built, taken, trouble, looked

\* A handler as configured; Levels are 1 and 2.
H(kind, members) ==
    [kind |-> kind, members |-> members, levels |-> {1, 2}, bubble |-> TRUE, mode |-> "a",
     channels |-> {}, exclusive |-> FALSE, priority |-> 0, nested |-> FALSE]

\* One file behind a buffer, a filter and a group; a stream that keeps the
\* high records of a channel to itself; a group that lets nothing by.
ServedTree ==
    [h \in {main, errs, pair, alone, tail, file, more} |->
        CASE h = main  -> H("buffer", <<file>>)
          [] h = errs  -> [H("filter", <<file>>) EXCEPT !.levels = {2}]
          [] h = pair  -> [H("group", <<more, file>>) EXCEPT !.bubble = FALSE, !.channels = {sec},
                                                             !.exclusive = TRUE]
          [] h = alone -> [H("stream", <<>>) EXCEPT !.bubble = FALSE, !.levels = {2},
                                                    !.channels = {sec}, !.priority = 1]
          [] h = tail  -> [H("stream", <<>>) EXCEPT !.priority = 0]
          [] h = file  -> H("stream", <<>>)
          [] h = more  -> [H("stream", <<>>) EXCEPT !.levels = {2}]]
Served ==
    [order |-> <<main, alone, errs, pair, tail, more, file>>, tree |-> ServedTree,
     logs |-> 3, calls |-> 2, breaks |-> 0, frail |-> {}, stuck |-> {}]

\* The first handler that a factory owns does not close: the buffer is not
\* closed, nor emptied, until it is reset.
Halted ==
    [Served EXCEPT !.order = <<tail, main, errs, more, file, pair, alone>>,
                   !.logs = 2, !.stuck = {tail}]

\* A group that isolates, on every channel but one, and backups on that one.
FailingTree ==
    [h \in {main, errs, alone, tail, file, more} |->
        CASE h = main  -> [H("whatfailure", <<file, errs, more>>) EXCEPT !.channels = {app}]
          [] h = errs  -> H("buffer", <<more>>)
          [] h = alone -> [H("fallback", <<tail, more>>) EXCEPT !.channels = {sec}]
          [] h \in {tail, file, more} -> H("stream", <<>>)]
Failing ==
    [order |-> <<main, errs, alone, tail, file, more>>, tree |-> FailingTree,
     logs |-> 3, calls |-> 1, breaks |-> 2, frail |-> {tail, file, more}, stuck |-> {file}]

\* Streams that do not close, and others that start their file anew.
StuckTree == [FailingTree EXCEPT ![tail].mode = "w", ![more].mode = "x"]
Stuck == [Failing EXCEPT !.tree = StuckTree, !.calls = 2, !.breaks = 0, !.frail = {},
                         !.stuck = {file}]
All == {Served, Halted, Failing, Stuck}

-----------------------------------------------------------------------------
(* LoggingConfig: three handlers and every way they may wrap each other,   *)
(* with no more than two members; then one such tree and all else that may *)
(* be wrong with it.                                                       *)
Three == <<main, errs, file>>
These == Range(Three)
Upto2 == {<<>>} \cup {<<h>> : h \in These} \cup {<<h, k>> : h, k \in These}

To(h, c) == [handler |-> h, channel |-> c]
Plain == [refs |-> [h \in These |-> <<>>], served |-> [h \in These |-> {}], channels |-> {sec},
          processors |-> <<>>, capture |-> FALSE, captured |-> {}, stdlib |-> {},
          services |-> {}, supplied |-> {}]
Shapes == {[Plain EXCEPT !.refs = r] : r \in [These -> Upto2]}

OneFile == [Plain EXCEPT !.refs[main] = <<errs, file>>, !.refs[errs] = <<file>>]
Details ==
    {[OneFile EXCEPT !.served[main] = s, !.channels = {}, !.processors = p,
                     !.capture = on, !.captured = s \cup {app}, !.stdlib = l,
                     !.services = {file} \ l, !.supplied = v] :
        s \in {{}, {sec}}, on \in BOOLEAN, l \in {{}, {file}}, v \in {{}, {file}},
        p \in {<<>>, <<To(file, sec)>>, <<To(main, app), To(Nowhere, app)>>,
               <<To(main, Elsewhere), To(errs, app)>>}}
Missing == {[OneFile EXCEPT !.refs[h] = <<Nowhere>>] : h \in These}
Astray  == {[OneFile EXCEPT !.capture = TRUE, !.captured = {Elsewhere}]}

Co == INSTANCE LoggingConfig
      WITH Names <- Three, Default <- app, Configs <- Shapes \cup Details \cup Missing \cup Astray

-----------------------------------------------------------------------------
(* LoggingBundle: an application that names a service of each family, with *)
(* every part of them there; processors that have a target or none; a      *)
(* channel written as a placeholder, and a service.                        *)
E(kind, wraps, names) == [kind |-> kind, wraps |-> wraps, names |-> names, channels |-> {}]
P(service, channel, handler) == [service |-> service, channel |-> channel, handler |-> handler]

Entries == <<E("stream", {}, "json"), [E("console", {}, "ansi") EXCEPT !.channels = {sec}],
             E("service", {}, "sentry"), E("fingerscrossed", {1}, "often"), E("queue", {3}, "report"),
             E("null", {}, Nobody)>>
ServicesNamed ==
    {<<"formatter", "json">>, <<"formatter", "ansi">>, <<"handler", "sentry">>,
     <<"activation_strategy", "often">>, <<"error_handler", "report">>, <<"processor", "tagger">>}

Whole == [handlers |-> Entries, processors |-> <<P("tagger", sec, Nobody), P(Nobody, Nobody, 1)>>,
          declared |-> <<>>, default |-> app, channels |-> {}, holds |-> ServicesNamed,
          capture |-> [on |-> TRUE, channel |-> Nobody, loggers |-> [name \in {"httpx", "asyncio"} |->
                          IF name = "httpx" THEN sec ELSE Nobody]],
          plain |-> {}, fills |-> <<>>]
Applications ==
    {[Whole EXCEPT !.holds = some, !.capture.on = on] : some \in SUBSET ServicesNamed, on \in BOOLEAN}
    \cup {[Whole EXCEPT !.declared = <<P(Nobody, app, Nobody), p>>, !.plain = {"sentry"}] :
              p \in {P(Nobody, Elsewhere, Nobody), P(Nobody, sec, Nobody)}
                    \cup {P(Nobody, Nobody, h) : h \in 1 .. 7}}
    \cup {[Whole EXCEPT !.fills = [env \in {sec} |-> more]],
          [Whole EXCEPT !.fills = [env \in {"sentry"} |-> "other"],
                        !.holds = (@ \ {<<"handler", "sentry">>}) \cup {<<"handler", "other">>}]}

Bu == INSTANCE LoggingBundle
      WITH Anonymous <- Nobody, app <- starting, capturing <- taken

ASSUME PartsAssumption ==
    Bu!BundleAssumption /\ Co!ConfigAssumption /\ Qu!UnitAssumption /\ Qu!BufferAssumption /\ Qu!QueuedAssumption

-----------------------------------------------------------------------------
Factory == part = "factory"
Config  == part = "config"
Queued  == part = "queued"
Start   == part = "start"

configVars == <<config, phase, place, walk, reason, constructed>>
bundleVars == <<starting, stage, registered, services, built, taken, trouble, looked>>

\* The parts that are left alone, in a state they may start in.
FactoryRests == Init /\ setup = Served
ConfigRests  == Co!Init /\ config = Plain
QueuedRests  == Qu!QueuedInit /\ buffering = Two
StartRests   == Bu!BundleInit /\ starting = Whole

FactoryInit ==
    /\ part \in Parts
    /\ \/ Factory /\ Init /\ ConfigRests /\ QueuedRests /\ StartRests
       \/ Config /\ Co!Init /\ FactoryRests /\ QueuedRests /\ StartRests
       \/ Queued /\ Qu!QueuedInit /\ FactoryRests /\ ConfigRests /\ StartRests
       \/ Start /\ Bu!BundleInit /\ FactoryRests /\ ConfigRests /\ QueuedRests

FactoryNext ==
    \/ Factory /\ Next /\ UNCHANGED <<part, configVars, queuedVars, bundleVars>>
    \/ Config /\ Co!Next /\ UNCHANGED <<part, vars, queuedVars, bundleVars>>
    \/ Queued /\ Qu!QueuedNext /\ UNCHANGED <<part, vars, configVars, bundleVars>>
    \/ Start /\ Bu!BundleNext /\ UNCHANGED <<part, vars, configVars, queuedVars>>

FactorySpec == FactoryInit /\ [][FactoryNext]_<<part, vars, configVars, queuedVars, bundleVars>>

\* What holds of each: see the modules.
FactoryTypeOK == part \in Parts /\ TypeOK /\ Co!TypeOK /\ Qu!QueuedTypeOK /\ Bu!BundleTypeOK

\* A configuration is refused if and only if it is unsound, and for a loop it
\* has; if it is not, each handler is constructed once, after what it wraps.  An
\* application starts whole, or is refused for what it lacks and leaves nothing.
Judged ==
    /\ Co!Judged /\ Co!LoopIsReal /\ Co!InsideOut
    /\ Bu!NamedIsUsed /\ Bu!NothingToUndo /\ Bu!LoggersAreThere
=============================================================================
