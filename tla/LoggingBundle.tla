----------------------------- MODULE LoggingBundle -----------------------------
(***************************************************************************)
(* How an application starts (bundle/logging_bundle.py, logger_factory.py).*)
(* A kernel loads the bundle, which registers what the container is to     *)
(* make, and lets it check that the services which the configuration names *)
(* exist.  The container makes the services, the factory and loggers when  *)
(* they are asked for; the factory reads a copy of the configuration with  *)
(* its placeholders filled, the bundle has it as it was written.           *)
(*                                                                         *)
(* Handlers are built in any order that has what is wrapped before its     *)
(* wrapper: LoggingConfig has the one the code takes.                      *)
(***************************************************************************)
EXTENDS Naturals, Sequences, SequencesExt, FiniteSets

CONSTANTS
    Applications,
    Anonymous       \* what names no service, no target, no channel

Families == {"handler", "formatter", "processor", "activation_strategy", "error_handler"}

\* The kinds of handler with an option that may name a service.
Naming == {"service", "stream", "console", "fingerscrossed", "queue"}

\* The fields of an application:
\*   handlers: each with its kind, those it wraps (by place), the service that it
\*     or its formatter, strategy or error handler is, and the channels it names;
\*   processors, declared: each with its service, channel and handler, by priority;
\*   default: default_channel;  channels: those listed;
\*   capture: whether it is on, its channel, and that of each standard logger it names;
\*   holds: the services in the container;  plain: those that run no processors;
\*   fills: what placeholders stand for.
BundleAssumption ==
    \A a \in Applications :
        /\ \A i \in DOMAIN a.handlers : a.handlers[i].wraps \subseteq 1 .. Len(a.handlers)
        /\ \A i \in DOMAIN a.handlers :
               a.handlers[i].names = Anonymous \/ a.handlers[i].kind \in Naming
        /\ a.holds \subseteq Families \X {entry[2] : entry \in a.holds}
        /\ a.capture.on \in BOOLEAN

VARIABLES
    app,
    stage,
    registered,     \* the channels whose loggers the container can make
    services,       \* Services: those that were resolved, each with its family
    built,          \* _built: the handlers, by place
    capturing,      \* whether the standard library's logging is taken over
    trouble,        \* why it did not start, or why a logger was not to be had
    looked          \* history: the services that were looked up

bundleVars == <<app, stage, registered, services, built, capturing, trouble, looked>>

Places == DOMAIN app.handlers

\* What is read of an option: as it was written, or with placeholders filled.
Filled(x) == IF x \in DOMAIN app.fills THEN app.fills[x] ELSE x
Read(copy, x) == IF copy = "filled" THEN Filled(x) ELSE x

AllChannels(copy) ==
    {Read(copy, c) : c \in {app.default} \cup app.channels \cup UNION {app.handlers[i].channels : i \in Places}}

-----------------------------------------------------------------------------
(* What the bundle finds that the configuration names *)

NamedBy(kinds, copy) ==
    {Read(copy, app.handlers[i].names) : i \in {i \in Places :
        app.handlers[i].kind \in kinds /\ app.handlers[i].names # Anonymous}}

\* A slip: the console handler is no FormattedHandlerConfig, and is forgotten.
FormattedOnly(copy) == NamedBy({"stream"}, copy)

FormatterIds(copy)    == NamedBy({"stream", "console"}, copy)
HandlerIds(copy)      == NamedBy({"service"}, copy)
StrategyIds(copy)     == NamedBy({"fingerscrossed"}, copy)
ErrorHandlerIds(copy) == NamedBy({"queue"}, copy)
ProcessorIds(copy)    ==
    {Read(copy, app.processors[i].service) : i \in {i \in DOMAIN app.processors :
        app.processors[i].service # Anonymous}}

\* _service_ids_by_kind()
ServiceIds(copy) ==
         {"handler"} \X HandlerIds(copy)
    \cup {"formatter"} \X FormatterIds(copy)
    \cup {"processor"} \X ProcessorIds(copy)
    \cup {"activation_strategy"} \X StrategyIds(copy)
    \cup {"error_handler"} \X ErrorHandlerIds(copy)

-----------------------------------------------------------------------------
(* The kernel *)

\* A slip: the channels that only a handler names have no logger.
LoadListed ==
    /\ stage = "loading"
    /\ stage' = "loaded"
    /\ registered' = {app.default} \cup app.channels
    /\ UNCHANGED <<app, services, built, capturing, trouble, looked>>

\* load_extension()
LoadExtension ==
    /\ stage = "loading"
    /\ stage' = "loaded"
    /\ registered' = AllChannels("written")
    /\ UNCHANGED <<app, services, built, capturing, trouble, looked>>

Stop(where, why) ==
    /\ stage' = where /\ trouble' = why
    /\ UNCHANGED <<app, registered, services, built, capturing>>

\* process()
Process ==
    /\ stage = "loaded"
    /\ IF ServiceIds("written") \subseteq app.holds
       THEN /\ stage' = "accepted"
            /\ UNCHANGED <<app, registered, services, built, capturing, trouble>>
       ELSE Stop("refused", "service")
    /\ UNCHANGED looked

\* _resolve_services(), after declared classes were bound (ProcessorRegistry).
ResolveServices ==
    /\ stage = "accepted"
    /\ IF ServiceIds("filled") \subseteq app.holds
       THEN /\ stage' = "building"
            /\ services' = ServiceIds("filled")
            /\ UNCHANGED <<app, registered, built, capturing, trouble>>
       ELSE Stop("failed", "service")
    /\ UNCHANGED looked

-----------------------------------------------------------------------------
(* LoggerFactory *)

\* Where HandlerBuilder looks for the service that a handler is, or that its
\* formatter, its activation strategy or its error handler is, as it builds it.
LookedForIn ==
    [service |-> "handler", stream |-> "formatter", console |-> "formatter",
     fingerscrossed |-> "activation_strategy", queue |-> "error_handler"]

LookUps(i) ==
    LET h == app.handlers[i]
    IN  IF h.names = Anonymous THEN {} ELSE {<<LookedForIn[h.kind], Filled(h.names)>>}

BuildHandler(i) ==
    /\ stage = "building" /\ i \notin built /\ app.handlers[i].wraps \subseteq built
    /\ looked' = looked \cup LookUps(i)
    /\ IF LookUps(i) \subseteq services
       THEN built' = built \cup {i} /\ UNCHANGED <<app, stage, registered, services, capturing, trouble>>
       ELSE Stop("failed", "service")

\* What build_processor() looks up for those that are services.
ProcessorLookUps ==
    {<<"processor", Filled(p.service)>> : p \in {p \in Range(app.processors) : p.service # Anonymous}}

\* build_processor() of each that is configured.
BuildProcessors ==
    /\ stage = "building" /\ built = Places
    /\ looked' = looked \cup ProcessorLookUps
    /\ IF ProcessorLookUps \subseteq services
       THEN stage' = "attaching" /\ UNCHANGED <<app, registered, services, built, capturing, trouble>>
       ELSE Stop("failed", "service")

\* Whether it has a stack of processors; of a service, the application knows.
Processable(i) ==
    /\ app.handlers[i].kind \notin {"null", "stdlib", "queue"}
    /\ app.handlers[i].kind = "service" => Filled(app.handlers[i].names) \notin app.plain

\* What may be wrong with the target of a processor, configured or declared; of
\* several that are wrong, any may be found first.
Wrong(p) ==
    {why \in {"channel", "handler", "processable"} :
        CASE why = "channel" -> p.channel # Anonymous /\ Filled(p.channel) \notin AllChannels("filled")
          [] why = "handler" -> p.handler # Anonymous /\ p.handler \notin Places
          [] OTHER           -> p.handler \in Places /\ ~Processable(p.handler)}

\* A slip: the capture is installed before processors are attached.
AttachLast ==
    /\ stage = "attaching"
    /\ capturing' = app.capture.on
    /\ \/ \E why \in UNION {Wrong(p) : p \in Range(app.processors \o app.declared)} :
              trouble' = why /\ stage' = "failed"
       \/ /\ \A p \in Range(app.processors \o app.declared) : Wrong(p) = {}
          /\ stage' = "attached" /\ UNCHANGED trouble
    /\ UNCHANGED <<app, registered, services, built, looked>>

\* _attach_handler_processors(): ProcessorRegistry has in which order they run.
AttachProcessors ==
    /\ stage = "attaching"
    /\ \/ \E why \in UNION {Wrong(p) : p \in Range(app.processors \o app.declared)} : Stop("failed", why)
       \/ /\ \A p \in Range(app.processors \o app.declared) : Wrong(p) = {}
          /\ stage' = "attached"
          /\ UNCHANGED <<app, registered, services, built, capturing, trouble>>
    /\ UNCHANGED looked

\* The channels of the loggers that _build_capture() asks for: the default one
\* if the capture names none, and that of each standard logger that has its own.
Captured ==
    LET own == app.capture.channel
    IN  {IF own = Anonymous THEN Filled(app.default) ELSE Filled(own)}
        \cup {Filled(c) : c \in Range(app.capture.loggers) \ {Anonymous}}

\* _build_capture() and install(): the last thing that may fail has been done.
TakeOver ==
    /\ stage = "attached"
    /\ IF app.capture.on /\ ~(Captured \subseteq AllChannels("filled"))
       THEN Stop("failed", "channel")
       ELSE /\ stage' = "started"
            /\ capturing' = app.capture.on
            /\ UNCHANGED <<app, registered, services, built, trouble>>
    /\ UNCHANGED looked

\* A logger is asked for, by the name it was registered with, and the factory has
\* none of that name; what it does with one it has is in LoggerFactory.
AskLogger(c) ==
    /\ stage = "started" /\ c \in registered /\ trouble = "none"
    /\ c \notin AllChannels("filled")
    /\ trouble' = "channel"
    /\ UNCHANGED <<app, stage, registered, services, built, capturing, looked>>

\* The container closes: the factory gives the standard library its logging back.
Shutdown ==
    /\ stage = "started"
    /\ stage' = "closed"
    /\ capturing' = FALSE
    /\ UNCHANGED <<app, registered, services, built, trouble, looked>>

BundleInit ==
    /\ app \in Applications
    /\ stage = "loading" /\ trouble = "none" /\ capturing = FALSE
    /\ registered = {} /\ services = {} /\ built = {} /\ looked = {}

BundleNext ==
    \/ LoadExtension \/ Process \/ ResolveServices
    \/ \E i \in Places : BuildHandler(i)
    \/ BuildProcessors \/ AttachProcessors \/ TakeOver
    \/ \E c \in registered : AskLogger(c)
    \/ Shutdown

BundleSpec == BundleInit /\ [][BundleNext]_bundleVars

-----------------------------------------------------------------------------
(* Properties *)

BundleTypeOK ==
    /\ stage \in {"loading", "loaded", "refused", "accepted", "building", "attaching", "attached",
              "started",
                  "failed", "closed"}
    /\ trouble \in {"none", "service", "channel", "handler", "processable"}
    /\ services \subseteq app.holds /\ built \subseteq Places /\ capturing \in BOOLEAN

Asked == (UNION {LookUps(i) : i \in Places}) \cup ProcessorLookUps

\* Two walks over the configuration agree, the bundle's before anything is made
\* and the builder's, where a service is used: a configuration without
\* placeholders that was accepted never misses a service, one that was refused
\* would have, and no service is made that nothing looks up.
NamedIsUsed ==
    /\ DOMAIN app.fills = {} =>
           /\ stage \notin {"loading", "loaded", "refused"} => trouble # "service"
           /\ stage = "refused" => ~(Asked \subseteq app.holds)
    /\ stage \in {"started", "closed"} => looked = services

\* A start that fails leaves the standard library as it was; one that does not
\* has taken it over once all is in place, and gives it back.
NothingToUndo ==
    /\ capturing => stage = "started" /\ built = Places
    /\ stage = "started" /\ app.capture.on => capturing

\* Each logger that the container was told of is one the factory has, and each
\* channel of the factory has one in the container, unless a channel was written
\* as a placeholder.  A configuration that was found sound (LoggingConfig) is not
\* at fault where a channel is missing: a declaration is.
LoggersAreThere ==
    /\ stage = "started" /\ DOMAIN app.fills = {} =>
           registered = AllChannels("filled") /\ trouble = "none"
    /\ trouble = "channel" =>
           DOMAIN app.fills # {} \/ \E p \in Range(app.declared) : "channel" \in Wrong(p)
=============================================================================
