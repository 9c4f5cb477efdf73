------------------------------ MODULE MCPieces ------------------------------
(***************************************************************************)
(* Logger, RotatingFileHandler, ProcessorRegistry, LazyHandler,            *)
(* RedactingProcessor, LogContext, ConsoleHandler, Normalizer,             *)
(* LineFormatter and SyslogHandler, each by itself: a behaviour is one of  *)
(* the piece it starts with, and the state of the others stays as it is.   *)
(* The constants of those that MCHandlers does not hold are here and in    *)
(* MCText.                                                                 *)
(***************************************************************************)
EXTENDS MCHandlers, MCText

CONSTANTS
    Pieces,         \* those a run is about
    t1, a, b, h1, h2, h3,
    audit, debug,
    Functions, Classes, Channels, Stacks, Plain, Everywhere, Declarations, Offers, Configured,
    MaxDeclared, MaxFactories,
    fn, other, cls, web, billing, disk, wire, gone,
    t2, e1, e2, e3, NoError, s1, s2, s3, tty, pipe, Unset

VARIABLES
    piece,
    functions, classes, instances, bindings, marks, made, factories, declared,
    chain, walk, became, copied,
    command, verbosity, threshold, output, colors, formatter, builtFormatter, stderr, frame, count,
    shown, before, byHand

Re == INSTANCE ProcessorRegistry

\* One thread, with a factory that raises, then with one that logs; two threads.
AllUses ==
    {[kind |-> "filter", threads |-> {t1}, echoes |-> FALSE, fails |-> TRUE, logs |-> 3, others |-> 3],
     [kind |-> "sampling", threads |-> {t1}, echoes |-> TRUE, fails |-> TRUE, logs |-> 3, others |-> 2],
     [kind |-> "sampling", threads |-> {t1, t2}, echoes |-> FALSE, fails |-> TRUE, logs |-> 3, others |-> 2],
     [kind |-> "filter", threads |-> {t1, t2}, echoes |-> TRUE, fails |-> FALSE, logs |-> 3, others |-> 1]}

\* Three errors, linked in any way, of which one has a secret, linked to the
\* first or not; the two that were not logged are alike.
Failures == {e1, e2, e3}
AllLinks == [Failures -> Failures \cup {NoError}]
AllPairs == AllLinks \X AllLinks
AllChains ==
    {[link |-> [l \in {"cause", "context"} |-> IF l = "cause" THEN p[1] ELSE p[2]], secret |-> x] :
        p \in AllPairs, x \in {{e1}, {e2}}}
Unlinked == CHOOSE c \in AllChains : \A l \in {"cause", "context"}, e \in Failures : c.link[l][e] = NoError
Rd == INSTANCE RedactingProcessor WITH Errors <- Failures, Logged <- e1, Chains <- AllChains

(* ConsoleHandler: one thread, with SILENT mapped to a level; with a       *)
(* sys.stderr that is swapped; a thread that logs while another sets.      *)
Flags(n, q, s) == [verbose |-> n, quiet |-> q, silent |-> s]
Defaults == 16 :> 400 @@ 32 :> 300 @@ 64 :> 250 @@ 128 :> 200 @@ 256 :> 100
OneThread ==
    [loggers |-> {t1}, setters |-> {t1}, levels |-> 8 :> 100 @@ Defaults, logged |-> {200, 600},
     flags |-> {Flags(1, FALSE, FALSE), Flags(2, FALSE, TRUE)},
     swaps |-> FALSE, records |-> 2, settings |-> 2]
AllCommands ==
    {OneThread, [OneThread EXCEPT !.swaps = TRUE],
     [OneThread EXCEPT !.setters = {t2}, !.levels = Defaults, !.logged = {250, 400}, !.records = 1,
        !.flags = {Flags(3, FALSE, FALSE), Flags(3, TRUE, FALSE), Flags(0, TRUE, TRUE)}]}
Co == INSTANCE ConsoleHandler WITH Watchers <- {t1, t2}, Streams <- {tty, pipe}, Terminals <- {tty},
    Ranks <- {100, 200, 250, 300, 400, 600}, Highest <- 600, Commands <- AllCommands

ASSUME PiecesAssumption ==
    /\ Re!RegistryAssumption /\ Rd!RedactingAssumption /\ Co!ConsoleAssumption
    /\ No!NormalizerAssumption /\ Li!LineAssumption

-----------------------------------------------------------------------------
(* Logger: both loggers share a handler that accepts nothing, then one     *)
(* that does.                                                              *)
Shared == [l \in Loggers |-> IF l = a THEN <<h1, h2, h3>> ELSE <<h2>>]

(* RotatingFileHandler *)
Own == [h \in Rotators |-> {h}]

\* Two files are kept, three were left; a batch over midnight.
Kept == [handlers |-> {audit}, maxFiles |-> 2, matching |-> Own, frail |-> FALSE,
         leftover |-> {<<audit, 1>>, <<audit, 2>>, <<audit, 3>>},
         batches |-> {<<2, 2, 3>>}, writes |-> 4, closes |-> 2]
\* Opening and writing fail.
Frail == [Kept EXCEPT !.maxFiles = 1, !.frail = TRUE, !.leftover = {}]
\* One file is kept; the pattern of one handler matches the files of the other.
Overlap == [Kept EXCEPT !.maxFiles = 1, !.handlers = {audit, debug}, !.matching[audit] = {audit, debug},
                        !.leftover = {}, !.batches = {}, !.writes = 3, !.closes = 1]
AllRotations == {Kept, Frail, Overlap}
\* One file is kept, and nothing fails.
OneKept == {[Frail EXCEPT !.frail = FALSE]}

(* ProcessorRegistry: a function and a class for the same places, a        *)
(* channel that is not there and a handler that runs no processors.        *)
D(c, h, p) == [channel |-> c, handler |-> h, priority |-> p]
Anywhere == D(Everywhere, Everywhere, 1)
SomeDeclarations ==
    {Anywhere, D(billing, Everywhere, 1), D(Everywhere, disk, 0), D(Everywhere, disk, 2),
     D(gone, Everywhere, 0)}
SomeOffers ==
    {[target |-> fn, at |-> Anywhere],
     [target |-> fn, at |-> D(Everywhere, disk, 0)],
     [target |-> cls, at |-> D(Everywhere, disk, 2)],
     [target |-> cls, at |-> D(billing, Everywhere, 1)],
     [target |-> fn, at |-> D(gone, Everywhere, 0)]}
OneConfigured ==
    <<[target |-> other, at |-> Anywhere], [target |-> other, at |-> D(Everywhere, disk, 2)]>>

-----------------------------------------------------------------------------
regVars == <<functions, classes, instances, bindings, marks, made, factories, declared>>
redVars == <<chain, walk, became, copied>>
conVars == <<command, verbosity, threshold, output, colors, formatter, builtFormatter, stderr, frame,
             count, shown, before, byHand>>
norVars == <<whole, value, limits, told>>
linVars == <<entry, record, format, style, line>>

PiecesInit ==
    /\ piece \in Pieces
    /\ Init /\ Re!Init /\ Cx!Init
    /\ Ro!Init /\ (piece # "rotating" => rotation = CHOOSE r \in Rotations : TRUE)
    /\ La!Init /\ (piece # "lazy" => use.kind = "filter" /\ ~use.echoes)
    /\ Co!Init /\ (piece # "console" => command.swaps /\ output = Unset /\ stderr = tty)
    /\ IF piece = "redacting" THEN Rd!Init ELSE Rd!Begins(Unlinked)
    /\ IF piece = "normalizer" THEN No!Init
       ELSE No!Begins(CHOOSE v \in AllValues : TRUE, CHOOSE l \in AllLimits : TRUE)
    /\ IF piece = "line" THEN Li!Init
       ELSE Li!Begins(CHOOSE r \in SomeRecords : TRUE, CHOOSE f \in SomeFormats : TRUE, CHOOSE x \in SomeStyles : TRUE)
    /\ IF piece = "syslog" THEN Sy!Init ELSE Sy!Begins(CHOOSE s \in Services : TRUE, TRUE)

PiecesNext ==
    \/ piece = "logger" /\ Next
       /\ UNCHANGED <<piece, rotVars, regVars, lazVars, redVars, ctxVars, conVars, norVars, linVars, sysVars>>
    \/ piece = "rotating" /\ Ro!Next
       /\ UNCHANGED <<piece, vars, regVars, lazVars, redVars, ctxVars, conVars, norVars, linVars, sysVars>>
    \/ piece = "registry" /\ Re!Next
       /\ UNCHANGED <<piece, vars, rotVars, lazVars, redVars, ctxVars, conVars, norVars, linVars, sysVars>>
    \/ piece = "lazy" /\ La!Next
       /\ UNCHANGED <<piece, vars, rotVars, regVars, redVars, ctxVars, conVars, norVars, linVars, sysVars>>
    \/ piece = "redacting" /\ Rd!Next
       /\ UNCHANGED <<piece, vars, rotVars, regVars, lazVars, ctxVars, conVars, norVars, linVars, sysVars>>
    \/ piece = "context" /\ Cx!Next
       /\ UNCHANGED <<piece, vars, rotVars, regVars, lazVars, redVars, conVars, norVars, linVars, sysVars>>
    \/ piece = "console" /\ Co!Next
       /\ UNCHANGED <<piece, vars, rotVars, regVars, lazVars, redVars, ctxVars, norVars, linVars, sysVars>>
    \/ piece = "normalizer" /\ No!Next
       /\ UNCHANGED <<piece, vars, rotVars, regVars, lazVars, redVars, ctxVars, conVars, linVars, sysVars>>
    \/ piece = "line" /\ Li!Next
       /\ UNCHANGED <<piece, vars, rotVars, regVars, lazVars, redVars, ctxVars, conVars, norVars, sysVars>>
    \/ piece = "syslog" /\ Sy!Next
       /\ UNCHANGED <<piece, vars, rotVars, regVars, lazVars, redVars, ctxVars, conVars, norVars, linVars>>

PiecesSpec ==
    PiecesInit /\ [][PiecesNext]_<<piece, vars, rotVars, regVars, lazVars, redVars, ctxVars,
                                   conVars, norVars, linVars, sysVars>>

\* What holds of each: see the modules, where the parts are stated one by one.
PiecesTypeOK ==
    /\ piece \in Pieces /\ TypeOK /\ Ro!TypeOK /\ Re!TypeOK /\ La!TypeOK /\ Rd!TypeOK /\ Cx!TypeOK
    /\ Co!TypeOK /\ No!TypeOK /\ Li!TypeOK /\ Sy!TypeOK

\* Each declaration runs once, higher priorities first, a class as one instance.
DeclaredRunOnce == Re!HigherFirst /\ Re!OncePerDeclaration /\ Re!OneInstance
TiesAsDeclared  == Re!TiesAsDeclared

\* A chain is masked wherever it leads, without losing a link or its end.
ChainIsMasked == Rd!NoSecretLeft /\ Rd!ChainEnds /\ Rd!NothingDropped

\* What is written of a value and of a record is what was logged: masked whole,
\* cut where a limit says, each entry by its own token and once.
WrittenAsLogged ==
    /\ No!MaskedAndWhole /\ No!CutShort /\ No!AsDeepAsTold /\ No!ToldOnce
    /\ Li!OwnEntry /\ Li!PrintedOnce /\ Li!TakenForText

\* The console prints what its verbosity lets by, with the formatter it was
\* given, in colours that fit its stream.
AsItWasTold ==
    /\ [](Co!SaysNoMore /\ Co!HandKept)
    /\ [][Co!ShowsColours]_<<piece, conVars>>
=============================================================================
