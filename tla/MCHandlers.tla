------------------------------- MODULE MCHandlers -------------------------------
(***************************************************************************)
(* Logger, and beside it RotatingFileHandler, LazyHandler, SyslogHandler   *)
(* and LogContext, each with variables of its own.  MCPieces runs them one *)
(* at a time; PiecesProofs proves what is said of them here.               *)
(***************************************************************************)
EXTENDS Logger

CONSTANTS
    Rotators, Dates, Rotations,
    Users, Severities, Uses,
    Tasks, First, Names, MaxSteps,
    Senders, Services

VARIABLES
    rotation, current, stream, directory, batch, written, dated, came, closes,
    use, wrapped, factory, accepted, path, holds, done, needed, thrown, others,
    mappings, ambient, blocks, steps, inherited, own,
    service, up, outages, transport, sockets, place, using, begun, shutdowns, calm, sent

Ro == INSTANCE RotatingFileHandler
La == INSTANCE LazyHandler
Cx == INSTANCE LogContext
Sy == INSTANCE SyslogHandler WITH
    at <- place, held <- using, closes <- shutdowns, written <- sent

ASSUME HandlersAssumption ==
    /\ Ro!RotatingAssumption /\ La!LazyAssumption /\ Cx!ContextAssumption /\ Sy!SyslogAssumption

rotVars == <<rotation, current, stream, directory, batch, written, dated, came, closes>>
lazVars == <<use, wrapped, factory, accepted, path, holds, done, needed, thrown, others>>
ctxVars == <<mappings, ambient, blocks, steps, inherited, own>>
sysVars == <<service, up, outages, transport, sockets, place, using, begun, shutdowns, calm, sent>>

-----------------------------------------------------------------------------
\* The whole stack as it was is given a record, once; a thread's depth is that
\* of its calls, however they end, and cuts a loop.
StackAndDepth == WholeStack /\ DepthExact /\ LoopsAreCut

\* Records are in the file of their date; the newest files stay, and few do.
FilesAreKept == Ro!OwnDate /\ Ro!NewestSurvive /\ Ro!FewFiles
ReplayLands  == Ro!ReplayLands

\* A wrapped handler is built when it is needed, stays, and fails only as its
\* factory does.
SettlesForGood ==
    /\ [](La!QuietCostsNothing /\ La!OnlyTheFactoryFails /\ La!NothingOrphaned)
    /\ [][La!Stays]_lazVars

\* What a task binds is its own, and leaving a block puts back what was there.
BoundIsOwn == []Cx!Isolated /\ [][\A t \in Tasks : Cx!PutsBack(t)]_ctxVars

\* A record that no socket takes is raised, a daemon that comes back is found,
\* and no connection is left behind.
SentOrRaised == Sy!TakenOrRaised /\ Sy!ComesBack /\ Sy!OneConnection
=============================================================================
