---------------------------- MODULE ConsoleHandler ----------------------------
(***************************************************************************)
(* handler/console_handler.py with verbosity.py: a handler whose level is  *)
(* that of the verbosity of a command, and whose formatter is built on the *)
(* first record for the stream of that moment and dropped when the stream  *)
(* is set.  Nothing is locked: each step is a read or a write of one       *)
(* attribute, or several of which only one is shared.                      *)
(***************************************************************************)
EXTENDS Naturals, FiniteSets

CONSTANTS
    Watchers,   \* the threads there may be
    Streams,
    Terminals,  \* the streams that are terminals
    Unset,      \* None
    Ranks,      \* the levels, which are numbers
    Highest,    \* EMERGENCY
    Commands    \* bound: for each, what is done
                \*   loggers   the threads that log
                \*   setters   the threads that set, and swap sys.stderr
                \*   levels    the defaults, with verbosity_levels over them
                \*   logged    the levels of the records
                \*   flags     what a command may be started with
                \*   swaps     whether sys.stderr is swapped
                \*   records, settings   how often

SILENT       == 8
QUIET        == 16
NORMAL       == 32
VERBOSE      == 64
VERY_VERBOSE == 128
DEBUGGING    == 256 \* Verbosity.DEBUG
Verbosities  == {SILENT, QUIET, NORMAL, VERBOSE, VERY_VERBOSE, DEBUGGING}

ConsoleAssumption ==
    /\ Terminals \subseteq Streams /\ Ranks \subseteq Nat /\ Highest \in Ranks
    /\ \A c \in Commands :
        /\ c.loggers \subseteq Watchers /\ c.setters \subseteq Watchers
        /\ c.logged \subseteq Ranks
        /\ Verbosities \ {SILENT} \subseteq DOMAIN c.levels
        /\ \A v \in DOMAIN c.levels : c.levels[v] \in Ranks

VARIABLES
    command,        \* one of Commands
    verbosity, threshold,       \* _verbosity, _level
    output, colors,             \* _stream, _colors
    formatter, builtFormatter,  \* _formatter, _built_formatter
    stderr,         \* sys.stderr
    frame,          \* frame[t]: where t is, and its local variables
    count,          \* what was done: records, settings, formatters built
    shown,          \* history: the record that was written last
    before,         \* history: the verbosity that is being replaced, or Unset
    byHand          \* history: the formatter that was set last, or Unset

consoleVars == <<command, verbosity, threshold, output, colors, formatter, builtFormatter, stderr,
                 frame, count, shown, before, byHand>>

\* Verbosity.from_count
FromCount(f) ==
    CASE f.silent -> SILENT
      [] ~f.silent /\ f.quiet -> QUIET
      [] OTHER -> IF f.verbose >= 3 THEN DEBUGGING
                  ELSE <<NORMAL, VERBOSE, VERY_VERBOSE>>[f.verbose + 1]

LevelFor(v) == IF v \in DOMAIN command.levels THEN command.levels[v] ELSE Highest

Idle == [at |-> "idle"]
Goes(t, f) == frame' = [frame EXCEPT ![t] = f]
MoveTo(t, at) == Goes(t, [frame[t] EXCEPT !.at = at])
Counted(what) == count' = [count EXCEPT ![what] = @ + 1]

-----------------------------------------------------------------------------
(* A record *)

\* A slip: the level alone decides.
SpeaksAnyway == TRUE

\* is_handling() reads the verbosity, then the level.
Speaks == verbosity # SILENT
Handle(t, r) ==
    /\ t \in command.loggers /\ frame[t].at = "idle" /\ count.records < command.records
    /\ Counted("records")
    /\ Goes(t, IF Speaks THEN [at |-> "level", rank |-> r, made |-> Unset, text |-> Unset,
                               under |-> {verbosity, before} \ {Unset}]
               ELSE Idle)
    /\ UNCHANGED <<command, verbosity, threshold, output, colors, formatter, builtFormatter, stderr,
                   shown, before, byHand>>

\* What a step of a record leaves as it is.
Untouched == <<command, verbosity, threshold, output, colors, stderr, before, byHand>>

ReadLevel(t) ==
    /\ frame[t].at = "level"
    /\ IF frame[t].rank >= threshold THEN MoveTo(t, "look") ELSE Goes(t, Idle)
    /\ UNCHANGED <<Untouched, formatter, builtFormatter, count, shown>>

\* The formatter is looked for, and read again to be used.
LookForFormatter(t) ==
    /\ frame[t].at = "look"
    /\ MoveTo(t, IF formatter = Unset THEN "colors" ELSE "use")
    /\ UNCHANGED <<Untouched, formatter, builtFormatter, count, shown>>

Resolved == IF output # Unset THEN output ELSE stderr
Coloured == IF colors # Unset THEN colors ELSE Resolved \in Terminals

DefaultFormatter(t) ==
    /\ frame[t].at = "colors"
    /\ Counted("built")
    /\ Goes(t, [frame[t] EXCEPT !.at = "remember", !.made = [serial |-> count'.built, coloured |-> Coloured]])
    /\ UNCHANGED <<Untouched, formatter, builtFormatter, shown>>

\* A slip: the handler does not know its own formatter.
NotRemember(f) == UNCHANGED builtFormatter

Remember(f) == builtFormatter' = f
RememberBuilt(t) ==
    /\ frame[t].at = "remember"
    /\ Remember(frame[t].made) /\ MoveTo(t, "install")
    /\ UNCHANGED <<Untouched, formatter, count, shown>>

Install(t) ==
    /\ frame[t].at = "install"
    /\ formatter' = frame[t].made /\ MoveTo(t, "use")
    /\ UNCHANGED <<Untouched, builtFormatter, count, shown>>

\* With None, which has no format(), the record is lost and its caller raised at.
UseFormatter(t) ==
    /\ frame[t].at = "use"
    /\ Goes(t, IF formatter = Unset THEN Idle ELSE [frame[t] EXCEPT !.at = "pick", !.text = formatter])
    /\ UNCHANGED <<Untouched, formatter, builtFormatter, count, shown>>

Write(t, to) ==
    /\ Goes(t, Idle)
    /\ shown' = [rank |-> frame[t].rank, under |-> frame[t].under, text |-> frame[t].text, to |-> to]

\* The stream is looked for, and read again to be written to; None has no write().
Pick(t) ==
    /\ frame[t].at = "pick"
    /\ IF output = Unset THEN Write(t, stderr) ELSE MoveTo(t, "write") /\ UNCHANGED shown
    /\ UNCHANGED <<Untouched, formatter, builtFormatter, count>>
WriteStream(t) ==
    /\ frame[t].at = "write"
    /\ IF output = Unset THEN Goes(t, Idle) /\ UNCHANGED shown ELSE Write(t, output)
    /\ UNCHANGED <<Untouched, formatter, builtFormatter, count>>

-----------------------------------------------------------------------------
(* What is set *)

Sets(t) ==
    /\ t \in command.setters /\ frame[t].at = "idle" /\ count.settings < command.settings
    /\ Counted("settings")

\* The records that are on their way have this verbosity as well.
Seen(v) == [u \in Watchers |-> IF "under" \in DOMAIN frame[u] THEN [frame[u] EXCEPT !.under = @ \cup {v}]
                               ELSE frame[u]]

SetVerbosity(t, v) ==
    /\ Sets(t)
    /\ verbosity' = v /\ before' = verbosity
    /\ frame' = [Seen(v) EXCEPT ![t] = [at |-> "set_level", level |-> LevelFor(v)]]
    /\ UNCHANGED <<command, threshold, output, colors, formatter, builtFormatter, stderr, shown, byHand>>

SetLevel(t) ==
    /\ frame[t].at = "set_level"
    /\ threshold' = frame[t].level /\ before' = Unset /\ Goes(t, Idle)
    /\ UNCHANGED <<command, verbosity, output, colors, formatter, builtFormatter, stderr, count, shown, byHand>>

SetStream(t, s, c) ==
    /\ Sets(t)
    /\ output' = s /\ Goes(t, [at |-> "set_colors", colors |-> c])
    /\ UNCHANGED <<command, verbosity, threshold, colors, formatter, builtFormatter, stderr, shown, before, byHand>>

SetColors(t) ==
    /\ frame[t].at = "set_colors"
    /\ colors' = frame[t].colors /\ Goes(t, [at |-> "compare"])
    /\ UNCHANGED <<command, verbosity, threshold, output, formatter, builtFormatter, stderr, count, shown, before, byHand>>

\* A slip: any formatter is dropped.
WhicheverItIs == TRUE

ItsOwn == formatter = builtFormatter
Compare(t) ==
    /\ frame[t].at = "compare"
    /\ Goes(t, IF ItsOwn THEN [at |-> "drop"] ELSE Idle)
    /\ UNCHANGED <<command, verbosity, threshold, output, colors, formatter, builtFormatter, stderr, count, shown,
                   before, byHand>>
Drop(t) ==
    /\ frame[t].at = "drop"
    /\ formatter' = Unset /\ Goes(t, Idle)
    /\ UNCHANGED <<command, verbosity, threshold, output, colors, builtFormatter, stderr, count, shown, before, byHand>>

\* A formatter of the application's, which may colour or not.
SetFormatter(t) ==
    /\ Sets(t)
    /\ formatter' = [serial |-> 0, coloured |-> FALSE] /\ byHand' = formatter'
    /\ UNCHANGED <<command, verbosity, threshold, output, colors, builtFormatter, stderr, frame, shown, before>>

SwapStderr(t, s) ==
    /\ command.swaps /\ Sets(t) /\ stderr' = s
    /\ UNCHANGED <<command, verbosity, threshold, output, colors, formatter, builtFormatter, frame, shown, before, byHand>>

Init ==
    /\ command \in Commands
    /\ verbosity = NORMAL /\ threshold = LevelFor(NORMAL)
    /\ output \in Streams \cup {Unset} /\ colors = Unset /\ stderr \in Streams
    /\ formatter = Unset /\ builtFormatter = Unset
    /\ frame = [t \in Watchers |-> Idle]
    /\ count = [records |-> 0, settings |-> 0, built |-> 0]
    /\ shown = Unset /\ before = Unset /\ byHand = Unset

Next ==
    \E t \in Watchers :
        \/ \E r \in command.logged : Handle(t, r)
        \/ ReadLevel(t) \/ LookForFormatter(t) \/ DefaultFormatter(t) \/ RememberBuilt(t) \/ Install(t)
        \/ UseFormatter(t) \/ Pick(t) \/ WriteStream(t)
        \/ \E f \in command.flags : SetVerbosity(t, FromCount(f))
        \/ \E s \in Streams \cup {Unset}, c \in BOOLEAN \cup {Unset} : SetStream(t, s, c)
        \/ SetLevel(t) \/ SetColors(t) \/ Compare(t) \/ Drop(t)
        \/ SetFormatter(t) \/ \E s \in Streams : SwapStderr(t, s)

Spec == Init /\ [][Next]_consoleVars

-----------------------------------------------------------------------------
(* Properties *)

Made == [serial : Nat, coloured : BOOLEAN]
TypeOK ==
    /\ verbosity \in Verbosities /\ threshold \in Ranks
    /\ output \in Streams \cup {Unset} /\ colors \in BOOLEAN \cup {Unset} /\ stderr \in Streams
    /\ {formatter, builtFormatter, byHand} \ {Unset} \subseteq Made
    /\ before \in Verbosities \cup {Unset}

\* A record that is written is one that a verbosity lets by which was set, or
\* about to be replaced, while the record was handled: silent lets none by.
SaysNoMore ==
    shown # Unset => \E v \in shown.under \ {SILENT} : shown.rank >= LevelFor(v)

Alone == Cardinality(command.loggers \cup command.setters) = 1

\* To one thread: a formatter that was set by hand is kept, whatever
\* set_stream() does afterwards.
HandKept == Alone /\ byHand # Unset => formatter = byHand

ShowsColours ==
    Alone /\ ~command.swaps /\ shown' # shown /\ shown'.text # byHand => shown'.text.coloured = Coloured
\* To one thread: what the handler's own formatter makes of a record is
\* coloured as set_stream() said it should be, or as the stream that it is
\* written to is a terminal.  (With a sys.stderr that is swapped it is not:
\* the formatter was built for the one before.)
RightColours == [][ShowsColours]_consoleVars
=============================================================================
