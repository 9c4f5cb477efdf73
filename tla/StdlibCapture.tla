---------------------------- MODULE StdlibCapture ----------------------------
(***************************************************************************)
(* StdlibCapture (bridge/stdlib/stdlib_capture.py): while a capture is     *)
(* installed, its one handler on the root logger replaces every handler of *)
(* the standard library; what it moves aside, and what is attached in the  *)
(* meantime, is put back when it is released.  Captures nest and may be    *)
(* released in any order.                                                  *)
(*                                                                         *)
(* The standard library's tree of loggers is outside the repository: a     *)
(* logger has a list of handlers, a level and two flags.  The handler of a *)
(* capture is named by the capture, and a level by who set it.             *)
(* install(), release() and each call of the application are one step:     *)
(* the calls of one thread.  A record that is logged is handled by one     *)
(* capture after the other, a step each, before the next call.             *)
(***************************************************************************)
EXTENDS Naturals, Sequences, SequencesExt, FiniteSets, Selection

CONSTANTS
    Loggers, Root,
    Lineage,        \* Lineage[l]: l, its parent, and so on up to the root
    Captures,       \* captures, each with a handler of its own
    Named,          \* Named[c]: the loggers c sets a level for
    Handlers,       \* the handlers of the application
    Wired,          \* Wired[l]: the handlers a logger starts with
    AtStart,        \* the loggers that exist at the start
    Usages,         \* what there is in a run, see below
    Application,    \* who sets the levels that no capture set
    LastResort,     \* the standard library's own last resort
    NotTaken        \* the capture has not taken the logger over

\* A usage bounds what happens:
\*   captures, installs: which captures there are and how often one is installed;
\*   may, calls: the kinds of calls the application makes, and how many;
\*   nested: whether it touches handlers while more than one is installed.
Kinds == {"add", "remove", "flags", "create", "log", "put", "copy"}

Anyone  == Handlers \cup Captures
Flags   == [level : Captures \cup {Application}, propagate : BOOLEAN, disabled : BOOLEAN]
Kept    == [handlers : Seq(Anyone), flags : Flags]
Default == [level |-> Application, propagate |-> TRUE, disabled |-> FALSE]

\* No logger is its own parent; the standard library refuses to attach a handler
\* twice, and makes a logger with none.
CaptureAssumption ==
    /\ Root \in AtStart /\ AtStart \subseteq Loggers
    /\ \A l \in Loggers :
           /\ Lineage[l] \in Seq(Loggers) /\ IsInjective(Lineage[l])
           /\ Head(Lineage[l]) = l /\ Last(Lineage[l]) = Root
    /\ Named \in [Captures -> SUBSET Loggers]
    /\ Wired \in [Loggers -> Seq(Handlers)]
    /\ \A l \in Loggers : IsInjective(Wired[l]) /\ (l \notin AtStart => Wired[l] = <<>>)
    /\ \A s \in Usages :
           /\ s.captures \subseteq Captures /\ s.installs \in Nat
           /\ s.may \subseteq Kinds /\ s.calls \in Nat /\ s.nested \in BOOLEAN
    /\ Captures \cap (Handlers \cup {LastResort, Application}) = {} /\ NotTaken \notin Kept

VARIABLES
    usage,
    known,      \* the loggers that exist
    handlers,   \* handlers[l]: what is attached to l
    flags,      \* flags[l]: its level, propagate and disabled
    resort,     \* logging.lastResort
    captures,   \* _captures
    saved,      \* saved[c][l]: _saved of c
    former,     \* former[c]: _last_resort of c
    hearing,    \* <<c, l>> for the captures that a record logged on l is still to go to
    calls, installs,
    plain,      \* history: what would be attached to l with no capture
    found,      \* history: the flags l would have
    strayed     \* history: whether a capture that is not the last took a logger over

stdVars  == <<known, handlers, flags, resort>>
capVars  == <<captures, saved, former>>
historyVars == <<plain, found, strayed>>
captureVars == <<usage, stdVars, capVars, hearing, calls, installs, historyVars>>

CaptureInit ==
    /\ usage \in Usages
    /\ known = AtStart
    /\ handlers = Wired /\ plain = Wired
    /\ flags = [l \in Loggers |-> Default] /\ found = flags
    /\ resort = LastResort
    /\ captures = <<>>
    /\ saved = [c \in Captures |-> [l \in Loggers |-> NotTaken]]
    /\ former = [c \in Captures |-> LastResort]
    /\ hearing = <<>> /\ calls = 0 /\ installs = 0 /\ strayed = FALSE

-----------------------------------------------------------------------------
(* _take_over() *)

With(s, h)    == IF h \in Range(s) THEN s ELSE Append(s, h)
Without(s, h) == Selected(s, Anyone \ {h})
Only(s, h)    == Selected(s, {h})

\* A slip: the flags are not remembered.
BeforeDefault(c, l) ==
    IF saved[c][l] = NotTaken THEN [handlers |-> <<>>, flags |-> Default] ELSE saved[c][l]

\* What _saved says of a logger that is about to be taken over.
Before(c, l) ==
    IF saved[c][l] = NotTaken THEN [handlers |-> <<>>, flags |-> flags[l]] ELSE saved[c][l]

Foreign(c, l) == Selected(handlers[l], Anyone \ ({c} \cup Range(Before(c, l).handlers)))

\* _saved of c once the loggers ls are taken over.
Saving(c, ls) ==
    [l \in Loggers |->
        IF l \in ls THEN [Before(c, l) EXCEPT !.handlers = @ \o Foreign(c, l)] ELSE saved[c][l]]

Cleared(c, ls) == [l \in Loggers |-> IF l \in ls THEN Only(handlers[l], c) ELSE handlers[l]]

Opened(ls) ==
    [l \in Loggers |->
        IF l \in ls THEN [flags[l] EXCEPT !.propagate = TRUE, !.disabled = FALSE] ELSE flags[l]]

TakeOver(c, ls) ==
    /\ saved' = [saved EXCEPT ![c] = Saving(c, ls)]
    /\ handlers' = Cleared(c, ls)
    /\ flags' = Opened(ls)

-----------------------------------------------------------------------------
(* install() and release() *)

Top == Last(captures)

\* A slip: the last resort is left as it is.
KeepResort(c) == UNCHANGED <<resort, former>>

BeLastResort(c) ==
    /\ former' = [former EXCEPT ![c] = resort]
    /\ resort' = c

\* `installed`: a released capture may have taken loggers over again.
Install(c) ==
    /\ hearing = <<>>
    /\ c \in usage.captures \ Range(captures)
    /\ \A l \in Loggers : saved[c][l] = NotTaken
    /\ installs < usage.installs
    /\ installs' = installs + 1
    /\ captures' = Append(captures, c)
    /\ known' = known \cup Named[c]
    /\ saved' = [saved EXCEPT ![c] = Saving(c, known')]
    /\ handlers' = [Cleared(c, known') EXCEPT ![Root] = With(@, c)]
    /\ flags' = [l \in Loggers |->
           IF l \in Named[c] \cup {Root} THEN [Opened(known')[l] EXCEPT !.level = c]
           ELSE Opened(known')[l]]
    /\ BeLastResort(c)
    /\ UNCHANGED <<usage, hearing, calls, historyVars>>

\* The last installed puts back what it found.
PutBack(c) ==
    /\ handlers' = [l \in Loggers |->
           IF saved[c][l] # NotTaken THEN saved[c][l].handlers
           ELSE IF l = Root THEN Without(handlers[l], c) ELSE handlers[l]]
    /\ flags' = [l \in Loggers |-> IF saved[c][l] # NotTaken THEN saved[c][l].flags ELSE flags[l]]
    /\ resort' = former[c]
    /\ saved' = [saved EXCEPT ![c] = [l \in Loggers |-> NotTaken]]
    /\ UNCHANGED former

\* A slip: the handler of the capture that goes is kept.
AllAdded(c, found_, later) == Selected(later, Anyone \ Range(found_))

\* What was attached since: neither c's own handler nor what c found.
Added(c, found_, later) == Selected(later, Anyone \ ({c} \cup Range(found_)))

Inherited(c, s, l) ==
    IF saved[c][l] = NotTaken THEN saved[s][l]
    ELSE LET later == IF saved[s][l] = NotTaken THEN <<>> ELSE saved[s][l].handlers
         IN  [saved[c][l] EXCEPT !.handlers = @ \o Added(c, saved[c][l].handlers, later)]

\* One released earlier leaves what it found to its successor s.
HandOver(c, s) ==
    /\ handlers' = [handlers EXCEPT ![Root] = Without(@, c)]
    /\ saved' = [saved EXCEPT ![s] = [l \in Loggers |-> Inherited(c, s, l)],
                              ![c] = [l \in Loggers |-> NotTaken]]
    /\ former' = [former EXCEPT ![s] = IF @ = c THEN former[c] ELSE @]
    /\ UNCHANGED <<flags, resort>>

Release(c) ==
    /\ hearing = <<>>
    /\ captures' = Without(captures, c)
    /\ \E i \in DOMAIN captures :
           captures[i] = c /\ IF c = Top THEN PutBack(c) ELSE HandOver(c, captures[i + 1])
    /\ UNCHANGED <<usage, known, hearing, calls, installs, historyVars>>

-----------------------------------------------------------------------------
(* What the application does with the standard library. *)

Call(kind) ==
    /\ hearing = <<>>
    /\ kind \in usage.may
    /\ kind \in {"add", "remove"} /\ ~usage.nested => Len(captures) <= 1
    /\ calls < usage.calls
    /\ calls' = calls + 1
    /\ UNCHANGED <<usage, installs, strayed>>

\* A slip: as often as it is attached.
HeldAgain(c, l, h) ==
    LET now == Saving(c, {l})
    IN  [saved EXCEPT ![c] = [now EXCEPT ![l].handlers = Append(@, h)]]

\* hold(): the handler is kept for later, once.
Held(c, l, h) ==
    LET now == Saving(c, {l})
    IN  [saved EXCEPT ![c] = [now EXCEPT ![l].handlers = With(@, h)]]

AddHandler(l, h) ==
    /\ Call("add")
    /\ l \in known
    /\ plain' = [plain EXCEPT ![l] = With(@, h)]
    /\ IF captures = <<>>
       THEN handlers' = [handlers EXCEPT ![l] = With(@, h)] /\ UNCHANGED <<flags, saved>>
       ELSE /\ saved' = Held(Top, l, h)
            /\ handlers' = Cleared(Top, {l})
            /\ flags' = Opened({l})
    /\ UNCHANGED <<hearing, known, resort, captures, former, found>>

\* The capture's own handler, found on the root, is attached elsewhere too:
\* hold() lets it through.
CopyHandler(l) ==
    /\ Call("copy")
    /\ l \in known
    /\ captures # <<>>
    /\ handlers' = [handlers EXCEPT ![l] = With(@, Top)]
    /\ UNCHANGED <<hearing, known, flags, resort, capVars, plain, found>>

\* A slip: what is held stays held.
StillHeld(c, l, h) == saved

\* drop(): a held handler is forgotten.
Forgotten(c, l, h) ==
    IF saved[c][l] = NotTaken THEN saved
    ELSE [saved EXCEPT ![c][l].handlers = Without(@, h)]

\* The capture's own handler, if it is what is to go, stays.
RemoveHandler(l, h) ==
    /\ Call("remove")
    /\ l \in known
    /\ plain' = [plain EXCEPT ![l] = Without(@, h)]
    /\ IF captures # <<>> /\ h = Top
       THEN UNCHANGED <<handlers, saved>>
       ELSE /\ handlers' = [handlers EXCEPT ![l] = Without(@, h)]
            /\ saved' = IF captures = <<>> THEN saved ELSE Forgotten(Top, l, h)
    /\ UNCHANGED <<hearing, known, flags, resort, captures, former, found>>

\* A handler is put straight into the list of a logger.
PutByHand(l, h) ==
    /\ Call("put")
    /\ l \in known
    /\ h \notin Range(handlers[l])
    /\ handlers' = [handlers EXCEPT ![l] = Append(@, h)]
    /\ plain' = [plain EXCEPT ![l] = With(@, h)]
    /\ UNCHANGED <<hearing, known, flags, resort, capVars, found>>

\* Flags are set as dictConfig() sets them.  They are what release() has to
\* give back unless some capture has taken the logger over.
SetFlags(l, f) ==
    /\ Call("flags")
    /\ l \in known
    /\ flags' = [flags EXCEPT ![l] = f]
    /\ found' = IF \A c \in Captures : saved[c][l] = NotTaken
                THEN [found EXCEPT ![l] = f] ELSE found
    /\ UNCHANGED <<hearing, known, handlers, resort, capVars, plain>>

CreateLogger(l) ==
    /\ Call("create")
    /\ l \notin known
    /\ known' = known \cup {l}
    /\ UNCHANGED <<hearing, handlers, flags, resort, capVars, plain, found>>

-----------------------------------------------------------------------------
(* A record is logged. *)

\* The loggers a record goes through, up to one that does not propagate.
Above(l) == Selected(Lineage[l], known)
Path(l) ==
    LET up  == Above(l)
        cut == SelectInSeq(up, LAMBDA k : ~flags[k].propagate)
    IN  IF cut = 0 THEN up ELSE SubSeq(up, 1, cut)

\* Who gets a record logged on l: the handlers on the path or the last resort.
Outputs(l) ==
    LET all == FlattenSeq([i \in DOMAIN Path(l) |-> handlers[Path(l)[i]]])
    IN  IF all = <<>> THEN <<resort>> ELSE all

\* A slip: only the flags are looked at.
Closed(c, k) == ~flags[k].propagate \/ flags[k].disabled

Astray(c, k) ==
    \/ \E h \in Range(handlers[k]) : h # c
    \/ ~flags[k].propagate \/ flags[k].disabled

\* Who handles a record logged on l: the captures on the first logger of its
\* path that has any.  The list is gone through as it was; what is further up
\* has no handler but that of the last of them when the record gets there.
Hearers(l) ==
    LET path == Path(l)
        at   == SelectInSeq(path, LAMBDA k : Range(handlers[k]) \cap Captures # {})
        them == IF at # 0 THEN handlers[path[at]]
                ELSE IF \A k \in Range(path) : handlers[k] = <<>> THEN <<resort>> ELSE <<>>
    IN  Selected(them, Captures)

LogRecord(l) ==
    /\ Call("log")
    /\ l \in known /\ ~flags[l].disabled
    /\ hearing' = [i \in DOMAIN Hearers(l) |-> <<Hearers(l)[i], l>>]
    /\ UNCHANGED <<stdVars, capVars, plain, found>>

\* A slip: a capture that was released looks no more.
OnlyInstalled(c, l) == {k \in Range(Above(l)) : c \in Range(captures) /\ Astray(c, k)}

Strays(c, l) == {k \in Range(Above(l)) : Astray(c, k)}

\* The filter of a capture's handler: the loggers above the record are put
\* right, be the capture installed or not.
TakeOverOrigin ==
    /\ hearing # <<>>
    /\ LET c == Head(hearing)[1]
           l == Head(hearing)[2]
       IN  /\ TakeOver(c, Strays(c, l))
           /\ strayed' = (strayed \/ (Strays(c, l) # {} /\ (captures = <<>> \/ c # Top)))
    /\ hearing' = Tail(hearing)
    /\ UNCHANGED <<usage, known, resort, captures, former, calls, installs, plain, found>>

-----------------------------------------------------------------------------
ApplicationCalls ==
    \E l \in Loggers :
        \/ \E h \in Handlers : AddHandler(l, h) \/ PutByHand(l, h)
        \/ \E h \in Anyone : RemoveHandler(l, h)
        \/ CopyHandler(l) \/ CreateLogger(l) \/ LogRecord(l)
        \/ \E p, d \in BOOLEAN :
               SetFlags(l, [level |-> Application, propagate |-> p, disabled |-> d])

CaptureNext ==
    \/ \E c \in Captures : Install(c) \/ Release(c)
    \/ ApplicationCalls \/ TakeOverOrigin

CaptureSpec == CaptureInit /\ [][CaptureNext]_captureVars

-----------------------------------------------------------------------------
(* Properties *)

CaptureTypeOK ==
    /\ usage \in Usages
    /\ Root \in known /\ known \subseteq Loggers
    /\ handlers \in [Loggers -> Seq(Anyone)] /\ plain \in [Loggers -> Seq(Handlers)]
    /\ resort \in Captures \cup {LastResort}
    /\ captures \in Seq(Captures) /\ IsInjective(captures)
    /\ \A c \in Captures : \A l \in Loggers :
           saved[c][l] # NotTaken => saved[c][l] \in Kept /\ IsInjective(saved[c][l].handlers)
    /\ former \in [Captures -> Captures \cup {LastResort}]
    /\ hearing \in Seq(Captures \X Loggers) /\ strayed \in BOOLEAN

\* Handlers come and go by addHandler() and removeHandler() alone, and not while
\* captures nest.
Orderly == usage.may \cap {"put", "copy"} = {} /\ ~usage.nested

\* release() of the last capture gives every logger back: attached is what
\* would be had there been no capture at all, in the same order.
HandlersGivenBack == Orderly /\ captures = <<>> => handlers = plain /\ resort = LastResort

\* ... with the levels and flags that each logger was found with, unless a copy
\* of its handler had a capture take over what was not its own to give back.
FlagsGivenBack ==
    captures = <<>> /\ ("copy" \in usage.may => ~strayed) => flags = found

\* A record is written once: whatever is attached, detached or set meanwhile,
\* the handler of the last capture gets it, and nobody else.
OneWayOut ==
    Orderly /\ captures # <<>> =>
        \A l \in known : ~flags[l].disabled => Outputs(l) = <<Top>>

\* A capture that is not installed is not attached anywhere, nor held by one
\* that is: it will not come back.  (A level it set may stay in force, and be
\* held by a capture installed later, until the last capture is released; and a
\* handler of a capture that the application copied elsewhere stays there.)
GoneForGood ==
    "copy" \notin usage.may => \A c \in Captures \ Range(captures) :
        /\ resort # c
        /\ \A l \in Loggers : c \notin Range(handlers[l])
        /\ \A d \in Range(captures) :
               /\ former[d] # c
               /\ \A l \in Loggers :
                      saved[d][l] # NotTaken => c \notin Range(saved[d][l].handlers)

\* A record that a capture gets leaves nothing astray on its way: what was put
\* there by hand prints one record at most.
Sweeps ==
    TakeOverOrigin =>
        \A k \in Range(Above(Head(hearing)[2])) :
            /\ Range(handlers'[k]) \subseteq {Head(hearing)[1]}
            /\ flags'[k].propagate /\ ~flags'[k].disabled
=============================================================================
