----------------------------- MODULE StdlibBridge -----------------------------
(***************************************************************************)
(* Records that cross between the library and the logging of the standard  *)
(* library (bridge/stdlib).  StdlibHandler hands the records of a channel  *)
(* to a logger of the standard library, marked; StdlibCaptureHandler, on   *)
(* the loggers of the standard library, puts their records on a channel,   *)
(* but for the marked ones.  StdlibLogger logs there under this library's  *)
(* interface.                                                              *)
(*                                                                         *)
(* Each thread has a stack of frames, the innermost last: a record going   *)
(* through the handlers of a standard logger and of its parents ("stdlib"),*)
(* emit() of the capture handler ("look", "make", "added"), and a record   *)
(* going down the stack of a channel ("channel").  logging.Handler.handle()*)
(* holds the handler's lock while it emits.  What Logger does of its own   *)
(* to a record that comes back is left out: nothing here may need it.      *)
(***************************************************************************)
EXTENDS Integers, Sequences, SequencesExt, FiniteSets

CONSTANTS
    Threads,
    Names,      \* the loggers of the standard library
    Ancestry,   \* Ancestry[n]: n, then its parents up to the root
    Dotted,     \* Dotted[n]: n and the parents its name begins with, and a dot
    NameLength, \* NameLength[n]: the length of the name
    Enabled,    \* Enabled[n]: the level of n, or that of the parent it takes it from
    OnLogger,   \* OnLogger[n]: the handlers of n
    Threshold,  \* Threshold[h]: the level of such a handler
    CaptureHandler, \* the capture handler, which is one of them
    Routed,     \* the loggers that have a route, to a channel of the same name
    Base,       \* the channel of the rest
    Stack,      \* Stack[c]: the handlers of a channel
    MinLevel,   \* MinLevel[h]: the level of such a handler
    Bubbling,   \* those that let a record bubble
    Frail,      \* those that may raise
    Relays,     \* those that are StdlibHandlers
    RelayTo,    \* RelayTo[h]: the logger such a one hands records to
    Numbers,    \* bound: the levels the application logs at there,
    Asked,      \* and those it asks for here
    FromName,   \* the values of channel_from_name
    MaxRecords  \* bound: records that are logged

DEBUG     == 100
INFO      == 200
NOTICE    == 250
WARNING   == 300
ERROR     == 400
CRITICAL  == 500
ALERT     == 550
EMERGENCY == 600
Levels == {DEBUG, INFO, NOTICE, WARNING, ERROR, CRITICAL, ALERT, EMERGENCY}

\* The handlers a record of a logger goes through, its own first.
HandlersOf(n) == FlattenSeq([i \in DOMAIN Ancestry[n] |-> OnLogger[Ancestry[n][i]]])

BridgeAssumption ==
    /\ Threshold \in [DOMAIN Threshold -> Int] /\ CaptureHandler \in DOMAIN Threshold
    /\ MinLevel \in [DOMAIN MinLevel -> Int] /\ Relays \subseteq DOMAIN MinLevel
    /\ DOMAIN Threshold \cap DOMAIN MinLevel = {}
    /\ Enabled \in [Names -> Int] /\ \A h \in Relays : RelayTo[h] \in Names
    /\ Names # {} /\ Numbers \subseteq Int /\ Asked \subseteq Levels /\ FromName \subseteq BOOLEAN
    /\ Routed \subseteq Names /\ Routed \cup {Base} \subseteq DOMAIN Stack
    \* A handler that a logger shares with its parent, or that is on a channel
    \* twice, is meant to be given a record twice.
    /\ \A n \in Names : HandlersOf(n) \in Seq(DOMAIN Threshold) /\ IsInjective(HandlersOf(n))
    /\ \A c \in DOMAIN Stack : Stack[c] \in Seq(DOMAIN MinLevel) /\ IsInjective(Stack[c])
    \* The names that one name begins with differ in length, and the longer
    \* begins with the shorter.
    /\ NameLength \in [Names -> Nat]
    /\ \A n \in Names :
           /\ n \in Dotted[n] /\ Dotted[n] \subseteq Names /\ IsFiniteSet(Dotted[n])
           /\ \A m, k \in Dotted[n] : m # k =>
                  /\ NameLength[m] # NameLength[k]
                  /\ NameLength[m] < NameLength[k] => m \in Dotted[k]

VARIABLES
    fromName,   \* channel_from_name
    frames,     \* frames[t]: the frames of thread t
    byName,     \* _by_name: the names that have a channel
    named,      \* history: the channels made for a name, in order
    origin,     \* history: where each record was logged, and its level
    added,      \* history: records put on a channel by the capture handler
    written,    \* history: records written, and by which handler
    thrown      \* history: records whose caller was raised at

bridgeVars == <<fromName, frames, byName, named, origin, added, written, thrown>>

-----------------------------------------------------------------------------
(* level_mapping.py *)

ToStdlib == [l \in Levels |->
    CASE l = DEBUG -> 10     [] l = INFO -> 20  [] l = NOTICE -> 25    [] l = WARNING -> 30
      [] l = ERROR -> 40     [] l = CRITICAL -> 50 [] l = ALERT -> 55  [] l = EMERGENCY -> 60]

\* The boundaries, and the level below each.
Below == <<<<INFO, DEBUG>>, <<NOTICE, INFO>>, <<WARNING, NOTICE>>, <<ERROR, WARNING>>,
           <<CRITICAL, ERROR>>, <<ALERT, CRITICAL>>, <<EMERGENCY, ALERT>>>>

\* A slip: a number that is a boundary is taken for what is below it.
NotOver(number, boundary) == number <= ToStdlib[boundary]

Under(number, boundary) == number < ToStdlib[boundary]

FromStdlib(number) ==
    LET found == {i \in 1 .. 7 : Under(number, Below[i][1])}
    IN  IF found = {} THEN EMERGENCY ELSE Below[CHOOSE i \in found : \A j \in found : i <= j][2]

-----------------------------------------------------------------------------
Innermost(t) == Last(frames[t])
Rest(t)      == Front(frames[t])
To(t, fs)    == frames' = [frames EXCEPT ![t] = fs]
Is(t, at)    == frames[t] # <<>> /\ Innermost(t).at = at

\* A record on its way through the handlers of a logger and its parents.
ToLogger(n, r) ==
    [at |-> "stdlib", record |-> r,
     left |-> IF r.number < Enabled[n] THEN <<>> ELSE HandlersOf(n)]
ToChannel(c, r) ==
    [at |-> "channel", record |-> r, left |-> Stack[IF c \in Routed THEN c ELSE Base]]

\* A record is logged: in the standard library at a number, through StdlibLogger
\* at a level, or on the channel Base.
Log(t, kind, n, level, number) ==
    LET r == [id |-> Len(origin) + 1, name |-> n, level |-> level, number |-> number,
              marked |-> FALSE, through |-> {}]
    IN  /\ frames[t] = <<>> /\ Len(origin) < MaxRecords
        /\ origin' = Append(origin, [kind |-> kind, name |-> n, level |-> level, number |-> number])
        /\ To(t, <<IF kind = "channel" THEN ToChannel(Base, r) ELSE ToLogger(n, r)>>)
        /\ UNCHANGED <<fromName, byName, named, added, written, thrown>>

LogStdlib(t)  == \E n \in Names, number \in Numbers : Log(t, "stdlib", n, DEBUG, number)
LogAdapted(t) == \E n \in Names, l \in Asked : Log(t, "adapted", n, l, ToStdlib[l])
LogChannel(t) == \E l \in Asked : Log(t, "channel", CHOOSE n \in Names : TRUE, l, 0)

-----------------------------------------------------------------------------
(* The standard library, and emit() of StdlibCaptureHandler *)

\* What is written of a record: by which handler, and through which others it came.
Entry(r, h) == [id |-> r.id, by |-> h, level |-> r.level, through |-> r.through]

Passed(t) == [Innermost(t) EXCEPT !.left = Tail(@)]

\* A slip: the lock is not taken.
AlwaysFree(t) == TRUE

\* The lock of the capture handler is that of a thread, which may take it again.
Free(t) == \A u \in Threads \ {t} : \A i \in DOMAIN frames[u] :
               frames[u][i].at \notin {"look", "make", "added"}

\* A slip: the mark is not looked at.
NeverRefused(r) == FALSE

Refused(r) == r.marked

Offer(t) ==
    /\ Is(t, "stdlib") /\ Innermost(t).left # <<>>
    /\ LET h == Head(Innermost(t).left)
           r == Innermost(t).record
           passed == Append(Rest(t), Passed(t))
       IN  IF r.number < Threshold[h] THEN To(t, passed) /\ UNCHANGED written
           ELSE IF h # CaptureHandler
           THEN To(t, passed) /\ written' = Append(written, Entry(r, h))
           ELSE /\ Free(t)
                /\ To(t, IF Refused(r) THEN passed ELSE Append(passed, [at |-> "look", record |-> r]))
                /\ UNCHANGED written
    /\ UNCHANGED <<fromName, byName, named, origin, added, thrown>>

\* A slip: the shortest name first.
Shorter(n, m) == NameLength[n] < NameLength[m]

Longer(n, m) == NameLength[n] > NameLength[m]

\* The routes are sorted once, and the first that matches is taken.
Matching(n) == Dotted[n] \cap Routed
Route(n)    == CHOOSE m \in Matching(n) : \A k \in Matching(n) \ {m} : Longer(m, k)

\* _capture(): the record is made anew, at the level its number falls into.
Captured(r) == [r EXCEPT !.level = FromStdlib(r.number), !.through = {CaptureHandler}]

Add(t, c) ==
    /\ To(t, Rest(t) \o <<[Innermost(t) EXCEPT !.at = "added"],
                          ToChannel(c, Captured(Innermost(t).record))>>)
    /\ added' = Append(added, [id |-> Innermost(t).record.id, channel |-> c])

\* _target_for()
Target(t) ==
    /\ Is(t, "look")
    /\ LET n == Innermost(t).record.name
       IN  IF Matching(n) # {} THEN Add(t, Route(n))
           ELSE IF ~fromName THEN Add(t, Base)
           ELSE IF n \in byName THEN Add(t, n)
           ELSE To(t, Append(Rest(t), [Innermost(t) EXCEPT !.at = "make"])) /\ UNCHANGED added
    /\ UNCHANGED <<fromName, byName, named, origin, written, thrown>>

MakeChannel(t) ==
    /\ Is(t, "make")
    /\ named' = Append(named, Innermost(t).record.name)
    /\ byName' = byName \cup {Innermost(t).record.name}
    /\ Add(t, Innermost(t).record.name)
    /\ UNCHANGED <<fromName, origin, written, thrown>>

-----------------------------------------------------------------------------
(* The stack of a channel, and StdlibHandler *)

\* What is left of the channel's handlers once one took the record.
Bubbled(t, h) == [Innermost(t) EXCEPT !.left = IF h \in Bubbling THEN Tail(@) ELSE <<>>]

\* emit() of a StdlibHandler.
Marked(r, h) ==
    [r EXCEPT !.name = RelayTo[h], !.number = ToStdlib[r.level], !.marked = TRUE, !.through = @ \cup {h}]

Handle(t) ==
    /\ Is(t, "channel") /\ Innermost(t).left # <<>>
    /\ LET h == Head(Innermost(t).left)
           r == Innermost(t).record
           n == RelayTo[h]
           number == ToStdlib[r.level]
       IN  IF r.level < MinLevel[h] \/ (h \in Relays /\ number < Enabled[n])
           THEN To(t, Append(Rest(t), Passed(t))) /\ UNCHANGED written
           ELSE IF h \notin Relays
           THEN /\ To(t, Append(Rest(t), Bubbled(t, h)))
                /\ written' = Append(written, Entry(r, h))
           ELSE /\ To(t, Rest(t) \o <<Bubbled(t, h), ToLogger(n, Marked(r, h))>>)
                /\ UNCHANGED written
    /\ UNCHANGED <<fromName, byName, named, origin, added, thrown>>

\* A slip: what goes wrong on a channel is the caller's, whoever it is.
Uncaught(fs) == <<>>

\* The frames that are left when something was raised: emit() lets nothing by.
Caught(fs) ==
    LET emits == {i \in DOMAIN fs : fs[i].at = "added"}
    IN  IF emits = {} THEN <<>> ELSE SubSeq(fs, 1, CHOOSE i \in emits : \A j \in emits : j <= i)

Raise(t) ==
    /\ Is(t, "channel") /\ Innermost(t).left # <<>>
    /\ Head(Innermost(t).left) \in Frail
    /\ Innermost(t).record.level >= MinLevel[Head(Innermost(t).left)]
    /\ To(t, Caught(frames[t]))
    /\ thrown' = IF Caught(frames[t]) = <<>> THEN thrown \cup {Innermost(t).record.id} ELSE thrown
    /\ UNCHANGED <<fromName, byName, named, origin, added, written>>

Return(t) ==
    /\ frames[t] # <<>>
    /\ Innermost(t).at = "added" \/ (Innermost(t).at \in {"stdlib", "channel"} /\ Innermost(t).left = <<>>)
    /\ To(t, Rest(t))
    /\ UNCHANGED <<fromName, byName, named, origin, added, written, thrown>>

BridgeInit ==
    /\ fromName \in FromName
    /\ frames = [t \in Threads |-> <<>>]
    /\ byName = {} /\ thrown = {}
    /\ named = <<>> /\ origin = <<>> /\ added = <<>> /\ written = <<>>

BridgeNext == \E t \in Threads :
    \/ LogStdlib(t) \/ LogAdapted(t) \/ LogChannel(t)
    \/ Offer(t) \/ Target(t) \/ MakeChannel(t) \/ Handle(t) \/ Raise(t) \/ Return(t)

BridgeSpec == BridgeInit /\ [][BridgeNext]_bridgeVars

-----------------------------------------------------------------------------
(* Properties *)

BridgeTypeOK ==
    /\ fromName \in BOOLEAN
    /\ \A t \in Threads : \A i \in DOMAIN frames[t] :
           frames[t][i].at \in {"stdlib", "look", "make", "added", "channel"}
    /\ byName = Range(named) /\ byName \subseteq Names
    /\ thrown \subseteq DOMAIN origin

\* A record that crosses the bridge does not come back: it is put on one
\* channel at most, and only if it was logged on the other side; what a channel
\* hands over goes no further; and no handler is given it twice the same way.
LoopsAreCut ==
    /\ \A i \in DOMAIN added :
           /\ origin[added[i].id].kind # "channel"
           /\ \A j \in DOMAIN added : added[i].id = added[j].id => i = j
    /\ \A i \in DOMAIN written :
           LET w == written[i]
           IN  /\ Cardinality(w.through \cap Relays) <= 1 /\ w.through \subseteq Relays \cup {CaptureHandler}
               /\ origin[w.id].kind = "channel" => CaptureHandler \notin w.through
               /\ \A j \in DOMAIN written :
                      LET v == written[j]
                      IN  w.id = v.id /\ w.by = v.by /\ w.through = v.through => i = j

\* A channel takes the records of its route, and of those below, but for the
\* ones that have a nearer one; the rest goes by name or to the base channel.
\* A logger keeps its channel.
RightChannel ==
    /\ IsInjective(named)
    /\ \A i \in DOMAIN added :
           LET n == origin[added[i].id].name
               c == added[i].channel
           IN  IF Matching(n) = {} THEN c = IF fromName THEN n ELSE Base
               ELSE c \in Matching(n) /\ \A m \in Matching(n) : m \in Dotted[c]

\* A level on one side means the same on the other: what StdlibLogger is asked
\* for arrives at that level, and a record is at or above a level, on its
\* channel, if and only if its number is at least the one of that level.
LevelsAgree ==
    \A i \in DOMAIN written :
        LET w == written[i]
            o == origin[w.id]
        IN  /\ o.kind = "adapted" /\ w.by \in DOMAIN MinLevel => w.level = o.level
            /\ o.kind = "stdlib" /\ w.by \in DOMAIN MinLevel =>
                   \A l \in Levels \ {DEBUG} : o.number >= ToStdlib[l] <=> w.level >= l

\* Code that logs through the standard library is never raised at, and the
\* record goes on to the handlers after the capture.
NeverThrown == \A i \in thrown : origin[i].kind = "channel"
=============================================================================
