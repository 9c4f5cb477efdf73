----------------------------- MODULE MCOutside -----------------------------
(***************************************************************************)
(* What the library shares with others: the store that handlers of several *)
(* processes write (DeduplicationHandler), the loggers of the standard     *)
(* library, which the application goes on using (StdlibCapture), and the   *)
(* records that go to them and come from them (StdlibBridge).  A behaviour *)
(* is one of these, the `part`.                                            *)
(***************************************************************************)
EXTENDS MCDedup, StdlibCapture, StdlibBridge

CONSTANTS
    root, a, ab, c1, c2, c3, h1, h2,
    t1, t2, zed, capture, tty, sink, errors, relay, back, app

VARIABLE part

\* A logger, its child, and the root.
Tree == [l \in Loggers |->
    IF l = root THEN <<root>> ELSE IF l = a THEN <<a, root>> ELSE <<ab, a, root>>]
LevelSet == [c \in Captures |-> IF c = c1 THEN {a} ELSE IF c = c2 THEN {ab} ELSE {}]
OneEach == [l \in Loggers |-> IF l = root THEN <<h1>> ELSE IF l = a THEN <<h2>> ELSE <<>>]

\* One capture, installed twice, and all the application does in good order.
One == [captures |-> {c1}, installs |-> 2, calls |-> 4, nested |-> FALSE,
        may |-> {"add", "remove", "flags", "create", "log"}]
\* Three captures, released in any order.
Nest == [captures |-> {c1, c2, c3}, installs |-> 4, calls |-> 2, nested |-> FALSE,
         may |-> {"add", "remove", "flags", "create", "log"}]
\* Handlers put straight into lists under two captures.
ByHand == [captures |-> {c1, c2}, installs |-> 2, calls |-> 3, nested |-> TRUE,
           may |-> {"add", "flags", "log", "put"}]
\* The handler of a capture is attached in a second place, and stays there.
Copied == [captures |-> {c1, c2}, installs |-> 3, calls |-> 4, nested |-> TRUE,
           may |-> {"create", "log", "copy"}]

AllUsages == {One, Nest, ByHand, Copied}

(* StdlibBridge: the names are root, a, a.b and z; the root has the        *)
(* capture and a handler after it, what is handed over goes to z or to a,  *)
(* and the errors of a.b have a handler that raises.                       *)
Bridged == {root, a, ab, zed}
Dots == [n \in Bridged |->
    IF n = root THEN <<root>> ELSE IF n = ab THEN <<ab, a, root>> ELSE <<n, root>>]
Beginnings == [n \in Bridged |-> IF n = ab THEN {ab, a} ELSE {n}]
Lengths    == [n \in Bridged |-> IF n = root THEN 4 ELSE IF n = ab THEN 3 ELSE 1]
Set        == [n \in Bridged |-> IF n = zed THEN 26 ELSE 10]
OnRoot     == [n \in Bridged |-> IF n = root THEN <<capture, tty>> ELSE <<>>]
Thresholds == [h \in {capture, tty} |-> IF h = tty THEN 30 ELSE 0]
Stacks == [c \in {app, a, ab} |->
    IF c = app THEN <<relay, sink>> ELSE IF c = a THEN <<back, sink>> ELSE <<errors, sink>>]
MinLevels == [h \in {sink, errors, relay, back} |->
    IF h = errors THEN 400 ELSE IF h = sink THEN 250 ELSE 100]
Targets == [h \in {relay, back} |-> IF h = relay THEN zed ELSE a]

ASSUME OutsideAssumption == CaptureAssumption /\ BridgeAssumption

-----------------------------------------------------------------------------
Dedup   == part = "dedup"
Capture == part = "capture"
Bridge  == part = "bridge"

\* The parts that are left alone, in a state they would start in.
DedupRests ==
    /\ setup = CHOOSE s \in Setups : TRUE
    /\ now = 0 /\ lock = Nobody /\ crashes = 0 /\ lost = {} /\ store = <<>> /\ decided = <<>>
    /\ phase = [p \in Processes |-> "idle"]
    /\ batch = [p \in Processes |-> <<>>] /\ read = batch
    /\ gc = [p \in Processes |-> FALSE] /\ mine = [p \in Processes |-> 0]

CaptureRests ==
    /\ usage = CHOOSE u \in Usages : TRUE
    /\ known = {} /\ handlers = Wired /\ plain = Wired
    /\ flags = [l \in Loggers |-> Default] /\ found = flags
    /\ resort = LastResort /\ captures = <<>>
    /\ saved = [c \in Captures |-> [l \in Loggers |-> NotTaken]]
    /\ former = [c \in Captures |-> LastResort]
    /\ hearing = <<>> /\ calls = 0 /\ installs = 0 /\ strayed = FALSE

BridgeRests == BridgeInit /\ fromName

OutsideInit ==
    \/ Dedup /\ Init /\ CaptureRests /\ BridgeRests
    \/ Capture /\ CaptureInit /\ DedupRests /\ BridgeRests
    \/ Bridge /\ BridgeInit /\ CaptureRests /\ DedupRests

OutsideNext ==
    \/ Dedup /\ Next /\ UNCHANGED <<part, captureVars, bridgeVars>>
    \/ Capture /\ CaptureNext /\ UNCHANGED <<part, vars, bridgeVars>>
    \/ Bridge /\ BridgeNext /\ UNCHANGED <<part, vars, captureVars>>

OutsideSpec == OutsideInit /\ [][OutsideNext]_<<part, vars, captureVars, bridgeVars>>

-----------------------------------------------------------------------------
\* What holds of each: see the modules.
OutsideTypeOK ==
    /\ Dedup \/ Capture \/ Bridge
    /\ BridgeTypeOK /\ (Dedup => TypeOK) /\ (Capture => CaptureTypeOK)

\* No two alerts of one kind are sent within a window.
AlertsOnce == Dedup => NoRepeat

\* The store is true to what was sent: what it makes a process drop was sent
\* before, and collecting it forgets nothing that is in force.
StoreIsTrue == Dedup => DroppedIsKnown /\ StoreIsKept

\* Released captures leave handlers, levels and flags as there had been none,
\* and do not come back.
GivenBack == Capture => HandlersGivenBack /\ FlagsGivenBack /\ GoneForGood

\* While a capture is installed a record has one way out.
OneOutput     == Capture => OneWayOut
PathsAreSwept == [][Capture => Sweeps]_<<part, captureVars>>

\* A record crosses the bridge once, to the channel of its logger, at its level,
\* and what is raised there does not reach the code that logged it.
CrossedOnce == LoopsAreCut /\ RightChannel /\ LevelsAgree /\ NeverThrown
=============================================================================
