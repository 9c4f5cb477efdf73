SPECIFICATION Spec
CONSTANTS
    l1 = l1
    l2 = l2
    c1 = c1
    c2 = c2
    w1 = w1
    w2 = w2
    r1 = r1
    r2 = r2
    r3 = r3
    Loggers = {l1, l2}
    Callers = {c1, c2}
    Workers = {w1, w2}
    Records = {r1, r2, r3}
    Echo <- OneEcho
    Fatal <- TwoFatal
    MaxSize = 2
    MaxCalls = 1
    Stop = Stop
    NoThread = NoThread
    NoRecord = NoRecord
INVARIANT TypeOK
INVARIANT SingleConsumer
INVARIANT UnfinishedExact
INVARIANT BarrierHolds
INVARIANT StopIsClean
INVARIANT NoLostWakeup
INVARIANT NeverStranded
PROPERTY RelaySpec
SYMMETRY Symmetry
CHECK_DEADLOCK FALSE
