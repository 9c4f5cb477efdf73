SPECIFICATION FairSpec
CONSTANTS
    l1 = l1
    l2 = l2
    c1 = c1
    c2 = c2
    w1 = w1
    w2 = w2
    r1 = r1
    r2 = r2
    r3 = r3
    Loggers = {l1, l2}
    Callers = {c1}
    Workers = {w1}
    Records = {r1, r2, r3}
    Echo <- Quiet
    Fatal <- NoneFatal
    MaxSize = 1
    MaxCalls = 2
    Stop = Stop
    NoThread = NoThread
    NoRecord = NoRecord
PROPERTY RelayFairSpec
PROPERTY EveryoneReturns
CHECK_DEADLOCK FALSE
