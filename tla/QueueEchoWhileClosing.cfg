SPECIFICATION FairSpec
CONSTANTS
    l1 = l1
    l2 = l2
    c1 = c1
    c2 = c2
    w1 = w1
    w2 = w2
    r1 = r1
    r2 = r2
    r3 = r3
    Loggers = {l1}
    Callers = {c1}
    Workers = {w1}
    Records = {r1, r2, r3}
    Echo <- Chain
    Fatal <- NoneFatal
    MaxSize = 0
    MaxCalls = 1
    Stop = Stop
    NoThread = NoThread
    NoRecord = NoRecord
PROPERTY CallsReturn
CHECK_DEADLOCK FALSE
