SPECIFICATION FactorySpec
CONSTANTS
    main = main
    errs = errs
    pair = pair
    alone = alone
    tail = tail
    file = file
    more = more
    app = app
    sec = sec
    Nowhere = Nowhere
    Elsewhere = Elsewhere
    Nobody = Nobody
    x1 = x1
    x2 = x2
    worker = worker
    u1 = u1
    u2 = u2
    r1 = r1
    r2 = r2
    r3 = r3
    NoUnit = NoUnit
    Instance = Instance
    NoRecord = NoRecord
    Parts = {"factory", "config", "queued", "start"}
    Handlers = {main, errs, pair, alone, tail, file, more}
    Channels = {app, sec}
    Levels = {1, 2}
    Setups <- All
INVARIANT FactoryTypeOK
 
INVARIANT NothingHeldOver
INVARIANT Judged
INVARIANT UnitsBehindQueue
PROPERTY FailuresStayLocal
SYMMETRY Symmetry
CHECK_DEADLOCK FALSE
