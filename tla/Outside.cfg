SPECIFICATION OutsideSpec
CONSTANTS
    p1 = p1
    p2 = p2
    k1 = k1
    k2 = k2
    Processes = {p1, p2}
    Nobody = Nobody
    Keys = {k1, k2}
    Low = Low
    Window = 2
    Day = 4
    LastSecond = 3
    Setups <- All
    root = root
    a = a
    ab = ab
    c1 = c1
    c2 = c2
    c3 = c3
    h1 = h1
    h2 = h2
    t1 = t1
    t2 = t2
    zed = zed
    capture = capture
    tty = tty
    sink = sink
    errors = errors
    relay = relay
    back = back
    app = app
    Loggers = {root, a, ab}
    Root = root
    Captures = {c1, c2, c3}
    Handlers = {h1, h2}
    AtStart = {root, a}
    Lineage <- Tree
    Named <- LevelSet
    Wired <- OneEach
    Usages <- AllUsages
    Threads = {t1, t2}
    Names = {root, a, ab, zed}
    Ancestry <- Dots
    Dotted <- Beginnings
    NameLength <- Lengths
    Enabled <- Set
    OnLogger <- OnRoot
    Threshold <- Thresholds
    CaptureHandler = capture
    Routed = {a, ab}
    Base = app
    Stack <- Stacks
    MinLevel <- MinLevels
    Bubbling = {relay, sink}
    Frail = {errors}
    Relays = {relay, back}
    RelayTo <- Targets
    Numbers = {25, 41}
    Asked = {250, 550}
    FromName = {TRUE, FALSE}
    MaxRecords = 2
    Application = Application
    LastResort = LastResort
    NotTaken = NotTaken
INVARIANT OutsideTypeOK
INVARIANT AlertsOnce
INVARIANT StoreIsTrue
INVARIANT GivenBack
INVARIANT OneOutput
INVARIANT CrossedOnce
PROPERTY PathsAreSwept
SYMMETRY Symmetry
CHECK_DEADLOCK FALSE
