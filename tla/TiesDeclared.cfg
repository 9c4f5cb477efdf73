SPECIFICATION PiecesSpec
CONSTANTS
    Pieces = {"registry"}
    t1 = t1
    a = a
    b = b
    h1 = h1
    h2 = h2
    h3 = h3
    Threads = {t1}
    Loggers = {a, b}
    Handlers = {h1, h2, h3}
    Wired <- Shared
    Accepting = {h2, h3}
    Bubbling = {h1, h2}
    Echoing = {h2}
    Catching = {b}
    Detecting = {a}
    Faulty = {h3}
    BadProcessor = TRUE
    MaxLogs = 1
    MaxFrames = 6
    MaxRewires = 1
    audit = audit
    debug = debug
    fn = fn
    other = other
    cls = cls
    web = web
    billing = billing
    disk = disk
    wire = wire
    gone = gone
    Everywhere = Everywhere
    t2 = t2
    e1 = e1
    e2 = e2
    e3 = e3
    NoError = NoError
    s1 = s1
    s2 = s2
    s3 = s3
    tty = tty
    pipe = pipe
    Unset = Unset
    Users = {t1, t2}
    Severities = {1, 2}
    Uses <- AllUses
    Tasks = {s1, s2, s3}
    First = s1
    Names = {fn, other}
    MaxSteps = 4
    Senders = {"s1", "s2"}
    Services <- SomeServices
    Rotators = {audit, debug}
    Dates = {1, 2, 3}
    Rotations <- AllRotations
    Functions = {fn, other}
    Classes = {cls}
    Channels = {web, billing}
    Stacks = {disk, wire}
    Plain = {wire}
    Declarations <- SomeDeclarations
    Offers <- SomeOffers
    Configured <- OneConfigured
    MaxDeclared = 3
    MaxFactories = 2
INVARIANT TiesAsDeclared
CHECK_DEADLOCK FALSE
