SPECIFICATION UnitsSpec
CONSTANTS
    x1 = x1
    x2 = x2
    u1 = u1
    u2 = u2
    r1 = r1
    r2 = r2
    r3 = r3
    b1 = b1
    b2 = b2
    b3 = b3
    b4 = b4
    b5 = b5
    Contexts = {x1, x2}
    Units = {u1, u2}
    NoUnit = NoUnit
    Instance = Instance
    NoRecord = NoRecord
    Records = {r1, r2, r3, b1, b2, b3, b4, b5}
    Activating = {r3}
    Floor = {r2, r3}
    Setups <- Both
INVARIANT UnitsTypeOK
INVARIANT NothingLost
INVARIANT OrderIsKept
INVARIANT NothingIsLeft
INVARIANT AlarmsRelease
INVARIANT TiedTogether
SYMMETRY BufferSymmetry
CHECK_DEADLOCK FALSE
