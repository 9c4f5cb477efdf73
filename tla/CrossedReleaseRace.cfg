SPECIFICATION Spec
CONSTANTS
    x1 = x1
    x2 = x2
    u1 = u1
    u2 = u2
    r1 = r1
    r2 = r2
    r3 = r3
    Contexts = {x1, x2}
    Units = {u1, u2}
    NoUnit = NoUnit
    Instance = Instance
    NoRecord = NoRecord
    Records = {r1, r2, r3}
    Activating = {r3}
    Floor = {r2, r3}
    Setups <- Race
INVARIANT Released
CHECK_DEADLOCK FALSE
