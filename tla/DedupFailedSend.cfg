SPECIFICATION Spec
CONSTANTS
    p1 = p1
    p2 = p2
    k1 = k1
    k2 = k2
    Processes = {p1, p2}
    Nobody = Nobody
    Keys = {k1, k2}
    Low = Low
    Window = 2
    Day = 4
    LastSecond = 3
    Setups <- Failing
INVARIANT DroppedWasSent
CHECK_DEADLOCK FALSE
