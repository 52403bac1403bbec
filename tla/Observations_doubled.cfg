SPECIFICATION Spec
CONSTANTS
    t1 = t1
    p1 = p1
    m1 = m1
    u1 = u1
    Tools = {}
    Parts = {}
    Messages = {m1}
    Turns = {}
    MaxOrdinal = 1
    MaxAttempts = 1
INVARIANT
    EveryFactOnce
CHECK_DEADLOCK FALSE
