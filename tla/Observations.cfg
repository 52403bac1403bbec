SPECIFICATION Spec
CONSTANTS
    t1 = t1
    p1 = p1
    m1 = m1
    u1 = u1
    Tools = {}
    Parts = {p1}
    Messages = {}
    Turns = {u1}
    MaxOrdinal = 3
    MaxAttempts = 1
INVARIANTS
    TypeOK
    TerminalOnce
    OrdinalsAscend
    PullCatchesUp
PROPERTY
    BarrierSettles
CHECK_DEADLOCK FALSE
