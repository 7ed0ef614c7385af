SPECIFICATION Spec
CONSTANTS
    a = a
    b = b
    c = c
    m = m
    n = n
    Main = Main
    None = None
    Workers = {a, b, c}
    Mutexes = {m, n}
    Destroys = {}
    Lockers <- MCWorkersLock
    Joins <- MCMainJoins
    Locks = 1
    MaxTicks = 2
    TicksInside = FALSE
    NullLocks = FALSE
    MaxQuantum = 40
SYMMETRY MCSymmetry
CHECK_DEADLOCK FALSE
INVARIANTS TypeOK MutualExclusion WaitersInLine HoldersOwn OwnersAsked JoinersKnown OwnContexts JoinedEnded
PROPERTY WaitersGetTheValue
