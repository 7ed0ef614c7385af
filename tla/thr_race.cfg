SPECIFICATION Spec
CONSTANTS
    a = a
    b = b
    c = c
    m = m
    Main = Main
    None = None
    Workers = {a, b, c}
    Mutexes = {m}
    Destroys = {}
    Lockers <- MCWorkersLock
    Joins <- MCMainJoins
    Locks = 1
    MaxTicks = 3
    TicksInside = TRUE
    NullLocks = FALSE
    MaxQuantum = 12
INVARIANT MutualExclusion
SYMMETRY MCSymmetry
CHECK_DEADLOCK FALSE
