SPECIFICATION Spec
CONSTANTS
    a = a
    b = b
    m = m
    Main = Main
    None = None
    Workers = {a, b}
    Mutexes = {m}
    Destroys = {m}
    Lockers <- MCWorkersLock
    Joins <- MCMainJoins
    Locks = 2
    MaxTicks = 2
    TicksInside = TRUE
    NullLocks = TRUE
    MaxQuantum = 10
INVARIANTS MutexesSheltered JoinsSheltered ContextsSheltered
PROPERTY GrantedInOrder
SYMMETRY MCSymmetry
CHECK_DEADLOCK FALSE
