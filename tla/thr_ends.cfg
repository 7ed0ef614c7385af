SPECIFICATION FairSpec
CONSTANTS
    a = a
    b = b
    m = m
    n = n
    Main = Main
    None = None
    Workers = {a, b}
    Mutexes = {m, n}
    Destroys = {}
    Lockers <- MCWorkersLock
    Joins <- MCSelfJoins
    Locks = 1
    MaxTicks = 2
    TicksInside = FALSE
    NullLocks = FALSE
    MaxQuantum = 40
PROPERTY Finishes
CHECK_DEADLOCK FALSE
