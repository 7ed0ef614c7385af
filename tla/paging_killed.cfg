SPECIFICATION Spec
CONSTANTS
    First = 2
    Last = 7
    Main = 3
    Others = {4}
    Lib <- MCLib
    StackPages = 2
    EvictStart = 6
    Dense <- MCDense
    SwapRoom = 2
    MaxPages = 4
    Requests = {1}
    Freed = {}
INVARIANT Survives
CHECK_DEADLOCK FALSE
