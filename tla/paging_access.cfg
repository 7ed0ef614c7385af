SPECIFICATION Spec
CONSTANTS
    First = 2
    Last = 11
    Main = 3
    Others = {4}
    Lib <- MCLib
    StackPages = 2
    EvictStart = 99
    Dense <- MCDense
    SwapRoom = 0
    MaxPages = 4
    Requests = {1}
    Freed = {}
INVARIANT TouchesOwn
