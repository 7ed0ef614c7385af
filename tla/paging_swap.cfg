SPECIFICATION Spec
CONSTANTS
    First = 2
    Last = 7
    Main = 3
    Others = {4}
    Lib <- MCLib
    StackPages = 2
    EvictStart = 6
    Dense <- MCDense
    SwapRoom = 3
    MaxPages = 4
    Requests = {1, 2}
    Freed = {1}
INVARIANTS AtHome ContentFollows
PROPERTIES KeptWhileRoom AlignedHeadersStay
CHECK_DEADLOCK FALSE
