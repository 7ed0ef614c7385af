SPECIFICATION Spec
CONSTANTS
    Main = 3
    Others = {4}
    PageSize = 6
    SharedPages = 2
    HS = 2
    UShorts = 64
    Sizes = {1, 4, 10, 11}
    Requests = {1}
    Inside <- MCAnywhere
    MaxCuts = 1
INVARIANTS TypeOK SharedHeapWhole FlagLeftByFailure
PROPERTIES AllocatesDisjoint RefusesOnlyWhatFitsNowhere
CHECK_DEADLOCK FALSE
