SPECIFICATION Spec
CONSTANTS
    t1 = t1
    t2 = t2
    sA = sA
    sB = sB
    Threads = {t1, t2}
    Stores = {sA, sB}
    Null = Null
    NoValue = NoValue
    ONE = 100
    CONST_M = 4
    MARGIN = 3
    GRAIN = 2
    Printed <- MCPrinted
    Reported <- MCReported
    Text <- MCText
    Contents <- MCContents
    Queries <- MCQueries
    prefetch_size = 2
    HasWorkDirectory = TRUE
    MaxClock = 2
    MaxWrites = 2
    MaxAsks = 2
INVARIANTS IndexFits  WrittenReadBack
PROPERTY CursorsAreSequences
CHECK_DEADLOCK FALSE
