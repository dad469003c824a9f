SPECIFICATION DeadlineSpec
CONSTANTS
    NoEntry = NoEntry
    Nodes = {1, 2, 3}
    Writes = {w1}
    Reads = {r1}
    PutNodes = {1}
    GetNodes = {3}
    Timestamps = {1}
    WriteParams = {0, 1, 2, 4}
    ReadParams = {0, 2, 4}
    StrictClock = TRUE
    Deletes = TRUE
INVARIANTS
    TypeOK
    NoOrphanTask
PROPERTIES
    EveryRequestEnds
    BackgroundDrains
CHECK_DEADLOCK FALSE
