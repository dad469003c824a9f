SPECIFICATION DeadlineSpec
CONSTANTS
    NoEntry = NoEntry
    Leader = 1
    Followers = {2}
    Writes = {w1, w2}
    AckRequired = 1
    Timestamps = {1, 2}
    StrictClock = FALSE
    Failures = TRUE
    Cancellations = TRUE
    Deletes = TRUE
    DirectPuts = TRUE
PROPERTY EveryPutEnds
CHECK_DEADLOCK FALSE
