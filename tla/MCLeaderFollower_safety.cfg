SPECIFICATION Spec
CONSTANTS
    NoEntry = NoEntry
    Leader = 1
    Followers = {2, 3}
    Writes = {w1, w2}
    AckRequired = 1
    Timestamps = {1, 2}
    StrictClock = TRUE
    Failures = TRUE
    Cancellations = FALSE
    Deletes = FALSE
    DirectPuts = FALSE
INVARIANTS
    TypeOK
    AckedWriteDurable
    FollowersNeverAhead
    ReplicasConverge
    NoOrphanTask
    LaterWriteRepairs
PROPERTY ImplementsLeaderless
CHECK_DEADLOCK FALSE
