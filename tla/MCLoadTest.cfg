SPECIFICATION FairSpec
CONSTANTS
    NumWorkers = 2
    Total = 3
    Keys = {k1}
    N = 2
    Timestamps = {1, 2}
    NoEntry = NoEntry
INVARIANTS StrictQuorumNeverStale AccountsBalance LagBelongsToItsRead
PROPERTIES VerdictIsExact EveryRunEnds
CHECK_DEADLOCK FALSE
