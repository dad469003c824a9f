SPECIFICATION FairSpec
CONSTANTS
    Producer = 1
    Followers = {f1}
    Partitions = {0, 1}
    k1 = k1  k2 = k2  k3 = k3
    w1 = w1  w2 = w2  w3 = w3  w4 = w4
    Writes = {w1}
    Keys = {k1}
    KeyOf <- TargetKey
    PartitionOf <- TwoPartitions
    Timestamps = {1}
    Duplicates = 2
    Restarts = 2
    BrokerErrors = FALSE
    DirectWrites = TRUE
    FollowerRank = 2
    Malformed = 1
    Asked = {f1}
    Bad = Bad  NoMessage = NoMessage  NoEntry = NoEntry
INVARIANT LagNeverOverstates
PROPERTY ConsumesForever
CHECK_DEADLOCK FALSE
