SPECIFICATION Spec
CONSTANTS
    Producer = 1
    Followers = {f1}
    Partitions = {0}
    k1 = k1  k2 = k2  k3 = k3
    w1 = w1  w2 = w2  w3 = w3  w4 = w4
    Writes = {w1, w2, w3}
    Keys = {k1, k2}
    KeyOf <- TargetKey
    PartitionOf <- TwoPartitions
    Timestamps = {1, 2}
    Duplicates = 1
    Restarts = 1
    BrokerErrors = TRUE
    DirectWrites = FALSE
    FollowerRank = 2
    Malformed = 1
    Asked = {}
    Bad = Bad  NoMessage = NoMessage  NoEntry = NoEntry
INVARIANTS
    StoreMatchesLog
    CommitFollowsApply
    AckedWriteNotLost
    CaughtUpFollowersAgree
SYMMETRY Permuted
CHECK_DEADLOCK FALSE
