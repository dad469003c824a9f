SPECIFICATION FairSpec
CONSTANTS
    Clients <- MCClients
    NumPartitions = 2
    BrokerDefault = 1
    Followers = 2
    AckRequiredSweep = 2
    LeaderlessSweep = 1
    MQSweep = 2
    Sessions <- MCSessions
    SpawnFailures = {"leader_follower", "leaderless"}
    InitialDoc <- Preface
INVARIANTS
    ReadyBeforeLoad
    CleanSlate
    LostRacesTolerated
    DocHoldsLastReports
PROPERTIES
    NothingLeftRunning
    EverySessionEnds
CHECK_DEADLOCK FALSE
