SPECIFICATION FairSpec
CONSTANTS
    Clients <- MCClients
    NumPartitions = 2
    BrokerDefault = 1
    Followers = 2
    AckRequiredSweep = 0
    LeaderlessSweep = 0
    MQSweep = 2
    Sessions <- MQSessions
    SpawnFailures = {"message_queue"}
    InitialDoc <- Preface
PROPERTY NothingLeftRunning
CHECK_DEADLOCK FALSE
