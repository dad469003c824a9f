SPECIFICATION FairSpec
CONSTANTS
    Sends = {s1, s2, s3, s4, s5}
    MaxConcurrent = 2
INVARIANTS
    SlotsConserved
    NoIdleSlot
    OnlyWaitersRaise
PROPERTY EverySendEnds
CHECK_DEADLOCK FALSE
