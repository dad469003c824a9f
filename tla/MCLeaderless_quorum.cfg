SPECIFICATION Spec
CONSTANTS
    NoEntry = NoEntry
    Nodes = {1, 2, 3}
    Writes = {w1, w2}
    Reads = {r1}
    PutNodes = {1, 2}
    GetNodes = {3}
    Timestamps = {1, 2}
    WriteParams = {2}
    ReadParams = {2}
    StrictClock = TRUE
    Deletes = FALSE
INVARIANTS
    AckedWriteDurable
    ReadSeesAckedWrites
    ReplicasConverge
PROPERTIES
    NodeNeverRegresses
CHECK_DEADLOCK FALSE
CONSTRAINT FewFaults
SYMMETRY Permuted
