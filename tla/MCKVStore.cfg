SPECIFICATION Spec
CONSTANTS
    NoEntry = NoEntry
    NoThread = NoThread
    NoRequest = NoRequest
    Threads = {t1, t2, t3}
    Keys = {k1, k2}
    NodeId = 1
    PeerId = 2
    Timestamps = {1, 2}
INVARIANTS
    TypeOK
    NoStaleCompare
PROPERTY ImplementsAtomicStore
SYMMETRY Permuted
