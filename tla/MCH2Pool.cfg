SPECIFICATION Spec
CONSTANTS
    Threads = {t1, t2, t3}
    Keys = {k1, k2}
    NoKey = NoKey
    Limit = 2
    PoolCapacity = 1
    MaxConnections = 2
    MaxClaims = 3
SYMMETRY PoolSymmetry
INVARIANTS
    PoolSound
    SleepersCovered
PROPERTIES
    LiveEntryKept
