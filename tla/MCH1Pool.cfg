SPECIFICATION FairSpec
CONSTANTS
    Threads = {t1, t2, t3}
    Keys = {k1, k2}
    Limit = 2
    IdleCapacity = 1
    NoKey = NoKey
INVARIANTS
    SlotsSound
PROPERTIES
    RequestsEnd
