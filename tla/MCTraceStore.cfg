SPECIFICATION Spec
CONSTANTS
    Producers = {p1, p2}
    Callers = {}
    Subscribers = {s1}
    MaxId = 2
    Sizes = {2}
    EventCosts = {1}
    MaxEmits = 0
    QueueCapacity = 2
    QueueBudget = 4
    ResidentBudget = 3
    MaxSessions = 2
    PendingTTL = 1
    BacklogLimit = 1
    FollowCapacity = 1
    NoOne = NoOne
SYMMETRY ProducerSymmetry
INVARIANTS
    CountersExact
    MemorySound
    SessionsAccounted
    FollowStream
