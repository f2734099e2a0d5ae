SPECIFICATION FairSpec
CONSTANTS
    Producers = {p1}
    Callers = {c1}
    Subscribers = {s1}
    MaxId = 1
    Sizes = {1, 3}
    EventCosts = {1}
    MaxEmits = 1
    QueueCapacity = 1
    QueueBudget = 4
    ResidentBudget = 2
    MaxSessions = 2
    PendingTTL = 1
    BacklogLimit = 1
    FollowCapacity = 1
    NoOne = NoOne
INVARIANTS
    SessionsAccounted
PROPERTIES
    NobodyWaits
