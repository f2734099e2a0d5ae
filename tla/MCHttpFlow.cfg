SPECIFICATION Spec
CONSTANTS
    Requests <- MCRequests
    Responses <- MCResponses
    Outcomes <- MCOutcomes
    BufferLimit = 1
    MaxRequests = 2
INVARIANTS
    ClientInSync
    PooledInSync
    SessionTruth
PROPERTIES
    RequestEnds
