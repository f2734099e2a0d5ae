CONSTANTS
    Responses <- MCResponses
    MaxFrames = 2
    Capacity = 1
SPECIFICATION Spec
CHECK_DEADLOCK FALSE
INVARIANTS
    BridgeTruth
PROPERTIES
    StreamEnds
