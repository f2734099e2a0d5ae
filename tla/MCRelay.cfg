CONSTANTS
    MaxUnits <- MCMaxUnits
    PendingCap = 2
    RecordCap = 3
SPECIFICATION Spec
CHECK_DEADLOCK FALSE
INVARIANT NoSilentLoss
PROPERTY ImplementsPipe
PROPERTY RelayEnds
