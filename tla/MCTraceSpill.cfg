SPECIFICATION Spec
CONSTANTS
    MaxRecords = 4
    Sizes = {2, 5}
    IndexBytes = 2
    SegmentBytes = 4
    DiskBudget = 13
    MaxCrashes = 1
    MaxFaults = 1
    MaxFailures = 1
    MaxClears = 1
    Compressions <- AnyCompression
INVARIANTS
    AcknowledgedReadable
    SnapshotStable
    DiskSound
    ReportCurrent
