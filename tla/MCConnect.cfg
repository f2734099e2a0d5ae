CONSTANTS
    MaxHops = 3
    Conns = {c1, c2}
    Hosts <- MCHosts
    HostKey <- MCHostKey
    FailureCapacity = 1
    FailureTtl = 1
    CertCapacity = 1
    MaxMethodSize = 2
    Requests <- MCRequests
    MaxTime = 1
    MaxConnects = 3
    MaxInner = 1
    MaxCrashes = 1
SPECIFICATION Spec
CONSTRAINT Scope
SYMMETRY Symmetric
CHECK_DEADLOCK FALSE
INVARIANTS
    AnsweredAndRecorded
    MitmMemory
    ProbeStable
    RouteReached
