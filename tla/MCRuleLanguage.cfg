SPECIFICATION Spec
\* A load attempt ends, and so does a request.
CHECK_DEADLOCK FALSE
CONSTANTS
    WordLen <- MCWordLen
    Sources <- MCSources
    Requests <- MCRequests
    Responses <- MCResponses
    MaxGroups = 2
    MaxBytes = 5
    MaxRules = 2
    MaxDiagnostics = 3
    MaxActionsPerRule = 3
    MaxNodesPerRule = 4
    MaxPropsPerRule = 1
    MaxActions = 5
    MaxNodes = 8
    MaxBodyConditions = 3
    MaxLintFindings = 5
    MaxParseNesting = 3
    CallWords <- MCCallWords
INVARIANT LoadExact
 
INVARIANT IndexComplete
INVARIANT SkipReported
INVARIANT LintSound
