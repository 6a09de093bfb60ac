SPECIFICATION Spec
CONSTANTS
    MaxRevision = 3
    Timer <- TimerIsChanged
    MessageRevision <- OneMessage
    RemainingRetries = 1
    MaxRefreshes = 1
    MaxFailures = 1
INVARIANTS
    ModelMatchesRevision
    NobodyWaitsForEachOther
PROPERTIES
    ImplementsSyncedGroup
    EveryOperationEnds
CHECK_DEADLOCK FALSE
