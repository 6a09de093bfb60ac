SPECIFICATION Spec
CONSTANTS
    MaxJobs = 3
    QueueOf <- OneQueue
    MaxRetries = 1
    RequiresInternet = TRUE
    MaxLaunches = 2
    MaxReachable = 1
INVARIANTS
    RecordsMatchOperations
    InOrder
    AttemptsBounded
    NoLostWakeup
    WorkDoneOncePerLaunch
PROPERTIES
    ImplementsOrderedJobs
    EveryJobSettles
CHECK_DEADLOCK FALSE
