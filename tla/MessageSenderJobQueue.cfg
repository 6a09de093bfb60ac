SPECIFICATION SendSpec
CONSTANTS
    MaxJobs = 3
    QueueOf <- TextAndMedia
    ThreadOf <- OneThread
    MediaJobs <- TheSecond
    Contents <- RenderableOrNot
    MaxRetries = 1
    RequiresInternet = TRUE
    MaxLaunches = 2
    MaxReachable = 1
INVARIANTS
    SentInOrder
    LaterTextDoesNotDelayMedia
    QueuesNeverStall
CHECK_DEADLOCK FALSE
