SPECIFICATION Spec
CONSTANTS
    MaxRevision = 3
    Timer <- TimerIsChanged
    MessageRevision <- OneMessage
    RemainingRetries = 1
    MaxRefreshes = 2
    MaxFailures = 0
PROPERTIES
    StaleTimerIsIgnored
CHECK_DEADLOCK FALSE
