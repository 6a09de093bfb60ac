SPECIFICATION Spec
CONSTANTS
    alice = alice
    bob = bob
    Recipients <- Two
    Contact <- alice
    MaxAttempts = 3
    MaxRetries = 2
    MaxLaunches = 2
INVARIANTS
    AcknowledgedNotSentAgain
    AcknowledgedStaysSent
    SentMeansAccepted
    SuccessHidesNoFailure
    SyncedWhenDone
PROPERTIES
    EveryJobEnds
CHECK_DEADLOCK FALSE
