SPECIFICATION Spec
CONSTANTS
    Requests <- TwoRequests
    MaxConnections = 2
INVARIANTS
    CompletedOnce
    ClosedSocketLeavesNoneWaiting
    AcceptedAtMostTwice
PROPERTIES
    EveryRequestEnds
CHECK_DEADLOCK FALSE
