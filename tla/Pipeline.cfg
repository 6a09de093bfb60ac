SPECIFICATION Spec
CONSTANTS
    MaxEnvelopes = 4
    Discarded = {}
    Unreadable = {}
    Kind <- EveryKind
    BatchSize = 2
    MaxConnections = 1
    MaxLaunches = 2
INVARIANTS
    NothingIsLost
    ProcessedInOrder
PROPERTIES
    ImplementsReliableInbox
    EveryEnvelopeProcessed
CHECK_DEADLOCK FALSE
