SPECIFICATION SocketSpec
CONSTANTS
    MaxEnvelopes = 4
    Discarded <- OneDiscarded
    Unreadable <- OneUnreadable
    MaxConnections = 2
    MaxLaunches = 2
INVARIANTS
    NothingLostByAcknowledging
    StoredInOrder
    FirstConnectionEmptied
PROPERTIES
    EveryEnvelopeAcknowledged
CHECK_DEADLOCK FALSE
