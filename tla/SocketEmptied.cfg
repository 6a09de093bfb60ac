SPECIFICATION SocketSpec
CONSTANTS
    MaxEnvelopes = 1
    Discarded = {}
    Unreadable = {}
    MaxConnections = 2
    MaxLaunches = 1
INVARIANTS
    EmptiedMeansStored
CHECK_DEADLOCK FALSE
