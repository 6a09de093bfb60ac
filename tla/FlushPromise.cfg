SPECIFICATION PromiseSpec
CONSTANTS
    MaxEnvelopes = 1
    Discarded = {}
    Unreadable = {}
    Kind <- OnePlain
    BatchSize = 2
    MaxConnections = 1
    MaxLaunches = 2
    MaxFetchCycles = 1
INVARIANTS
    DecryptedMeansProcessed
    NoLostTry
PROPERTIES
    PromiseResolves
CHECK_DEADLOCK FALSE
