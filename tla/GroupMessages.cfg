SPECIFICATION Spec
CONSTANTS
    MaxJobs = 4
    Groups = {"family", "work"}
    GroupOf <- FourMessages
    MessageRevision <- FourRevisions
    Unwanted <- OneBlocked
    ServerRevision <- TwoRevisionsEach
    BatchSize = 2
    MaxLaunches = 2
INVARIANTS
    OneDrain
    ProcessedAtMostOnce
    GroupIsUpToDate
    SettledInOrder
PROPERTIES
    EveryMessageSettled
CHECK_DEADLOCK FALSE
