SPECIFICATION Spec
CONSTANTS
    alice = alice
    bob = bob
    Recipients <- Two
    Contact <- alice
    MaxAttempts = 3
    MaxRetries = 2
    MaxLaunches = 2
INVARIANTS
    SentWhenSucceeded
CHECK_DEADLOCK FALSE
