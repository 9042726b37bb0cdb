SPECIFICATION Spec
CONSTANTS
    j1 = j1
    j2 = j2
    w1 = w1
    w2 = w2
    NoJob = NoJob
    Jobs = {j1}
    Workers = {w1, w2}
    MaxAttempts <- Three
    RETRY_BACKOFF_SECONDS <- TestBackoff
    Scheduler = TRUE
    MaxDbFaults = 2
    MaxCrashes = 1
    MaxPartitions = 1
    MaxLostHandOffs = 1
CHECK_DEADLOCK FALSE
INVARIANTS
    QueueInv
    AttemptsBudget
    ExhaustedStaysDown
PROPERTIES
    QueueDrains
