SPECIFICATION Spec
CONSTANTS
    j1 = j1
    j2 = j2
    w1 = w1
    w2 = w2
    NoJob = NoJob
    Jobs = {j1, j2}
    Workers = {w1, w2}
    MaxAttempts <- TwoAndThree
    RETRY_BACKOFF_SECONDS <- CodeBackoff
    Scheduler = TRUE
    MaxDbFaults = 0
    MaxCrashes = 0
    MaxPartitions = 0
    MaxLostHandOffs = 0
CHECK_DEADLOCK FALSE
INVARIANTS
    RowAgreesWithQueue
PROPERTIES
    TerminalIsFinal
    LifecycleSpec
    Settles
