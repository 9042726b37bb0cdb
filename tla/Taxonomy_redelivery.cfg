SPECIFICATION Spec
CONSTANTS
    j1 = j1
    j2 = j2
    e1 = e1
    e2 = e2
    e3 = e3
    NoJob = NoJob
    Jobs = {j1, j2}
    Executions = {e1}
    LostHeartbeats = FALSE
    MaxVersions = 2
SYMMETRY Symmetry
CHECK_DEADLOCK FALSE
INVARIANTS
    OneVersionPerJob
