SPECIFICATION Spec
CONSTANTS
    a1 = a1
    a2 = a2
    j1 = j1
    d1 = d1
    Admins = {a1}
    Jobs = {j1}
    Discoveries = {d1}
    ExpirySkew = 3
    JobTimeout = 1
    RequestTimeout = 1
    CommitTimeout = 1
    Lifetime = 4
    MaxTime = 3
    MaxGrants = 1
CHECK_DEADLOCK FALSE
INVARIANTS
    DisconnectLeavesNothing
