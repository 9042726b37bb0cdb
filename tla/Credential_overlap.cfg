SPECIFICATION Spec
CONSTANTS
    a1 = a1
    a2 = a2
    j1 = j1
    d1 = d1
    Admins = {a1, a2}
    Jobs = {j1}
    Discoveries = {}
    ExpirySkew = 3
    JobTimeout = 1
    RequestTimeout = 1
    CommitTimeout = 1
    Lifetime = 4
    MaxTime = 5
    MaxGrants = 2
SYMMETRY Symmetry
CHECK_DEADLOCK FALSE
INVARIANTS
    CredentialInv
    TokenOutlivesJob
PROPERTIES
    OnlyAuthorizationConnects
