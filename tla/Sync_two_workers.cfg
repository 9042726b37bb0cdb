SPECIFICATION Spec
CONSTANTS
    r1 = r1
    r2 = r2
    r3 = r3
    s1 = s1
    s2 = s2
    t1 = t1
    t2 = t2
    NoText = NoText
    Unrated = Unrated
    Malformed = Malformed
    Reviews = {r1, r2}
    Slots = {s1, s2}
    Contents = {t1}
    PageSize = 1
    Skew = 0
    MaxTime = 4
    MaxRuns = 2
    MaxFaults = 1
    MaxCrashes = 1
CHECK_DEADLOCK FALSE
INVARIANTS
    SuccessCountsExact
    FailedKeptNothing

PROPERTIES
    RunEnds
