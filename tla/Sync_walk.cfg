SPECIFICATION Spec
CONSTANTS
    r1 = r1
    r2 = r2
    r3 = r3
    s1 = s1
    s2 = s2
    t1 = t1
    t2 = t2
    NoText = NoText
    Unrated = Unrated
    Malformed = Malformed
    Reviews = {r1, r2}
    Slots = {s1}
    Contents = {t1, NoText, Unrated, Malformed}
    PageSize = 1
    Skew = 0
    MaxTime = 6
    MaxRuns = 2
    MaxFaults = 1
    MaxCrashes = 1
SYMMETRY Symmetry
CHECK_DEADLOCK FALSE
INVARIANTS
    OneSlotInv
    WatermarkComplete
    AnalysisAgrees
PROPERTIES
    OnlyNewsIsWritten
