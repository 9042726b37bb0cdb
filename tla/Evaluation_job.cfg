SPECIFICATION MCSpec
CONSTANTS
    j1 = j1
    j2 = j2
    e1 = e1
    e2 = e2
    e3 = e3
    c1 = c1
    c2 = c2
    NoJob = NoJob
    Jobs = {j1, j2}
    Executions = {e1, e2, e3}
    Categories = {c1, c2}
    Sentiments = {"positive", "negative"}
    Resolution = 4
    Confidences = {1, 2, 4}
    BucketCount = 2
    MaxItems = 2
    MaxAspects = 2
SYMMETRY Symmetry
INVARIANTS
    OneRunPerJob
    ReturnedMeansRecorded
    NoFalseAlarm
    FamiliesAgree
    BucketsPartition
    CalibrationErrorBounded
    PerfectMeansPerfect
CHECK_DEADLOCK FALSE
