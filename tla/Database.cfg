SPECIFICATION MCSpec
CONSTANTS
    DataTables = {"jobs", "evaluation_runs", "reviews", "review_analyses", "taxonomy_versions", "model_runs", "taxonomy_nodes", "anomalies", "insights", "insight_actions"}
    None = None
    praised = praised
    criticised = criticised
    Ids = {1, 2, 3}
    Times = {0, 1, 2, 3}
    Now = 2
    DayLength = 2
    Window = 1
    Dates = {1, 2}
    Ratings = {1, 5}
    Keys = {praised, criticised}
    PageSize = 2
    TopN = 1
    Names <- CollidingNames
    Longest = 2
    MaxNodes = 2
    MaxChildren = 2
INVARIANTS
    SchemaFollowsRevision
    HeadMatchesModels
    EveryMigrationApplies
    PruningSparesHistory
    WalkShowsAll
    OverviewAddsUp
    SummaryIsTheDifference
    TreeIsReply
CHECK_DEADLOCK FALSE
