SPECIFICATION OfflineSpec
CONSTANTS
    None = None
    Names <- TwoVariants
    Settings <- BalancedAndPaired
    MaxEvents = 1
    MaxUndos = 1
    Candidates = {c1, c2}
    Curators = {p1, p2}
    TakenId = id0
    MaxDeaths = 1
    Nothing = Nothing
    Evaluations = {e1, e2}
    Datasets = {golden, replay}
    Recorded = {replay}
    Cases = {a, b}
    Levels = {0, 1}
    Threshold = 1
    MaxKills = 1
    Absent = Absent
    Failed = Failed
INVARIANTS
    PromotionIsComparable
    CorrectionIsKept
    RegressionIsCaught
PROPERTIES
    CampaignEnds
CHECK_DEADLOCK FALSE
