SPECIFICATION Spec
CONSTANTS
    Images = 2
    PromptCounts = {0, 2}
    Scene <- MCScene
    MaxDetections = 4
    Seed <- MCSeed
    Segmentation <- MCSegmentation
    ClipScore = {1000, 9900}
    MaxFailures = 1
CHECK_DEADLOCK FALSE
INVARIANTS
    TypeOK
    ApprovedIsSegmented
    GateAgrees
    UnapprovedIsRanked
    RankingBands
    CocoIsComplete
