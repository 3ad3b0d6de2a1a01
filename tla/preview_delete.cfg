SPECIFICATION CFairSpec
CONSTANTS
    c1 = c1
    c2 = c2
    j1 = j1
    k1 = k1
    k2 = k2
    k3 = k3
    NoJob = NoJob
    Commits = {c1, c2}
    Jobs = {j1}
    Tags <- PreviewTags
    Plan <- PreviewPlan
    Notes <- PreviewNotes
    Names = {"x86_64", "aarch64"}
    Collectors = {k1, k2, k3}
    Order <- Orders
    PointsTo <- OneObject
    Refs <- PreviewRefs
    MaxFaults = 1
    MaxEdits = 1
PROPERTY KeepsComplete
PROPERTY TagOutlivesRelease
PROPERTY DoneIsGone
PROPERTY EveryCollectionEnds
CHECK_DEADLOCK FALSE
