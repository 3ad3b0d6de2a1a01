SPECIFICATION FairSpec
CONSTANTS
    c1 = c1
    c2 = c2
    j1 = j1
    j2 = j2
    j3 = j3
    NoJob = NoJob
    Collectors = {}
    Commits = {c1, c2}
    Jobs <- LatestJobs
    Tags <- LatestTags
    Plan <- LatestPlan
    Notes <- SameNotes
    Names = {"x86_64"}
    PointsTo <- NoObjects
    Refs = {}
    MaxFaults = 2
    MaxEdits = 0
INVARIANT LatestIsCurrent
PROPERTY LatestAdvances
PROPERTY AllPublished
CHECK_DEADLOCK FALSE
