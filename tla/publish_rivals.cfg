SPECIFICATION Spec
CONSTANTS
    c1 = c1
    c2 = c2
    j1 = j1
    j2 = j2
    j3 = j3
    NoJob = NoJob
    Collectors = {}
    Commits = {c1, c2}
    Jobs <- RivalJobs
    Tags <- RivalTags
    Plan <- RivalPlan
    Notes <- SameNotes
    Names = {"x86_64", "aarch64"}
    PointsTo <- Chain
    Refs <- RivalRefs
    MaxFaults = 2
    MaxEdits = 2
INVARIANT PublicIsVerified
INVARIANT DoneIsPublished
INVARIANT OneCommitPerRelease
CHECK_DEADLOCK FALSE
