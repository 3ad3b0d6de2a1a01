SPECIFICATION Spec
CONSTANTS
    Subjects = {"balloon", "pmem"}
    Texts = {1, 2}
    Series <- ThreeVersions
    MaxCommits = 2
    MaxWork = 4
    MaxFaults = 1
PROPERTY WorkKept
PROPERTY BuildsTrackedSeries
INVARIANT AdviceKeepsCommits
