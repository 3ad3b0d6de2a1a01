SPECIFICATION FetchedSpec
CONSTANTS
    Subjects = {"balloon", "pmem"}
    Texts = {1, 2}
    Series <- ThreeVersions
    MaxCommits = 2
    MaxWork = 2
    MaxFaults = 0
PROPERTY AdviceBuildsTracked
