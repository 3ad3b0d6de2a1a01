SPECIFICATION FairSpec
CONSTANTS
    x86_64 = x86_64
    aarch64 = aarch64
    Builds = {x86_64, aarch64}
    Chunks = 3
    MaxFaults = 4
    Concurrent = FALSE
INVARIANT CacheIsWhole
INVARIANT PinnedIsVerified
INVARIANT MarkerMeansWhole
PROPERTY RerunBuilds
CHECK_DEADLOCK FALSE
