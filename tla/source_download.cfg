SPECIFICATION Spec
CONSTANTS
    x86_64 = x86_64
    aarch64 = aarch64
    Builds = {x86_64, aarch64}
    Chunks = 2
    MaxFaults = 1
    Concurrent = TRUE
PROPERTY TemporaryNotPromoted
CHECK_DEADLOCK FALSE
