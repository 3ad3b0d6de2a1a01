SPECIFICATION Spec
CONSTANTS
    Boots = {1, 2}
    Kernels <- TwoKernels
    Entries = 10
    LowRamEnd = 3
    HighRamBase = 4
    PageOffset = 2
    DirectMapEnd = 12
    ImageBase = 20
    RegionOff <- Offsets
    RegionSize <- Sizes
    RegionPhys <- Places
    Va <- Addresses
    PerCpu <- Areas
    Unset = 1
    Runs = 2
    MaxSamples = 2
    MaxTicks = 1
INVARIANT HeartbeatIsDurable
INVARIANT ReportMatchesFile
INVARIANT SampleIsTrue
CHECK_DEADLOCK FALSE
