SPECIFICATION FairSpec
CONSTANTS
    Procs = {p1}
    p1 = p1
    Others = Others
    Chunks = 1
    Requests <- AllRequests
    Meddlers = {"output", "stage", "reserve", "image"}
    MaxMeddle = 1
INVARIANT ReportMatchesOutcome
INVARIANT KeyIsLast
INVARIANT NoResidue
PROPERTY KeepsOthers
PROPERTY Atomic
PROPERTY CancelledStaysUnpublished
PROPERTY CancelledExportEnds
CHECK_DEADLOCK FALSE
