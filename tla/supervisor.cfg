SPECIFICATION FairSpec
CONSTANTS
    p1 = p1
    p2 = p2
    p3 = p3
    Procs = {p1, p2, p3}
    command = p1
INVARIANT NothingSurvives
INVARIANT OwnNumbersStay
PROPERTY EveryStopEnds
CHECK_DEADLOCK FALSE
