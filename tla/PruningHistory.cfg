SPECIFICATION HistorySpec
CONSTANTS
    Ns = {1, 2, 3, 7, 25}
    MaxCount = 180
INVARIANTS
    LoopIsDropped
    DistancesAsDocumented
CHECK_DEADLOCK FALSE
