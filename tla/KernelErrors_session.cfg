SPECIFICATION Spec
CONSTANTS
    Cores = {c0}
    Resolution = 1
    BufferSize = 2
    MaxTime = 1
    MaxRuns = 1
    MaxRecords = 1
INVARIANTS
    WatchesWholeSession
CHECK_DEADLOCK FALSE
