SPECIFICATION FairSpec
CONSTANTS
    Cores = {c0}
    Resolution = 1
    BufferSize = 1
    MaxTime = 0
    MaxRuns = 1
    MaxRecords = 2
PROPERTIES
    ErrorsGetReported
    SessionEnds
CHECK_DEADLOCK FALSE
