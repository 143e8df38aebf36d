SPECIFICATION Spec
CONSTANTS
    Cores = {c0, c1}
    Resolution = 2
    BufferSize = 1
    MaxTime = 2
    MaxRuns = 2
    MaxRecords = 2
INVARIANTS
    AttributionCorrect
    UntimedNotEarlier
    SummaryIsFinal
    ReportedOnceInOrder
    ReadIsRecorded
SYMMETRY CoreSymmetry
CHECK_DEADLOCK FALSE
