SPECIFICATION FairSpec
CONSTANTS
    Cores <- AllCores
    Options <- CommandLines
    ThreadsPerCore = 2
    EngineCount = 2
    MaxCycles = 3
    MaxSignals = 3
INVARIANTS
    FailureIsFinal
    SummaryTellsRuns
    ExitCodeTellsRuns
    NothingStartsAfterStop
    CyclesAreComplete
PROPERTIES
    SessionEnds
CHECK_DEADLOCK FALSE
