SPECIFICATION FairSpec
CONSTANTS
    Cores <- AllCores
    Options <- CommandLines
    ThreadsPerCore = 2
    EngineCount = 2
    MaxCycles = 1
    MaxSignals = 2
PROPERTIES
    SecondSignalAborts
CHECK_DEADLOCK FALSE
