SPECIFICATION SchedFairSpec
CONSTANTS
    Target = 1
    MaxPasses = 2
    MaxSignals = 2
    Limits = {0, 40, 99}
INVARIANTS
    PassIsVerified
    ErrorIsReported
    CrashIsNotOurKill
    EngineOutlivesOnlyInWindow
    WorkDirKeptForFailures
    EngineInherits
    ControllerIsRestored
PROPERTIES
    ContractSpec
    RunTestReturns
CHECK_DEADLOCK FALSE
