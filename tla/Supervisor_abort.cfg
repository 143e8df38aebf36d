SPECIFICATION SchedSpec
CONSTANTS
    Target = 1
    MaxPasses = 1
    MaxSignals = 2
    Limits = {99}
INVARIANTS
    AbortKillsEngine
CHECK_DEADLOCK FALSE
