SPECIFICATION FairSpec
CONSTANTS
    Threads <- TwoThreads
    Main = "main"
    Slots = 2
    MinInterval = 2
    Drivers = {"supported", "unsupported", "missing"}
    MaxTime = 3
    MaxInterrupts = 1
INVARIANTS
    SnapshotIsFresh
    DriverIsSpared
PROPERTIES
    DeniedOnlyWhileResolving
    CallsReturn
CHECK_DEADLOCK FALSE
