SPECIFICATION Spec
CONSTANTS
    CcdSize = 2
    SlotCount = 4
    WordSize = 65536
    MaxMargin = 100
    Sessions <- AllSessions
INVARIANTS
    AskedCoresAreTested
    TelemetryIsOfTheCore
CHECK_DEADLOCK FALSE
