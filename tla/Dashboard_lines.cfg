SPECIFICATION FairSpec
CONSTANTS
    Main = "main"
    Monitor = "monitor"
    MaxLen = 3
    Heights = {0, 1, 2}
    MaxLines = 4
    MaxInterrupts = 2
INVARIANTS
    NoLineIsForgotten
    ViewIsAnchored
    WindowIsFull
    DrawsOnOpenTerminal
    TerminalIsRestored
    ErrorIsReported
PROPERTIES
    CloseReturns
CHECK_DEADLOCK FALSE
