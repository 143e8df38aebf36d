SPECIFICATION FairSpec
CONSTANTS
    AllCores <- TwoCores
    Slots <- ThreeSlots
    NoCore = "none"
    Noise = 5
    Threshold = 50
    Drops = {5, 50}
    MaxRuns = 2
    MaxSamples = 2
INVARIANTS
    PaneIsCurrent
    WorstRunIsShown
    SummaryIsVerdict
PROPERTIES
    DropIsRefreshed
CHECK_DEADLOCK FALSE
