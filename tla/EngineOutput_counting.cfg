SPECIFICATION Spec
CONSTANTS
    MinFft = 4
    MaxFft = 49
    Presets <- FftPresets
    Overrides <- FftOverrides
    DefaultPreset = "smallest"
    Algorithms <- Tests
    AlgorithmPresets <- TestPresets
    Options <- CommandLines
    Implemented <- InElements
    CpuCounts = {1, 2}
    MaxSteps = 9
INVARIANTS
    PassesAreCounted
CHECK_DEADLOCK FALSE
