CONSTANTS
    Initial <- MCInitial
    Booted <- MCBooted
    Thresholds <- MCThresholds
    Order <- MCOrder
    Values <- MCValues
    Deltas = {1}
    MinGain <- MCMinGain
    MaxGain = 0
    Faults = TRUE
    MaxValue = 1
    MaxStale = 2
SPECIFICATION Spec
INVARIANTS
    SettingAgainHeals
PROPERTY SetupKeepsValues
