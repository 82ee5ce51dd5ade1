CONSTANTS
    Products = {"xmap", "mercury", "stj", "saturn"}
    Topics <- MCTopics
    Values <- MCValues
    Start <- MCStart
    Block = 4
    MinBins = 4
    MaxBins = 12
    BinWidth = 2
    MaxScas = 2
    WordSize = 4
    PresetScale = 2
    Auto = 9
    MaxFaults = 0
    MaxCalls = 3
CHECK_DEADLOCK FALSE
SPECIFICATION Spec
INVARIANT
    FreedOnce
