CONSTANTS
    Topics <- MCTopics
    Values <- MCValues
    FlashValue <- MCFlashValue
    MaxSlow = 10
    MaxTimer = 15
    MaxFast = 6
    StandardFast = 4
    MaxGain = 12
    MaxTrim = 6
    MaxThreshold = 7
    MaxBins = 4
    MaxBinWidth = 3
    MaxScas = 3
    MaxPreset = 6
    MaxInterval = 9
    MaxTau = 7
    MaxWait = 20
    MaxVolts = 6
    BaselineScale = 12
    MaxFaults = 1
    MaxCalls = 3
CHECK_DEADLOCK FALSE
SPECIFICATION Spec
INVARIANTS
    CacheCoherent
    DataFitsLength
PROPERTIES
    SetMakesTrue
