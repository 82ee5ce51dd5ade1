CONSTANTS
    Boards <- MCBoards
    Topics <- MCTopics
    Values <- MCValues
    Start <- MCStart
    Deltas <- MCDeltas
    Calibrations = {11, 12}
    FullScale = 12
    MaxGain = 4
    MaxDigital = 7
    MaxThreshold = 5
    MaxFaults = 1
    MaxCalls = 1
CHECK_DEADLOCK FALSE
SPECIFICATION Spec
PROPERTY
    AdjustReverts
