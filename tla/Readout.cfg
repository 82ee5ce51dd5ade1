SPECIFICATION Spec
CONSTANTS
    ModuleChannels = 2
    Block = 2
    StjStats = 4
    StjCounted = 1
    ScaHeader = 1
    ScaMemBase = 100
    ScaOffset = 10
    MaxAddr = 200
    MaxScas = 4
    Lengths <- MCLengths
    MaxBins = 4
    BaseLen = 2
    MaxTime = 1
    MaxFaults = 1
    MaxCalls = 3
INVARIANTS
    OneInstant
    OwnData
    DataFitsLength
    SnapshotsAgree
PROPERTIES
    ErrorIsReported
CHECK_DEADLOCK FALSE
