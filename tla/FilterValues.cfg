CONSTANTS
    Products = {"xmap", "mercury", "stj", "saturn"}
    Fdd <- MCFdd
    Topics <- MCTopics
    Values <- MCValues
    Start <- MCStart
    FakePT = 4
    MinLen = 2
    MaxSlow = 10
    MaxFast = 8
    MaxWidthLimit = 4
    Types = {"RESET", "RC"}
    MaxFaults = 1
    MaxCalls = 3
CHECK_DEADLOCK FALSE
SPECIFICATION Spec
INVARIANTS
    ReportedIsFixedPoint
PROPERTIES
    SuccessHolds
    OthersUndisturbed
    RestartReproduces
