CONSTANTS
    Single <- NoProduct
    Several <- ManyChannels
    Faults <- StopFaults
SPECIFICATION Spec
INVARIANTS
    StopRunStops
