CONSTANTS
    Single <- OnlySaturn
    Several <- NoProduct
    Faults <- StopFaults
SPECIFICATION Spec
INVARIANTS
    StopRunStops
