CONSTANTS
    Products = {"xmap", "mercury", "stj"}
    ClearTimeouts = TRUE
    PixelsPerFill = 2
    WordSize = 100
    MaxPixel = 7
    PollScale = 1
SPECIFICATION FairSpec
INVARIANTS
    WaitsForTheOldest
PROPERTIES
    IsQueue
    FullBuffersAreServed
