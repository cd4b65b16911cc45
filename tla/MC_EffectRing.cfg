SPECIFICATION RingSpec
CONSTANTS
    Slots = {s1}
    Programs <- MCPrograms
    Calibrations <- MCCalibrations
    Sticks <- MCSticks
    Window = 2
    RingSize = 6
    Grace = 3
    MaxTick = 3
    MaxRequests = 2
    MaxRounds = 4
    UrbRefused = TRUE
    Overlap = FALSE
INVARIANT RingIndexedByTick
INVARIANT WindowCoversItsTicks
INVARIANT CarryIsChained
CHECK_DEADLOCK FALSE
