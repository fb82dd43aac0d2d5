CONSTANTS
    Actors = {a, b}
    SegmentRecords = 2
    MaxSegments = 2
    MaxWrites = 6
    MaxFaults = 2
    MaxCrashes = 1
    None = none

SPECIFICATION Spec
CHECK_DEADLOCK FALSE

INVARIANTS
    NothingLost
    LogSound

PROPERTIES
    MakesRoom
