SPECIFICATION Spec
CONSTANTS
    Nodes = {1, 2, 3}
    Keys = {k1, k2}
    Callers = {c1}
    FailingNodes = {3}
    LeaseSeconds = 1
    MaxLeases = 2
    MaxLeaseBytes = 2
    MaxTokens = 2
    MaxClock = 2
    MaxFaults = 2
INVARIANTS
    NoLateWrite
    LeasesCounted
PROPERTIES
    LedAgain
