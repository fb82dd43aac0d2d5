CONSTANTS
    Log <- SmallLog
    Hook <- SmallHook
    KeysOf <- SmallKeysOf
    Edges <- SmallEdges
    Tagged = {"a"}
    Malformed = {"bad"}
    MaxDepth = 1
    MaxInvalidationNodes = 3
    MaxSeenEvents = 1
    MaxDeadLetters = 2
    MaxReplayTokens = 2
    MaxRecords = 2
    MaxFaults = 2
    MaxCrashes = 1

SPECIFICATION Spec

INVARIANTS
    NoSilentSkip

PROPERTIES
    CheckpointsAdvance
    ChangesSettle
