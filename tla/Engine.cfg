SPECIFICATION Spec
CONSTANTS
    k1 = k1
    k2 = k2
    k3 = k3
    g1 = g1
    t1 = t1
    t2 = t2
    v1 = v1
    v2 = v2
    ValueBytes <- MCValueBytes
    TagSets <- MCTagSets
    Keys = {k1, k2, k3}
    Tags = {g1}
    Values = {v1, v2}
    Threads = {t1, t2}
    OverheadBytes = 1
    LeaseBytes = 3
    MaxEntries = 2
    MaxMemoryBytes = 5
    MaxEntryBytes = 4
    EvictionPolicy = "lru"
    Ttls = {1}
    Stales = {0}
    LeaseSeconds = 1
    Forever = 9
    MaxClock = 1
    MaxTokens = 1
    BatchSize = 1
    JournalKeys = {k1, k2, k3}
INVARIANTS
    TagIndexExact
    LeaseTableSound
    Capacity
PROPERTIES
    RollbackExact
    WriteSurvives
SYMMETRY Interchangeable
