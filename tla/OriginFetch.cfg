SPECIFICATION Spec
CONSTANTS
    Callers = {c1, c2}
    Workers = {w1}
    Paths = {p1}
    RefreshQueueSize = 1
    MaxFollowers = 1
    GlobalMaxFollowers = 1
    None = None
    Other = Other
INVARIANTS
    RegistriesExact
    NoLateRefresh
    PauseIsQuiet
PROPERTIES
    FetchesEnd
    WorkersStop
