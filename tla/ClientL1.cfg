CONSTANTS
    Threads = {t1, t2}
    Keys = {k}
    MaxVersion = 2
    None = none
    Other = other

SPECIFICATION Spec

INVARIANTS
    ReadsNoticed
    ReadYourWrites

PROPERTIES
    CallsEnd
