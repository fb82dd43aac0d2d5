CONSTANTS
    Requesters = {admin, scheduler}
    Scheduler = scheduler
    Clients = {c}
    Values = {1}
    Kinds = {"backup", "restore_validate", "dr_drill", "restore", "tenant_delete"}
    RetentionCount = 1
    MaxOperations = 2
    KeptOperations = 1
    History = 1
    MaxRequests = 3
    MaxFaults = 1
    MaxCrashes = 1

SPECIFICATION Spec

INVARIANTS
    RecordsHaveArtifacts
    DeletedHoldsNothing
    RestoreIsAtomic

PROPERTIES
    DeletionIsFinal
    OperationsEnd

CHECK_DEADLOCK FALSE
