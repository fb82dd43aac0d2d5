SPECIFICATION Spec
CONSTANTS
    Requests = {r1, r2, r3}
    Maximum <- SmallMaximum
    MaximumQueue <- SmallQueue
    FailureThreshold = 1
    HalfOpenRequests = 1
    RetryAttempts = 1
    RetryCapacity = 1
    Outcomes = {"answer", "rejected", "retryable", "broken", "policy"}
INVARIANTS
    BudgetExact
    NoLostWakeup
    BusyMeansProbing
PROPERTIES
    RequestsEnd
