SPECIFICATION Spec
CONSTANTS
    Nodes = {1, 2, 3}
    Keys = {k1, k2}
    InitialNodes = {1, 2, 3}
    Distance <- SortedDistance
    ReplicaCount = 3
    Consistency = "majority"
    MaxRetainedTombstones = 1
    MaxHotReplicaKeys = 1
    MaxSequence = 3
    SlowNodes = {3}
    FaultyNodes = {2, 3}
    FailingNodes = {2}
    HotExtras = {}
    SnapshotNodes = {1}
    LeavingNodes = {}
    TxKeys <- AnyKeys
    Profiles = {"majority"}
INVARIANTS
    TombstonesBounded
    ReadsCommitted
    LiveCopyFound
