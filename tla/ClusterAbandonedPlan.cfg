SPECIFICATION Spec
CONSTANTS
    Nodes = {1, 2, 3, 4, 5}
    Keys = {k1}
    InitialNodes = {1, 2, 3}
    Distance <- KeptFirstDistance
    ReplicaCount = 3
    Consistency = "majority"
    MaxRetainedTombstones = 1
    MaxHotReplicaKeys = 1
    MaxSequence = 3
    SlowNodes = {}
    FaultyNodes = {1, 2, 3, 4, 5}
    FailingNodes = {}
    HotExtras = {}
    SnapshotNodes = {}
    LeavingNodes = {}
    TxKeys <- SingleKeys
    Profiles = {"majority"}
INVARIANTS
    NoResurrection
