SPECIFICATION FairSpec
CONSTANTS
    k1 = k1
    Keys = {k1}
    NoState = NoState
    Panic = Panic
    snapshot_interval = 1
    MAX_SNAPSHOTS = 1
    Chunks = 2
    MaxHeight = 3
    MaxFailures = 1
    MaxCrashes = 1
    Chains <- MCChains
INVARIANTS SameAsChain SyncedIsWhole
PROPERTIES StoreRefined CatchesUp
CHECK_DEADLOCK FALSE
