\* One poll at a time.
SPECIFICATION FairSpec
CONSTANTS
    Profiles = {a, b, c}
    MaxConcurrency = 1
    MaxOpenConnections = 2
CHECK_DEADLOCK FALSE
INVARIANTS PoolInv GridInv
PROPERTY EventuallyConnected
