SPECIFICATION Spec
CONSTANTS
    Profiles = {a, b, c}
    MaxConcurrency = 2
    MaxOpenConnections = 2
CHECK_DEADLOCK FALSE
INVARIANT WaitsForPolling
