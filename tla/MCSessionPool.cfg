SPECIFICATION Spec
SYMMETRY Symmetry
CONSTANTS
    Profiles = {a, b, c, d, e, f}
    MaxConcurrency = 3
    MaxOpenConnections = 3
CHECK_DEADLOCK FALSE
INVARIANTS ConnectionsBounded PermitsExact PollingKept NoGridlock
