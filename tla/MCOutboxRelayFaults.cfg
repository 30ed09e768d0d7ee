\* Safety: two instances, a valid and an invalid event, two faults.
CONSTANTS
    Events = {e1, bad}
    Invalid = {bad}
    Instances = {i1, i2}
    NoInstance = NoInstance
    NoEvent = NoEvent
    BatchSize = 2
    LeaseDuration = 2
    MaxPublish = 1
    RetryInitial = 2
    RetryMax = 3
    MaxFaults = 2
SYMMETRY Symmetry
SPECIFICATION Spec
INVARIANTS
    TypeOK
    LeaseCoversSend
    PublishedWasRouted
    LeasesAccounted
    RelayInv
PROPERTY ImplementsOutbox
