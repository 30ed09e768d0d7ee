\* A valid and an invalid event, two instances, one fault of any kind.
CONSTANTS
    Events = {e1, bad}
    Invalid = {bad}
    Instances = {i1, i2}
    NoInstance = NoInstance
    NoEvent = NoEvent
    BatchSize = 2
    LeaseDuration = 2
    MaxPublish = 1
    RetryInitial = 1
    RetryMax = 1
    MaxFaults = 1
SPECIFICATION FairSpec
INVARIANTS
    LeaseCoversSend
    LeasesAccounted
PROPERTIES
    ImplementsOutbox
    EventuallySettled
