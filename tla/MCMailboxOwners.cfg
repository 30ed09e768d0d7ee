SPECIFICATION Spec
SYMMETRY Symmetry
CONSTANTS
    Instances = {i1, i2}
    NoInstance = NoInstance
    DateOf <- Together
    Failing = {}
    MaxMessagesPerPoll = 1
    ReadBefore = 0
    Reorders = FALSE
    MaxValidity = 2
    MaxGeneration = 2
    MaxExpunged = 0
INVARIANTS NothingSkipped
