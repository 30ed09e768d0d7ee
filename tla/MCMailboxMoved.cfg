SPECIFICATION Spec
CONSTANTS
    Instances = {i1}
    NoInstance = NoInstance
    DateOf <- Moved
    Failing = {}
    MaxMessagesPerPoll = 1
    ReadBefore = 0
    Reorders = FALSE
    MaxValidity = 2
    MaxGeneration = 1
    MaxExpunged = 0
INVARIANT OlderWasRead
