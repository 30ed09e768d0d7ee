SPECIFICATION FairSpec
CONSTANTS
    Instances = {i1}
    NoInstance = NoInstance
    DateOf <- InOrder2
    Failing = {}
    MaxMessagesPerPoll = 1
    ReadBefore = 0
    Reorders = FALSE
    MaxValidity = 2
    MaxGeneration = 2
    MaxExpunged = 0
PROPERTY EventuallyRead
