\* Recovery after up to two renumberings, with an expunge, and its liveness.
SPECIFICATION FairSpec
CONSTANTS
    Instances = {i1}
    NoInstance = NoInstance
    DateOf <- InOrder3
    Failing = {}
    MaxMessagesPerPoll = 1
    ReadBefore = 1
    Reorders = TRUE
    MaxValidity = 3
    MaxGeneration = 1
    MaxExpunged = 1
INVARIANTS
    CheckpointCoversUnread
PROPERTY EventuallyRead
