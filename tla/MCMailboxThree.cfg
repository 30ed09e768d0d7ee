SPECIFICATION Spec
CONSTANTS
    Instances = {i1}
    NoInstance = NoInstance
    DateOf <- InOrder3
    Failing = {}
    MaxMessagesPerPoll = 1
    ReadBefore = 0
    Reorders = TRUE
    MaxValidity = 3
    MaxGeneration = 1
    MaxExpunged = 1
INVARIANTS MailInv NothingSkipped CheckpointCoversUnread
