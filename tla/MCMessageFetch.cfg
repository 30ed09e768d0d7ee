SPECIFICATION FairSpec
CONSTANTS
    MaxUID = 7
    WindowSize = 3
    MaxMessagesPerPoll = 4
    FetchBatchSize = 3
    Mailboxes <- MCMailboxes
    ReadBefore = {2, 3, 7}
    LongBefore = {2}
    MaxArrivals = 1
    MaxExpunged = 1
    MaxFaults = 1
INVARIANTS
    SearchExact
    CursorCovers
    ConnectClean
PROPERTIES
    InUIDOrder
    EventuallyHandled
