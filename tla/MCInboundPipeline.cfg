SPECIFICATION FairSpec
CONSTANTS
    withPart = withPart
    plain = plain
    broken = broken
    p1 = p1
    c1 = c1
    Workers = {w1, w2}
    NoWorker = NoWorker
    Emails = {withPart, plain}
    NoEmail = NoEmail
    Malformed = {}
    Service = {}
    Parts = {p1}
    PartsOf <- MCPartsOf
    Conversations = {c1}
    ConversationOf <- MCConversationOf
    ReceivedAt <- MCReceivedAt
    MaxAttempts = 2
    MaxGeneration = 2
INVARIANTS ConfirmedDurable ReadyComplete EventExactlyOnce LastMessageExact AttemptBudget OperatorWins
PROPERTIES OutcomeIsFinal EventuallyConfirmed
