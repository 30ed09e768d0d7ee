SPECIFICATION Spec
SYMMETRY Symmetry
CONSTANTS
    withPart = withPart
    plain = plain
    broken = broken
    p1 = p1
    c1 = c1
    Workers = {w1, w2}
    NoWorker = NoWorker
    Emails = {withPart, plain, broken}
    NoEmail = NoEmail
    Malformed = {broken}
    Service = {plain}
    Parts = {p1}
    PartsOf <- MCPartsOf
    Conversations = {c1}
    ConversationOf <- MCConversationOf
    ReceivedAt <- MCReceivedAt
    MaxAttempts = 2
    MaxGeneration = 2
INVARIANTS ConfirmedDurable EventExactlyOnce
