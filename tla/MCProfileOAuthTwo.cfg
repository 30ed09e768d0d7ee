SPECIFICATION Spec
SYMMETRY Symmetry
CONSTANTS
    w1 = w1
    w2 = w2
    w3 = w3
    i1 = i1
    i2 = i2
    c1 = c1
    c2 = c2
    Workers = {w1, w2, w3}
    Instances = {i1, i2}
    Home <- TwoInstances
    Owner = i1
    Clients = {c1, c2}
    Basic = Basic
    Gone = Gone
    NoJob = NoJob
    Free = Free
    MaxJobs = 2
    MaxTokens = 2
    MaxLost = 1
CHECK_DEADLOCK FALSE
INVARIANT TokenOfClientAnywhere
