SPECIFICATION FairSpec
CONSTANTS
    g1 = g1
    w1 = w1
    w2 = w2
    c1 = c1
    c2 = c2
    zero = zero
    GpuKeys = {g1}
    WatchKeys = {w1, w2}
    SubscriberWidth = 256
    MaxGpuWatch = 2
    Clients = {c1, c2}
    Requests <- OneOfTwo
    ZeroKey = zero
    Deletable = {w1}
INVARIANTS
    ForgottenBeforeMarked
PROPERTIES
    UnreachableIsMarked
    WatchKeepsPromise
CHECK_DEADLOCK FALSE
