SPECIFICATION Spec
CONSTANTS
    g1 = g1
    w1 = w1
    w2 = w2
    c1 = c1
    c2 = c2
    zero = zero
    GpuKeys = {g1}
    WatchKeys = {w1, w2}
    SubscriberWidth = 256
    MaxGpuWatch = 2
    Clients = {c1}
    Requests <- TwoWatches
    ZeroKey = zero
    Deletable = {}
INVARIANT NoFreedContext
CHECK_DEADLOCK FALSE
