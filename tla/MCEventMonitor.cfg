SPECIFICATION FairEventSpec
CONSTANTS
    Clients = {c1}
    Gpus = {g1, g2}
    GpuObjects = {g1}
    Events = {e1}
    NoEvent = e0
    NoGpu = none
    EventsDisabled = FALSE
    MaxBatch = 2
    MaxReads = 2
CHECK_DEADLOCK FALSE
INVARIANTS ReadReportsThePast
PROPERTIES UnreachableIsMarked ReadReturns
