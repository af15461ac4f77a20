SPECIFICATION EventSpec
CONSTANTS
    Clients = {c1}
    Gpus = {g1}
    GpuObjects = {g1}
    Events = {e1}
    NoEvent = e0
    NoGpu = none
    EventsDisabled = FALSE
    MaxBatch = 1
    MaxReads = 1
CHECK_DEADLOCK FALSE
INVARIANTS ReadReportsOnlyThePast
