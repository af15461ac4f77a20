SPECIFICATION AgentSpec
CONSTANTS
    a1 = a1
    a2 = a2
    GpuKeys = {g1, g2}
    WatchKeys = {w1, w2}
    SubscriberWidth = 3
    MaxGpuWatch = 3
    MaxDevices = 3
    MaxPartitions = 3
    Faults = {"parent", "gpu"}
    Clients = {c1, c2}
    Gpus = {g1, g2}
    GpuObjects = {g1, g2}
    Events = {e1}
    NoEvent = e0
    NoGpu = none
    EventsDisabled = FALSE
    MaxBatch = 1
    MaxReads = 0
    PageGpus = {p1, p2}
    MaxIds = 2
    MaxPages = 2
    BatchSize = 3
    CountWidth = 3
    CperRecords = 5
    CperRound = 2
    CperMax = 3
    Agents = {a1, a2}
    Transports <- AgentTransports
    Backend <- AgentBackend
    MaxStarts <- AgentStarts
    GimRequests = {q1}
    GimGpus = {gg}
    GimFaults = {"init", "shutdown", "read"}
    MaxLives = 6
    Shortages <- ShowShortages
    MaxTrouble = 2
CHECK_DEADLOCK FALSE
INVARIANTS
    AgentTypeOK
    WatchedGpuPresent
    HierarchyAgrees
    FreedIsForgotten
    ConnectedKeepsListening
    RecordsComplete
    LibraryOutlivesCallbacks
    ServesOnItsSocket
    SessionsSound
    CountersReported
    RepliesFaithful
    ScreenFaithful
    HealthyIsFull
PROPERTIES
    EventKeepsPromise
