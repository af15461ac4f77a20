SPECIFICATION GpuSpec
CONSTANTS
    g1 = g1
    w1 = w1
    w2 = w2
    c1 = c1
    c2 = c2
    zero = zero
    GpuKeys = {g1}
    WatchKeys = {w1, w2}
    SubscriberWidth = 256
    MaxGpuWatch = 2
    Clients = {c1, c2}
    Requests <- ListsOfDistinct
    ZeroKey = zero
    Deletable = {}
    FastMin = 1
    FastMax = 3
    FastDflt = 1
    SlowMin = 2
    SlowMax = 4
    SlowDflt = 2
    EnvFast = 3
    TickWidth = 8
    SlowReads = {"ECC", "VIOLATION"}
    p1 = p1
    ConfigGpus = {d1}
    Callers = {p1, p2}
    Flags = {"memory", "overdrive"}
    SpecAttrs = {"compute", "memory", "overdrive", "perf"}
    SmiBackends = {"amdsmi", "gimamdsmi"}
    MaxIds <- GpuMaxIds
    MaxResetIds = 1
    Getters = {t1, t2}
    Handles = {h1, h2, h3}
    Partitioned = {h1, h2}
    First = h1
    MaxSamples = 3
    WslGetters = {x1, x2}
    WslHandles = {h1, h2, h3}
    WslPartitioned = {h1, h2}
    WslFirst = h1
    MaxFetches = 3
SYMMETRY ClientSymmetry
CHECK_DEADLOCK FALSE
INVARIANTS
    GpuTypeOK
    SubscriberCountMatches
    FastNeverStale
    DriftExplained
    PartitionInEffect
    GetReportsItsSample
    WslReportsItsSample
PROPERTIES
    SlowTierFresh
