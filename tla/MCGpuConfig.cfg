SPECIFICATION ConfigSpec
CONSTANTS
    ConfigGpus = {g1, g2}
    Callers = {c1}
    Flags = {"overdrive"}
    SpecAttrs = {"compute", "memory", "overdrive", "perf"}
    SmiBackends = {"wslamdsmi"}
    MaxIds <- ConfigMaxIds
    MaxResetIds = 2
CHECK_DEADLOCK FALSE
INVARIANTS ResetReachesAll
