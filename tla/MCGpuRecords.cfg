SPECIFICATION RecordsSpec
CONSTANTS
    PageGpus = {p1}
    MaxIds = 2
    MaxPages = 1
    BatchSize = 3
    CountWidth = 3
    CperRecords = 3
    CperRound = 2
    CperMax = 3
CHECK_DEADLOCK FALSE
INVARIANTS FieldIdsOfOwnRecord
