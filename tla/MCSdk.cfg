SPECIFICATION SdkSpec
CONSTANTS
    s1 = s1
    s2 = s2
    Senders = {m1, m2}
    MaxMessages = 3
    MaxSuspends = 2
    SyncCallers = {s1}
    AsyncCallers = {s2}
    MaxSerial <- IpcSerials
    Timers = {t1, t2}
    WheelUsers = {u1, u2}
    NSlices = 2
    SliceIntvl = 2
    Timeouts = {1, 4}
    MaxTimeout = 4
    DelayDelete = 3
    MaxMissed = 1
    SlabBlocks = {b1, b2, b3}
    Null = Null
    ElemsPerBlock = 2
    Workers = {w1, w2}
    OnceThreads = {o1}
    Rounds = 2
    Count = 2
    WatchShortages <- WatchShowShortages
    MaxWatchTrouble = 2
    MaxTicks = 3
SYMMETRY WheelSymmetry
CHECK_DEADLOCK FALSE
INVARIANTS
    SdkTypeOK
    LoopOutlivesStop
    WakeUpsArrive
    NothingForgotten
    OwnReply
    WheelKeepsTimers
    PoolSound
    RowsFaithful
    WatchMatchesGet
PROPERTIES
    IpcPromise
    SlabAllocator
    SlowReadingsLast
