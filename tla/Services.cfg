SPECIFICATION Spec
CONSTANTS
    Recorders = {w1}
    FileCap = 2
    HookCap = 1
    LiveCap = 2
    FileBatch = 2
    HookBatch = 1
    Page = 1
    MaxSize = 2
    MaxBackups = 1
    MaxAuditEvents = 4
    MaxAuditFaults = 2
    MaxLives = 2
    Channels <- MCChannels
    Streams = {s1, s2, s3}
    BusSlots = 2
    QueueCap = 2
    MaxPublished = 4
    MaxStreams = 4
    ShadowReqs = {q1, q2}
    PairSlots = 2
    TaskCap = 1
    EvalCap = 2
    MaxEvals = 4
    TraceCap = 2
    RecentCap = 2
    TraceBatch = 2
    MaxTraces = 5
    MaxConfigs = 1
    PoolThreads = {t1, t2, t3}
    PoolSize = 2
    MaxPoolCalls = 5
    MaxPoolFaults = 3
    Keys = {1, 2, 3, 4}
    Values = {1, 2, 3, 4}
    Nodes = {11, 12, 13, 14}
    Capacity = 3
    TableCap = 2
    ModelRows = {"m1", "m2"}
    ProviderRows = {"p1"}
    MaxWrites = 1
    MaxCommands = 2
INVARIANTS
    AuditAccounted
    ChainSpansRotation
    BusAccounted
    PairsSettle
    TraceAccounted
    PoolCounted
    RotationAtomic
PROPERTIES
    StopDrains
    ImplementsMap
CHECK_DEADLOCK FALSE
