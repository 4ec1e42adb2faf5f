SPECIFICATION LifecycleSpec
CONSTANTS
    Client = {c1}
    Nobody = Nobody
    AutoCheckpoint = TRUE
    Limit = 2
    Threshold = 1
    MaxTables = 2
    MaxErrors = 1
    MayFail = {"freeze", "flush", "prune", "compaction", "read", "sync", "save"}
INVARIANT NoTableForgotten
PROPERTIES
    WorkerOwnsDirectory
    CloseReturns
    FrozenFlushed
CHECK_DEADLOCK FALSE
