SPECIFICATION LifecycleSpec
CONSTANTS
    Client = {c1}
    Nobody = Nobody
    AutoCheckpoint = FALSE
    Limit = 2
    Threshold = 1
    MaxTables = 2
    MaxErrors = 0
    MayFail = {}
PROPERTY DirectoryOwned
CHECK_DEADLOCK FALSE
