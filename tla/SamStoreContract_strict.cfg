SPECIFICATION ContractSpec
CONSTANTS
    Key = {k1}
    Value = {v1}
    Absent = Absent
    Tombstone = Tombstone
    SyncPolicy = "SyncEveryWrite"
    BufferSize = 2
    MaxBatch = 1
    MaxSegment = 3
    MaxTable = 3
    Faults = {"rotate", "sstable", "manifest", "list", "cleanup", "unlink"}
INVARIANTS
    LogCompletes
    LeftoversRepeat
PROPERTIES
    KeepsContract
    PruneKeepsAnswers
CHECK_DEADLOCK FALSE
