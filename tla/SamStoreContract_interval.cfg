SPECIFICATION ContractSpec
CONSTANTS
    Key = {k1}
    Value = {v1}
    Absent = Absent
    Tombstone = Tombstone
    SyncPolicy = "SyncInterval"
    BufferSize = 2
    MaxBatch = 3
    MaxSegment = 2
    MaxTable = 2
    Faults = {"append", "flush", "manifest"}
PROPERTY KeepsContract
CHECK_DEADLOCK FALSE
