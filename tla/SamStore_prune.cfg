SPECIFICATION Spec
CONSTANTS
    Key = {k1, k2}
    Value = {v1}
    Absent = Absent
    Tombstone = Tombstone
    SyncPolicy = "SyncEveryWrite"
    BufferSize = 2
    MaxBatch = 1
    MaxSegment = 3
    MaxTable = 2
    Faults = {"remove", "replay"}
SYMMETRY Symmetry
PROPERTY PruneKeepsAnswers
CHECK_DEADLOCK FALSE
