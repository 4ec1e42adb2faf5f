SPECIFICATION Spec
CONSTANTS
    Key = {k1}
    Value = {v1}
    Absent = Absent
    Tombstone = Tombstone
    SyncPolicy = "SyncInterval"
    BufferSize = 1
    MaxBatch = 2
    MaxSegment = 3
    MaxTable = 2
    Faults = {"append", "flush", "rotate", "sstable", "manifest", "list", "remove", "cleanup", "unlink", "replay"}
SYMMETRY Symmetry
INVARIANTS
    TypeOK
    ManifestMatches
    FreshTableID
    StickyErrorHasWork
    CutoffsOrdered
CHECK_DEADLOCK FALSE
