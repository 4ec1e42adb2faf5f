SPECIFICATION RepairSpec
CONSTANTS
    Key = {1, 2, 3}
    v1 = v1
    Value = {v1}
    Absent = Absent
    Tombstone = Tombstone
    LogKey = {3}
    Levelings = {2, 3}
    Threshold = 2
    BaseSize = 1
    Multiplier = 2
    MaxInt = 3
    Workers = 2
    TaskSize = 2
    BlockSize = 1
    MaxSize = 2
    Batches <- MCBatches
    MaxTable = 5
    MaxDamage = 1
    MayGoBad = {"CURRENT"}
    Faults = {"write", "manifest", "unlink"}
INVARIANT
    NoOldValue
CHECK_DEADLOCK FALSE
