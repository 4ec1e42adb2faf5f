SPECIFICATION Spec
CONSTANTS
    SyncPolicy = "SyncEveryWrite"
    BufferSize = 2
    SegmentSize = 6
    MaxData = 1
    MaxRecord = 3
    MaxFailures = 1
    Misread = 1
    Faults = {"header", "tear"}
INVARIANTS
    DurableReplayed
CHECK_DEADLOCK FALSE
