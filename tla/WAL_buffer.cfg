SPECIFICATION FairSpec
CONSTANTS
    SyncPolicy = "SyncInterval"
    BufferSize = 2
    SegmentSize = 6
    MaxData = 3
    MaxRecord = 3
    MaxFailures = 1
    Misread = 1
    Faults = {"fail"}
INVARIANTS
    DurableReplayed
    SizeCoversFile
    AcceptedHeldInOrder
    ClosedKeepsAll
PROPERTIES
    BufferDrains
    AppendReturnsUnlessFailed
CHECK_DEADLOCK FALSE
