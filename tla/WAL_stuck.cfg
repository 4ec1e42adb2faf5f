SPECIFICATION FairSpec
CONSTANTS
    SyncPolicy = "SyncInterval"
    BufferSize = 2
    SegmentSize = 6
    MaxData = 2
    MaxRecord = 4
    MaxFailures = 1
    Misread = 1
    Faults = {"fail"}
PROPERTIES
    AppendReturns
CHECK_DEADLOCK FALSE
