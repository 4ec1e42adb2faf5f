SPECIFICATION PartsSpec
CONSTANTS
    Manifest = {m1, m2, m3}
    None = None
    MaxGeneration = 4
    Faults = {"write", "rename", "remove"}

    SkipKey = {1, 2, 3}
    SkipValue = {0, 2}
    MaxHeight = 2
    MemWriter = {w1, w2}
    Overhead = 1
    MemLimit = 4

    Block = {"small", "big"}
    BlockBytes <- MCBlockBytes
    FileOf <- MCFileOf
    Reader = {r1, r2}
    Slice = {1, 2, 3, 4, 5}
    Capacity = 2
    MaxPooled = 2

    LogName = {"a"}
    LogValue = {"", "x"}
    Entry <- MCEntry
    MaxLogTables = 2

    LogWriter = {w1, w2}
    Largest = 3
    Given = {2}
    MaxBatchSize = 1
    MaxRestarts = 1

    TableKey <- MCTableKey
    Text = {0, 5}
    Interval = 2
    BlockTarget = 8
    MaxRecords = 3

    FilterItem = {"i", "j"}
    HashPair <- MCHashPair
    Wrap = 8
    WordBits = 2
    MaxWords = 2
    MaxHashes = 2

    Letter = {"a", "b"}
    MaxPattern = 3
    MaxTarget = 3

    Base = 4
    LabelText <- MCLabelText
    LogTime <- MCLogTime
    LogNumber = {15}
    MaxMessage = 0
    MaxLabels = 2

    MaxWrites = 2
    MaxSegments = 3
    MaxTableFiles = 2
SYMMETRY Symmetry
INVARIANTS
    ReadsTheMap
    SizeMatches
    ReadsOwnBlock
    CacheAccounts
    ForgottenStaysOut
    QueryExact
    NumbersFresh
    TableAnswers
    IteratorExact
    FilterSafe
    MatcherExact
    LogComesBack
    BackupExact
PROPERTIES
    IsAtomic
CHECK_DEADLOCK FALSE
