SPECIFICATION FairSpec
CONSTANTS
    MaxWindows = 3
    MaxRecords = 2
    FileCount = 2
    MaxPending = 2
    MaxBatch = 3
    FlushInterval = 1
    MaxFailures = 1
INVARIANTS RecordsAccounted WindowsAreClosed
PROPERTIES SessionEnds
CHECK_DEADLOCK FALSE
