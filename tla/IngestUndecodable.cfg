SPECIFICATION FairSpec
CONSTANTS
    StreamCount = 1
    KindOf <- MCAlerts
    MaxLines = 2
    ClassOf <- MCBadLines
    Ingestors = {i1}
    MaxFiles = 1
    MaxTruncates = 0
    MaxTears = 0
    MaxCrashes = 0
PROPERTIES EveryLineLands
