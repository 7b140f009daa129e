SPECIFICATION FairSpec
CONSTANTS
    StreamCount = 1
    KindOf <- MCAlerts
    MaxLines = 3
    ClassOf <- MCLines
    Ingestors = {i1, i2}
    MaxFiles = 2
    MaxTruncates = 1
    MaxTears = 1
    MaxCrashes = 1
INVARIANTS ResumeIsSafe IdentifiedOnce
 
