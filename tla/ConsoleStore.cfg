SPECIFICATION Spec
CONSTANTS
    Missing = Missing
    MaxBackups = 3
    KeepLast = 1
    MaxWrites = 1
INVARIANTS VersionMeansTables UpgradeResumable RestorableIsReady 
