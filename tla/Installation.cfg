SPECIFICATION InstallSpec
CONSTANTS
    OperatorEdits <- MCOperatorEdits
    LiveEdits <- MCLiveEdits
    MaxRuns = 3
    MaxFaults = 1
INVARIANTS
    EditsSurvive
PROPERTIES
    InstallFailsForCause
    CompleteMeansReady
