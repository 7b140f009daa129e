SPECIFICATION FairSpec
CONSTANTS
    Strip <- MCStrip
    Columns <- MCColumns
    Aliases <- MCAliases
    MetadataKeys = {"source_flow_id"}
    ProfileKey = "adapter_profile"
    Profiles <- MCProfiles
    Inputs <- MCInputs
    MaxFaults = 2
    BatchSize = 2
    MaxLacking = 1
    MaxRows = 2
    Captures <- MCCaptures
INVARIANTS
    
    BatchingIsInvisible
    FeaturesHaveOneSource
    WindowIsWhole
PROPERTIES
    QuietStreamFlushes
CHECK_DEADLOCK FALSE
