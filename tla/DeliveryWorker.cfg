SPECIFICATION FairSpec
CONSTANTS
    MaxAlerts = 2
    Groups = {"g1", "g2"}
    GroupOf <- MCApart
    Flows = {"f1", "f2"}
    FlowOf <- MCFlows
    Rules <- MCNoRules
    Dispatchers = {d1}
    Redrivers = {o1}
    MaxAttempts = 2
    BaseBackoff = 1
    MaxBackoff = 2
    RetryAfters = {2}
    WindowFactor = 2
    QueueLimit = 2
    DispatchLimit = 1
    RedriveLimit = 2
    MaxCrashes = 1
    MaxRedrives = 1
INVARIANTS DuplicatesAreBlind
PROPERTIES FailsForCause Implements 
