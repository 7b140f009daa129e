SPECIFICATION Spec
CONSTANTS
    MaxAlerts = 2
    Groups = {"g1"}
    GroupOf <- MCBurst
    Flows = {"f1", "f2"}
    FlowOf <- MCFlows
    Rules <- MCOneRule
    Dispatchers = {d1}
    Redrivers = {o1}
    MaxAttempts = 2
    BaseBackoff = 1
    MaxBackoff = 2
    RetryAfters = {}
    WindowFactor = 2
    QueueLimit = 2
    DispatchLimit = 2
    RedriveLimit = 2
    MaxCrashes = 1
    MaxRedrives = 0
INVARIANTS QueueInv
 
