SPECIFICATION Spec
CONSTANTS
    None = None
    Bad = Bad
    FamilyOrder <- MCFamilies
    OODFamilies = {"Recon"}
    Corpora <- MCCorpora
    Buckets = {0, 1}
    MaxScripts = 7
    Plans <- MCPlans
    MaxKills = 1
    TrainTargets <- MCTargets
    AttackRatio = 1
    MaxAttackRows = 4
    MaxTrainRows = 3
    KernelTrainRows = 2
    BenchmarkCaps = {None, 1}
    PromotionCaps <- MCPromotionCaps
    Grid = {0, 1}
    Half = 1
    Caps <- MCCaps
    RankCap = 1
    OODCap = 2
    Gate = 2
    Trials = 2
    ClosedSet = {"DDoS", "DoS"}
INVARIANTS
    
    
    SelectionHonest
    
    ReleaseIsWhole
CHECK_DEADLOCK FALSE
