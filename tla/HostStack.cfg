SPECIFICATION Spec
CONSTANTS
    Bundles = {b1, b2}
    None = None
    MaxCommands = 4
    MaxFaults = 1
SYMMETRY Symmetry
PROPERTIES ReadyMeansScoring RecoveryReloads BootstrapFailsForCause
