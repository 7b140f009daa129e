SPECIFICATION ActivationSpec
CONSTANTS
    Bundles = {a, b}
    NoBundle = NoBundle
    Operators = {o1}
    MaxCommands = 4
INVARIANTS  ReadyIsHonest
PROPERTIES RollbackReturns
