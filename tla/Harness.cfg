SPECIFICATION Spec
CONSTANTS
    Ids = {i1, i2, i3}
    MaxToolCalls = 1
    MaxEvents = 4
INVARIANTS
    BlockedIsNoSuccess
    BudgetFailureIsReal
    ScoredWithoutRuntimeDir
PROPERTY IsPartOfTheRun
