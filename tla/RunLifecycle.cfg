SPECIFICATION Spec
CONSTANTS
    Runs = {r1}
    Scorers <- MCScorers
INVARIANTS
    CleanupIsTruthful
    SuccessIsEarned
    RowMatchesEvidence
    ManifestClosesTheSet
    LeakIsConfessed
    ReproducibleIsEarned
PROPERTIES
    RowIsFinal
    EveryRunEnds
    RunsGetOn
    KeepsContract
