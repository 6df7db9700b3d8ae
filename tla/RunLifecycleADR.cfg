SPECIFICATION Spec
CONSTANTS
    Runs = {r1}
    Scorers <- MCScorers
INVARIANT CleanupResultIsPersisted
