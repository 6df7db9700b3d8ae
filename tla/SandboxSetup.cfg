SPECIFICATION Spec
CONSTANTS
    Calls = {c1, c2}
    Stranger = Stranger
    NoOne = NoOne
    OperatorActs = FALSE
INVARIANT SetupFailureLeavesNothing
