SPECIFICATION Spec
CONSTANTS
    Calls = {c1, c2}
    Stranger = Stranger
    NoOne = NoOne
    OperatorActs = FALSE
SYMMETRY CallSymmetry
INVARIANTS
    RunsOnItsOwn
    ResultLeavesNothing
    LeftoversAreReported
PROPERTIES
    OthersSurvive
    CallsGetOn
    KeepsContract
