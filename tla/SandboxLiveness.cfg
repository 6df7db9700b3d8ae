SPECIFICATION Spec
CONSTANTS
    Calls = {c1}
    Stranger = Stranger
    NoOne = NoOne
    OperatorActs = TRUE

PROPERTY EveryCallEnds
