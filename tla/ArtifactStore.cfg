SPECIFICATION Spec
CONSTANTS
    Puts = {p1, p2, p3}
    Keys = {k1, k2}
    Contents = {a, b}
SYMMETRY StoreSymmetry
INVARIANT
    ReuseIsRefused
PROPERTIES
    EvidenceIsImmutable
    KeepsContract
