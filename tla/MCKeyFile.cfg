CONSTANTS
    Processes = {p1, p2, p3}
    Keys = {k1, k2, k3}
    Missing = Missing
    Empty = Empty
    None = None
SYMMETRY MCSymmetry
SPECIFICATION Spec
INVARIANTS
    OneKeyServed
PROPERTY SettledForGood
CHECK_DEADLOCK FALSE
