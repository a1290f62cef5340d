SPECIFICATION Spec
CONSTANTS
    None = None
    Requests = {q1, q2, q3}
    Codes = {c1}
    MaxPairs = 4
    MaxRotations = 1
SYMMETRY MCSymmetry
CHECK_DEADLOCK FALSE
PROPERTY
    RefusedIsDropped
