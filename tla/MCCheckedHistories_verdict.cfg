CONSTANTS
    k1 = k1
    k2 = k2
    v1 = v1
    v2 = v2
    Keys = {k1, k2}
    EmptyKey = k1
    NonStringKeys = {}
    Values = {v1, v2}
    Absent = Absent
    OpIds = {1, 2, 3}
    MaxDepth = 100
    MaxHistory = 6
SYMMETRY ValueSymmetry
SPECIFICATION Spec
INVARIANTS
    TypeOK
    PassIsLinearizable
    AnsweredFailIsViolation
CHECK_DEADLOCK FALSE
