CONSTANTS
    k = k
    v = v
    v2 = v2
    Keys = {k}
    EmptyKey = k
    NonStringKeys = {}
    Values = {v, v2}
    Absent = Absent
    OpIds = {1, 2}
    MaxDepth = 100
    NodeCount = 2
    NemesisType = "kill"
    MaxMessages = 1
    MaxHistory = 5
SYMMETRY ValueSymmetry
SPECIFICATION Spec
INVARIANTS
    NeverPanics
    KilledIffDead
    AnsweredRunPasses
CHECK_DEADLOCK FALSE
