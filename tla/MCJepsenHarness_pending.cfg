CONSTANTS
    k = k
    v = v
    v2 = v2
    Keys = {k}
    EmptyKey = k
    NonStringKeys = {}
    Values = {v}
    Absent = Absent
    OpIds = {1, 2}
    MaxDepth = 100
    NodeCount = 2
    NemesisType = "none"
    MaxMessages = 0
    MaxHistory = 4
SPECIFICATION Spec
INVARIANT AnswersAreRecorded
CHECK_DEADLOCK FALSE
