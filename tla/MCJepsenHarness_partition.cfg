CONSTANTS
    k = k
    v = v
    v2 = v2
    Keys = {k}
    EmptyKey = k
    NonStringKeys = {}
    Values = {v}
    Absent = Absent
    OpIds = {1}
    MaxDepth = 100
    NodeCount = 5
    NemesisType = "partition"
    MaxMessages = 1
    MaxHistory = 3
SPECIFICATION Spec
INVARIANTS
    TypeOK
    MajorityConnected
CHECK_DEADLOCK FALSE
