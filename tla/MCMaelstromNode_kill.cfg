CONSTANTS
    k = k
    v1 = v1
    v2 = v2
    Keys <- MCKeys
    EmptyKey = k
    NonStringKeys = {}
    Values <- MCValues
    Absent = Absent
    Nodes = {0, 1}
    Ids = {c1, c2}
    Nemesis = {"partition", "kill"}
    MaxRestarts = 1
SYMMETRY IdSymmetry
SPECIFICATION Spec
INVARIANTS
    TypeOK
    ReplicaAgreement
    AtMostOnce
    RepliesAreResults
    OneReplyPerLife
PROPERTY Linearizable
