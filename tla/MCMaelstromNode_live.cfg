CONSTANTS
    k = k
    v1 = v1
    v2 = v2
    Keys <- MCKeys
    EmptyKey = k
    NonStringKeys = {}
    Values = {v1}
    Absent = Absent
    Nodes = {0, 1}
    Ids = {c1, c2}
    Nemesis = {"partition", "kill"}
    MaxRestarts = 1
SPECIFICATION FairSpec
PROPERTIES
    EveryRequestAnswered
    DecidedIsAnswered
