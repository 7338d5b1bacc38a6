CONSTANTS
    Nodes = {n0, n1, n2}
    Commands = {a, b}
    MaxRound = 3
    MaxKills = 1
SYMMETRY Symmetry
SPECIFICATION Spec
INVARIANTS
    OneLogUntilKill
    DecidedPrefixUntilKill
CHECK_DEADLOCK FALSE
