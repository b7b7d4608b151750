SPECIFICATION Spec
CONSTANTS
    Workers = {"w1", "w2"}
    Processes = {"p1", "p2"}
    Homes <- OneOrTwoProcesses
    Keys = {k1, k2}
    Values = {v1, v2}
    NoValue = noValue
    Inodes = {i1, i2, i3}
    None = none
    Nobody = nobody
    MaxOps = 4
    MaxKills = 2
SYMMETRY Symmetry
INVARIANTS TypeOK OutcomesExplained
PROPERTIES ImplementsMap
CHECK_DEADLOCK FALSE
