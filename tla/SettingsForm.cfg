SPECIFICATION Spec
CONSTANTS
    Nodes = {n1, n2}
    Fields = {f1, f2}
    Values = {v1, v2}
    MaxMounts = 2
    MaxEvents = 2
SYMMETRY Symmetry
INVARIANTS CleanMeansSaved
PROPERTIES OthersKept
CHECK_DEADLOCK FALSE
