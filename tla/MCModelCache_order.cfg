SPECIFICATION Spec
CONSTANTS
    p1 = p1
    p2 = p2
    Procs = {p1, p2}
    Keys <- TwoKeys
    MaxVersion = 3
    InitialRows = {0, 1}
    Allowed = {"save", "update", "insert", "delete"}
SYMMETRY Symmetry
INVARIANTS NoWriteCycle
PROPERTIES CachedTableSpec
