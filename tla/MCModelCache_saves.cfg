SPECIFICATION Spec
CONSTANTS
    p1 = p1
    p2 = p2
    Procs = {p1, p2}
    Keys <- OneKey
    MaxVersion = 4
    InitialRows = {0, 1}
    Allowed = {"save", "insert", "create", "txGet", "get", "forUpdate"}
SYMMETRY Symmetry
INVARIANTS CoherentWhenUnlocked NoImmortalEntry
PROPERTIES CachedTableSpec
