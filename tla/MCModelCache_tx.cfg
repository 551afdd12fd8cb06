SPECIFICATION Spec
CONSTANTS
    p1 = p1
    p2 = p2
    Procs = {p1, p2}
    Keys <- OneKey
    MaxVersion = 3
    InitialRows = {0, 1}
    Allowed = {"save", "insert", "update", "delete", "txGet", "get", "forUpdate", "create", "bareForUpdate", "rewrite", "rollback", "fault"}
SYMMETRY Symmetry
INVARIANTS TypeOK LockedModelsAreCurrent LockedSavesAreCurrent TxModelsAreCommitted DeletedRowsAreInvalidated
