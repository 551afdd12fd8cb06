SPECIFICATION FairSpec
CONSTANTS
    p1 = p1
    p2 = p2
    Procs = {p1, p2}
    Keys <- OneKey
    MaxVersion = 3
    InitialRows = {1}
    Allowed = {"save", "update", "get", "rollback", "expiry"}
INVARIANTS NoImmortalEntry
PROPERTIES StaleEntriesGo
