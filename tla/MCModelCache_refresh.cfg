SPECIFICATION FairSpec
CONSTANTS
    p1 = p1
    p2 = p2
    Procs = {p1, p2}
    Keys <- OneKey
    MaxVersion = 2
    InitialRows = {1}
    Allowed = {"update", "get", "txGet", "expiry"}
PROPERTIES StaleEntriesGo
