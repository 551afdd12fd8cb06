SPECIFICATION FairSpec
CONSTANTS
    s1 = s1
    s2 = s2
    s3 = s3
    Slots = {s1, s2, s3}
    Dbs = {1, 2}
    Conns = 2
    DbStages = {"Process"}
    Careful = TRUE
INVARIANTS TypeOK NobodyLeavesUnanswered ConnectionsAreOwned
PROPERTIES RefusedRequestsAreNotProcessed EveryRequestEnds
