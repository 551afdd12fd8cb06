SPECIFICATION Spec
CONSTANTS
    p1 = p1
    p2 = p2
    p3 = p3
    Procs = {p1, p2, p3}
    Params <- Separate
    Kinds = {"update", "save"}
    MaxFailures = 1
    MaxTime = 10
    MaxVersion = 2
SYMMETRY Symmetry
INVARIANTS TypeOK InvalidationIsNotLost
