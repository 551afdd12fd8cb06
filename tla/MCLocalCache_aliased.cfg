SPECIFICATION Spec
CONSTANTS
    p1 = p1
    p2 = p2
    p3 = p3
    Procs = {p1, p2}
    Params <- AsConfigured
    Kinds = {"update"}
    MaxFailures = 0
    MaxTime = 6
    MaxVersion = 2
SYMMETRY Symmetry
INVARIANTS InvalidationIsNotLost
