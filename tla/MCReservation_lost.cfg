SPECIFICATION Spec
CONSTANTS
    Keys = {1, 2, 3}
    Priority <- SomePriority
    Fields <- TwoColumns
    Options <- PlainSave
    Failures = FALSE
    TasksSave = TRUE
    MaxTasks = 0
INVARIANTS NoReservationIsLost
