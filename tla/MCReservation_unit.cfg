SPECIFICATION Spec
CONSTANTS
    Keys = {1, 2, 3}
    Priority <- SomePriority
    Fields <- TwoColumns
    Options <- AllOptions
    Failures = TRUE
    TasksSave = TRUE
    MaxTasks = 1
INVARIANTS TypeOK NeverSavedAndDeleted AcceptedColumnsAreWritten BatchIsComplete BatchIsOrdered UnsyncedRowsStayReserved
PROPERTIES UnitOfWorkSpec
