SPECIFICATION Spec
CONSTANTS
    r1 = r1
    Requests = {r1}
    NoRow = NoRow
    NoList = NoList
    Texts <- TwoTexts
    KeyLen = 2
    FullKeys <- ThreeRows
    Questions <- SomeQuestions
    MasterWrites = FALSE
    MaxChanges = 1
    Versions = {"", "v1"}
    EmptyVersion = ""
INVARIANTS TypeOK ResultsMatchTheKeys LookupsAreComplete LockedResultsAreLocked EarlySavesStayUnlocked DeletedRowsAreUnlisted
PROPERTIES LockedModelsAreKept
