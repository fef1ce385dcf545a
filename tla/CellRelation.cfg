SPECIFICATION Spec
CONSTANTS
    Row = {1, 2}
    Column = {1, 2}
    Path = {"home", "away", "temporary"}
    MaxJob = 3
    MaxRequest = 1
    MaxGeneration = 1
INVARIANTS
    UpdatesTheRelationRead
