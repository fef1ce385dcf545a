SPECIFICATION Spec
CONSTANTS
    Row = {1, 2}
    Column = {1, 2}
    Path = {"home", "temporary"}
    MaxJob = 2
    MaxRequest = 2
    MaxGeneration = 2
INVARIANTS
    RefreshRunsTheRetainedSource
    OneOwner
PROPERTIES
    KeepsReview
    WritesNameTheShownCell
