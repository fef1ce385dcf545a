SPECIFICATION Spec
CONSTANTS
    Name = {a, b}
    NoName = none
    MaxRoots = 1
    MaxRequest = 3
    MaxReload = 2
    MaxGeneration = 2
INVARIANTS
    NodesHoldTheirOwn
    CatalogueIsTheLatest
    TreeIsOfThisConnection
    PanelsAnswerTheirQuestion
CONSTRAINT Paired
SYMMETRY Symmetry
