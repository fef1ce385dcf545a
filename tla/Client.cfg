\* Every part of the client besides its screen.
CONSTANTS
    s1 = s1
    s2 = s2
    p1 = p1
    p2 = p2
    Session = {s1, s2}
    MaxEntries = 1
    MemoryLimit = 2
    MaxRecorded = 3
    MaxFaults = 1
    MaxClears = 1
    AloneEntries = 3
    AloneRecorded = 5
    Command = {p1, p2}
    Written <- Handwriting
    Candidate = {0, 1}
    MaxEdits = 1
    MaxRows = 2
    MaxRemovals = 1
    Buffer <- Buffers
    Cap = {1, 3}
    Limit = 6
    ValueLimit = 4
    MaxTroubles = 2
    Typed <- TypedLines
    Metas = {"quit", "complete", "format", "use", "help"}
    MaxLines = 4
    Asked <- AskedFor
    Profiles <- Profs
    Services <- Servs
    Environments <- Envs
    PasswordFiles <- Files
    MaxAttempts = 3
    Target = {"t1", "t2"}
    MaxRev = 1
    MaxBytes = 2
    MaxReviews = 2
SYMMETRY Alike
SPECIFICATION Spec
INVARIANTS
    SharedStaysInOrder
    FilesAreWhole
    ExportsAreAsTold
    MigrationIsBackedUp
    RunIsToldTruly
    BoundTextMeetsItsLexer
    ListIsOfTheseLines
    SentIsWholeAndConfirmed
    OpenedAsAsked
    ReadyIsWhole
PROPERTIES
    KeepsTheNewest
\* Every part ends: its bounds are reached.
CHECK_DEADLOCK FALSE
