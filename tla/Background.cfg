\* The inbox of a session and the reads of the catalogue, one of them to a behaviour.
SPECIFICATION BackgroundSpec
CONSTANTS
    Caller = {c1, c2}
    NoCaller = none
    CountMax = 2
    MaxCount = 2
    MaxText = 4
    ShortBytes = 1
    LongBytes = 3
    PrivateBytes = 2
    MaxObserved = 4
    Name = {a}
    NoName = nobody
    MaxRoots = 1
    MaxRequest = 2
    MaxReload = 1
    MaxGeneration = 1
INVARIANTS
    WindowsAreBounded
    EveryNoticeIsAccountedFor
    ReportsCatchUp
PROPERTIES
    PrivacyIsSticky
    WaitsEnd
