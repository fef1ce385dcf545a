SPECIFICATION FairSpec
CONSTANTS
    MaxGeneration = 2
    MaxJob = 2
    MaxAttempt = 2
INVARIANTS
    ResultOfThisConnection
    BusyJobIsAttended
    GateUncontended
    HistoryIsTruthful
    OneReviewOwner
PROPERTIES
    ConnectingSettles
    KeepsPromise
