SPECIFICATION Spec
CONSTANTS
    MaxGeneration = 1
    MaxJob = 1
    MaxAttempt = 1
INVARIANTS
    LostStatementIsReported
