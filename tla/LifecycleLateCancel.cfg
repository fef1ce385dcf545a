SPECIFICATION Spec
CONSTANTS
    MaxGeneration = 1
    MaxJob = 2
    MaxAttempt = 1
INVARIANTS
    OnlyRequestedJobsAreCancelled
