\* The lease and the budget of the code, two worker loops; the streams hold.
CONSTANTS
    Jobs = {j1}
    Slots = {w1, w2}
    MaxAttempts = 3
    LeaseSeconds = 60
    JobTimeout = 90
    NoJob = NoJob
SPECIFICATION SteadySpec
INVARIANTS
    NoConcurrentWork
CHECK_DEADLOCK FALSE
