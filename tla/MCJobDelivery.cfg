\* One job, two worker loops, three attempts, the lease and budget of the code.
CONSTANTS
    Jobs = {j1}
    Slots = {w1, w2}
    MaxAttempts = 3
    LeaseSeconds = 60
    JobTimeout = 90
    NoJob = NoJob
SPECIFICATION FairSpec
INVARIANTS
    AckImpliesReplied
    ApologyOnlyWhenExhausted
    RepliesBounded
PROPERTIES
    ImplementsContract
CHECK_DEADLOCK FALSE
