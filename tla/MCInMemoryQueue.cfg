\* Four jobs, two workers, a queue of two: puts and nacks have to wait.
CONSTANTS
    Jobs = {j1, j2, j3, j4}
    Workers = {w1, w2}
    Capacity = 2
    NoJob = NoJob
SPECIFICATION FairSpec
INVARIANTS
    NoJobLost
    OneCopy
PROPERTIES
    StopEndsUnlessFull
    ImplementsPort
CHECK_DEADLOCK FALSE
