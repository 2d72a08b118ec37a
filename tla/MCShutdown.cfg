\* 30, 90, 1, 11, 2, 60 and 120 seconds; a request may take up to 102 s.
CONSTANTS
    Workers = {w1, w2}
    Grace = 20
    ProbeTime = 17
    DrainTimeout = 5
    JobTimeout = 15
    PollTime = 1
    JoinTimeout = 2
    CloseTimeout = 1
    CallTime = 10
SPECIFICATION ShutdownSpec
INVARIANTS ExitsWithinGrace ReleasedBeforeKill
CHECK_DEADLOCK FALSE
