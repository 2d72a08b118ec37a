\* Four streams: three failures in a row, at any point of the supervision.
CONSTANT MaxStreams = 4
SPECIFICATION FairSpec
INVARIANTS
    OpenStreamIsHeld
    NoStreamAfterClose
PROPERTIES
    UnhealthyRecovers
    SupervisorsEnd
CHECK_DEADLOCK FALSE
