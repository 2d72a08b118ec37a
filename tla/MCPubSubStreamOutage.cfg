\* The silent outage, with three streams.
CONSTANT MaxStreams = 3
SPECIFICATION FairSpec
PROPERTIES
    NoSilentOutage
CHECK_DEADLOCK FALSE
