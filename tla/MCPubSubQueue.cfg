\* Four deliveries, one malformed, two workers, room for two messages.
CONSTANTS
    Receipts = {r1, r2, r3, r4}
    Malformed = {r4}
    Workers = {w1, w2}
    MaxMessages = 2
    None = None
SPECIFICATION FairSpec
INVARIANTS
    SettledAtMostOnce
    NothingStranded
    NothingUnsentAfterCancel
PROPERTIES
    EventuallySettled
    CloseCompletes
    ImplementsPort
CHECK_DEADLOCK FALSE
