\* Three attempts, one after another or overlapping.
CONSTANT MaxAttempts = 3
SPECIFICATION Spec
INVARIANTS ReplyMatchesArchive SuccessIsReal
CHECK_DEADLOCK FALSE
