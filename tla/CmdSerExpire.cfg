SPECIFICATION Spec
CONSTANTS
    Timeouts = FALSE
    MaxPoll = 1
    MaxFault = 1
    MaxExt = 1
    LogOnly = FALSE
    Fails = FALSE
INVARIANTS
    PendingCleared
CHECK_DEADLOCK FALSE
