SPECIFICATION FairSpec
CONSTANTS
    Timeouts = TRUE
    MaxPoll = 1
    MaxFault = 2
    MaxExt = 2
    LogOnly = TRUE
    Fails = TRUE
INVARIANTS
    TypeOK
    PausedOwned
    RecoveryQuiet
    RestReleased
    PollAlive
    PsClaimKnown
    PendingInRecovery
PROPERTIES
    RecoveryEnds
    ErrorNoticed
CHECK_DEADLOCK FALSE
