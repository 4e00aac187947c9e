SPECIFICATION FairSpec
CONSTANTS
    Timeouts = FALSE
    MaxPoll = 1
    MaxFault = 2
    MaxExt = 0
    LogOnly = FALSE
    Fails = FALSE
PROPERTIES
    WatchdogNoticed
CHECK_DEADLOCK FALSE
