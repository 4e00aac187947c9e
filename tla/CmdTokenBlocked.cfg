SPECIFICATION Spec
CONSTANTS
    c1 = c1
    c2 = c2
    Band <- TwoBands
    Client <- Clients
    ExclClient <- OneExclusive
    MaxReq <- TwoEach
    MaxAdd = 1
    MaxMsg = 3
    WatchdogOn = FALSE
    Cancels = TRUE
    AcquireFails = FALSE
    TornStatus = FALSE
INVARIANTS
    BlockedByExclusiveCmd
CHECK_DEADLOCK FALSE
