SPECIFICATION FairSpec
CONSTANTS
    c1 = c1
    c2 = c2
    Band <- TwoBands
    Client <- Clients
    ExclClient <- OneExclusive
    MaxReq <- TwoEach
    MaxAdd = 1
    MaxMsg = 2
    WatchdogOn = TRUE
    Cancels = FALSE
    AcquireFails = TRUE
    TornStatus = FALSE
PROPERTIES
    RequestsServed
CHECK_DEADLOCK FALSE
