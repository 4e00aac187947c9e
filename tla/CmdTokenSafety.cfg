SPECIFICATION Spec
CONSTANTS
    c1 = c1
    c2 = c2
    Band <- TwoBands
    Client <- Clients
    ExclClient <- AllExclusive
    MaxReq <- OneAndTwo
    MaxAdd = 1
    MaxMsg = 3
    WatchdogOn = FALSE
    Cancels = TRUE
    AcquireFails = TRUE
    TornStatus = TRUE
INVARIANTS
    TypeOK
    ExclusiveIsolated
    TokenCountExact
    SlotConservation
    NoLostWakeup
    AbortMessageAwaited
    NoMutualClearance
PROPERTIES
    ClearanceHeld
    ImplementsToken
CHECK_DEADLOCK FALSE
