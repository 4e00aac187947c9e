SPECIFICATION Spec
CONSTANTS
    c1 = c1
    c2 = c2
    Client <- Clients
    Module <- TwoModules
    Pri <- TwoPri
    Work <- ScanWork
    AbortKind <- Abort
    PendMdl <- PsPends
    IoEvt <- Io
    ExclMdl = "none"
    MaxMsg = 3
    MaxSend = 1
    MaxReq = 1
    MaxPeriod = 1
    Cancels = FALSE
    Fails = FALSE
    Stops = FALSE
INVARIANTS
    AbortMessageLast
CHECK_DEADLOCK FALSE
