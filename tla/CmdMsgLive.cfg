SPECIFICATION FairSpec
CONSTANTS
    c1 = c1
    c2 = c2
    Client <- Clients
    Module <- TwoModules
    Pri <- TwoPri
    Work <- IoWork
    AbortKind <- Abort
    PendMdl <- PsPends
    IoEvt <- Io
    ExclMdl = "none"
    MaxMsg = 1
    MaxSend = 1
    MaxReq = 1
    MaxPeriod = 1
    Cancels = TRUE
    Fails = FALSE
    Stops = TRUE
INVARIANTS
    MsgConservation
    AbortBarrier
PROPERTIES
    Answered
CHECK_DEADLOCK FALSE
