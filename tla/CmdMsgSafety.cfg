SPECIFICATION Spec
CONSTANTS
    c1 = c1
    c2 = c2
    Client <- Clients
    Module <- TwoModules
    Pri <- TwoPri
    Work <- MixedWork
    AbortKind <- Abort
    PendMdl <- AllPend
    IoEvt <- Io
    ExclMdl = "none"
    MaxMsg = 2
    MaxSend = 1
    MaxReq = 2
    MaxPeriod = 1
    Cancels = FALSE
    Fails = TRUE
    Stops = FALSE
INVARIANTS
    TypeOK
    MsgConservation
    AbortBarrier
    DeliveredToAll
    NoLostWakeup
    NoStrandedPending
    CtrlFirst
    SenderSilenced
CHECK_DEADLOCK FALSE
