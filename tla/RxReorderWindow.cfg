SPECIFICATION FairSpec
CONSTANTS
    M = 12
    B = 3
    First = 9
    Last = 13
    Gap = 2
    MaxSession = 2
INVARIANTS
    TypeOK
    WindowExact
    InOrder
    DropJustified
    TimerCovers
    TimerQuiet
PROPERTIES
    HeadJustified
    StoredLeaves
CHECK_DEADLOCK FALSE
