SPECIFICATION Spec
CONSTANTS
    M = 16
    B = 4
    First = 13
    Last = 18
    Gap = 3
    MaxSession = 1
INVARIANTS
    TimerFollowsFrame
CHECK_DEADLOCK FALSE
