SPECIFICATION FairSpec
CONSTANTS
    Conns = {c1}
    MaxUp = 1
    MaxDown = 2
    HasDeadline = TRUE
    IgnoreSessionLock = FALSE
INVARIANTS
    TypeOK
    WgBalanced
    InOrder
    LockWindow
    FreshSilent
PROPERTIES
    Collected
CHECK_DEADLOCK FALSE
