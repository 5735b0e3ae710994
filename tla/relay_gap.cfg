SPECIFICATION Spec
CONSTANTS
    Conns = {c1}
    MaxUp = 1
    MaxDown = 3
    HasDeadline = TRUE
    IgnoreSessionLock = TRUE
INVARIANTS
    GapFree
CHECK_DEADLOCK FALSE
