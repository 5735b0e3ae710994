SPECIFICATION RelaysSpec
CONSTANTS
    Conns = {c1}
    MaxUp = 2
    MaxDown = 2
    HasDeadline = FALSE
    IgnoreSessionLock = FALSE
    MaxSent = 3
    MaxStalls = 2
INVARIANTS
    WholeRight
PROPERTIES
    PipeSpec
    PairedTeardown
    BothPipes
    ProcessEnds
CHECK_DEADLOCK FALSE
