SPECIFICATION FairSpec
CONSTANTS
    Conns = {c1, c2}
    Connectors = {"pipe", "cygwin"}
    MaxRequests = 2
    IgnoreSessionLock = FALSE
    NoOne = NoOne
INVARIANTS
    TypeOK
    NamesApart
PROPERTIES
    ServiceSpec
    Accepted
    Handled
CHECK_DEADLOCK FALSE
