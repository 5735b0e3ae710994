SPECIFICATION DesktopSpec
CONSTANTS
    N = 3
    Registered = {2, 3}
    f1 = f1
    f2 = f2
    Foreign <- MCForeign
    Extending <- MCExtending
    MaxStarts = 3
    Callers = {c1, c2}
    Nobody = Nobody
    Ops = {"add", "sub", "separator", "update", "hide", "show"}
    Private = TRUE
    MaxId = 3
    MaxMenus = 3
INVARIANTS
    TypeOK
    NoLeftovers
    Announced
    
PROPERTIES
    OthersKept
CHECK_DEADLOCK FALSE
