SPECIFICATION WindowSpec
CONSTANTS
    Instances = {i1}
    MaxGpg = 3
    Convs = {v1}
    MaxEndSession = 1
    HasXAgent = TRUE
    HasExtraPort = FALSE
    User = User
    NoOne = NoOne
    MaxExplorer = 2
    MaxSession = 3
    MaxEnd = 1
INVARIANTS
    IconRight
    LockFollows

    
CHECK_DEADLOCK FALSE
