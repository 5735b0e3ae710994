SPECIFICATION Spec
CONSTANTS
    Instances = {i1, i2}
    MaxGpg = 3
    Convs = {}
    MaxEndSession = 1
    HasXAgent = FALSE
    HasExtraPort = FALSE
    User = User
    NoOne = NoOne
INVARIANTS
    TypeOK
    OneInstance
    
    OneAgent
PROPERTIES
    OwnFiles
SYMMETRY Symmetry
CHECK_DEADLOCK FALSE
