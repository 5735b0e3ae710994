SPECIFICATION AssuanSpec
CONSTANTS
    MaxCalls = 4
    MaxInquire = 2
    Alphabet = {"x", "%", "LF", "2", ":"}
    MaxText = 3
    MaxLineLen = 7
    Ways = {"params", "answer", "inquire", "stream", "error"}
    MaxTexts = 2
    Order <- Two
    Values = {none, t}
    Default = none
    PinLines = {0, 1, 2}
    MaxCommands = 5
    MaxAsked = 2
INVARIANTS
    TypeOK
    Unmixed
    TextRight
    ClientRight
PROPERTIES
    ChannelSpec
    CallsReturn
    AskerReturns
CHECK_DEADLOCK FALSE
