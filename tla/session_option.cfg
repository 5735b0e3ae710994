SPECIFICATION Spec
CONSTANTS
    MaxCalls = 2
    MaxInquire = 0
INVARIANTS
    AnsweredOnce
CHECK_DEADLOCK FALSE
