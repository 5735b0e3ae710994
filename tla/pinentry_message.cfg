SPECIFICATION Spec
CONSTANTS
    Procs = {p1}
    Keys = {k1}
    Pins = {a}
    Empty = Empty
    None = None
INVARIANTS
    EveryCommandAnswered
CHECK_DEADLOCK FALSE
