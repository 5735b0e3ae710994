SPECIFICATION Spec
CONSTANTS
    Procs = {p1, p2}
    Keys = {k1}
    Pins = {a}
    Empty = Empty
    None = None
INVARIANTS
    TypeOK
    FromCacheHonest
    VaultAgreed
    BoxKept
CHECK_DEADLOCK FALSE
SYMMETRY Symmetry
