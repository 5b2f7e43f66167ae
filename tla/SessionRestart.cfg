\* Two connections of two frames, one clear, one restart.
SPECIFICATION Spec
CONSTANTS
    Conn = {c1, c2}
    c1 = c1
    c2 = c2
    MaxReads = 2
    MaxFlags = 1
    MaxStalls = 0
    MaxChanges = 1
    MaxClears = 1
    MaxRestarts = 1
    Failing = {"update"}
SYMMETRY Symmetry
INVARIANTS
    TypeOK
    StatsCurrent
    FlagsTold
PROPERTIES
    StoredFlagsKept
CHECK_DEADLOCK FALSE
