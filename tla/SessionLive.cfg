\* Two connections of two frames, one heartbeat gap, the run started and ended, under fairness.
SPECIFICATION FairSpec
CONSTANTS
    Conn = {c1, c2}
    c1 = c1
    c2 = c2
    MaxReads = 2
    MaxFlags = 0
    MaxStalls = 1
    MaxChanges = 2
    MaxClears = 0
    MaxRestarts = 0
    Failing = {"count"}
INVARIANTS
    OfflineOncePerLogin
PROPERTIES
    FinishedStaysQuiet
    GoneGoesOffline
CHECK_DEADLOCK FALSE
