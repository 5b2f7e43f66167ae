\* Two connections, no faults: the login race.
SPECIFICATION Spec
CONSTANTS
    MaxConn = 2
    MaxFrames = 2
    MaxFaults <- NoneTapped
INVARIANTS
    AtMostOneSession
CHECK_DEADLOCK FALSE
