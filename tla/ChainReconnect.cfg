\* Two connections of two frames, one fault on the first, under fairness.
SPECIFICATION FairSpec
CONSTANTS
    MaxConn = 2
    MaxFrames = 2
    MaxFaults <- FirstTapped
INVARIANTS
    TypeOK
    AlarmsBounded
    TamperEvident
PROPERTIES
    TranscriptSpec
    DeadSessionReleased
CHECK_DEADLOCK FALSE
