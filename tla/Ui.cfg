\* Four requests, two of which may fail; the pipe may break at any time.
SPECIFICATION FairSpec
CONSTANTS
    MayBreak = TRUE
    MaxClicks = 4
    MaxErrors = 2
INVARIANTS
    TypeOK
    ConsentFirst
PROPERTIES
    ClickAnswered
    WaitingEnds
