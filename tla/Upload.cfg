\* Two upload threads, two starts of the application, the run ended and reopened, under fairness.
SPECIFICATION FairSpec
CONSTANTS
    Uploads = {u1, u2}
    u1 = u1
    u2 = u2
    MaxStarts = 2
    MaxChanges = 2
    MaxInbox = 1
INVARIANTS
    TypeOK
    Flight
PROPERTIES
    EndIsActedOn
    SubmitSpec
    KeptUntouched
CHECK_DEADLOCK FALSE
