\* Three requests for three hosts, one end of the process or of the session.
SPECIFICATION Spec
CONSTANTS
    Addresses = {a1, a2}
    Names = {n1}
    a1 = a1
    a2 = a2
    n1 = n1
    Room = 5
    MaxRequests = 3
    MaxExits = 1
INVARIANTS
    TypeOK
    ZeroMeansPrepared
    CleanRunSucceeds
    RulesWhole
    PreparedIsIntact
CHECK_DEADLOCK FALSE
