\* Two sessions of one student, and a goroutine that does what the others do.
SPECIFICATION Spec
CONSTANTS
    s1 = s1
    s2 = s2
    t1 = t1
    d1 = d1
    alice = alice
    None = None
    Sessions <- TwoSessions
    Teachers <- Nobody
    People <- OnePerson
    Person <- OwnerOfTwo
    Asks <- AllAsks
    Daemons <- OneDaemon
    Duties <- AllDuties
    Room = 1
SYMMETRY Symmetry
INVARIANTS
    NoCircularWait
    IdleHoldsNothing
    NoWriteAfterClose
