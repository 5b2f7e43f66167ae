\* A student, a teacher and the end of the run; each client may stop reading.
SPECIFICATION FairSpec
CONSTANTS
    s1 = s1
    d1 = d1
    s2 = s2
    t1 = t1
    alice = alice
    None = None
    Sessions <- OneStudent
    Teachers <- OneTeacher
    People <- OnePerson
    Person <- OwnerOfOne
    Asks <- Nobody
    Daemons <- OneDaemon
    Duties <- JustRunEnd
    Room = 1
INVARIANTS
    TypeOK
PROPERTIES
    Finished
