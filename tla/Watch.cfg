\* One change of the rules and one lost connection or restart, under fairness.
SPECIFICATION FairSpec
CONSTANTS
    Addresses = {a1, "localhost"}
    Names = {}
    DefaultHost = a1
    a1 = a1
    Alterations <- SomeAlterations
    Room = 100
    MaxChanges = 1
    MaxDrops = 1
    MaxWire = 2
INVARIANTS
    CheckExact
PROPERTIES
    ChangeHeard
