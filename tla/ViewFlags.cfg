\* One page, loaded anew at any time, while flags are raised, told and cleared and the run ends.
SPECIFICATION Spec
CONSTANTS
    Pages = {p1}
    p1 = p1
    MaxFlags = 2
    MaxInbox = 1
INVARIANTS
    TypeOK
    ToldIsShown
