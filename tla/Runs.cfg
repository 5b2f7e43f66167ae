\* One run and two students: one handler is sent every request, another some, with one failure.
SPECIFICATION FairSpec
CONSTANTS
    Exams = {e1}
    Runs = {r1}
    Students = {s1, s2}
    Names = {n1}
    Handlers = {h1, h2}
    e1 = e1
    r1 = r1
    s1 = s1
    s2 = s2
    n1 = n1
    h1 = h1
    h2 = h2
    Kinds <- EveryAndSome
    MaxAge = 1
    MaxFailures = 1
INVARIANTS
    TypeOK
    OneIdPerName
    AnsweredIsKept
    NoStrays
PROPERTIES
    OverIsClosed
