CONSTANTS
    q1 = q1
    q2 = q2
    q3 = q3
    Request = {q1, q2, q3}
    Caller = {q1, q2, q3}
    Sid = {s1}
    Name = {n1}
    Body <- MCBody
    NoBody = NoBody
    Torn = Torn
    Mixed = Mixed
    Asks <- MCAsks
    NoEvent = NoEvent
    MaxVersion = 2
    MaxEvents = 1
    MaxImports = 2
    AutoCreate = TRUE
SPECIFICATION Spec
INVARIANTS
    ToldIsStored
    DeletedUnlessHeld
    AnnouncedLoads
CHECK_DEADLOCK FALSE
