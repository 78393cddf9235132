SPECIFICATION FairSpec
CONSTANTS
    k1 = k1
    k2 = k2
    a = a
    b = b
    Session = {s1, s2}
    Key = {k1, k2}
    Client = {a, b}
    Owner <- OneOwner
    Unissued = {k2}
    NoSession = NoSession
    Skew = 1
    MaxTime = 0
PROPERTIES
    ImplementsRegistry
    OperationsEnd
CHECK_DEADLOCK FALSE
