SPECIFICATION Spec
CONSTANTS
    k1 = k1
    k2 = k2
    a = a
    b = b
    Session = {s1, s2}
    Key = {k1, k2}
    Client = {a, b}
    Owner <- SameOwner
    Unissued = {}
    NoSession = NoSession
    Skew = 0
    MaxTime = 1
SYMMETRY Symmetry
INVARIANTS
    AuthenticationIsSound
PROPERTIES
    RowsMoveForward
CHECK_DEADLOCK FALSE
