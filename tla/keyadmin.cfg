SPECIFICATION Spec
CONSTANTS
    None = None
    Key = {1, 2, 3}
    Client = {a, b}
    Agent = {x, y}
    Lister = {x}
    MaxLimit = 2
    MaxOffset = 9
    MaxName = 128
    Bodies <- MCBodies
    Queries <- MCQueries
INVARIANTS
    WalkIsComplete
    SecretsAreShownOnce
PROPERTY
    KeysAreVouchedFor
SYMMETRY Symmetry
CHECK_DEADLOCK FALSE
