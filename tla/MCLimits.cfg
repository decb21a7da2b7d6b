CONSTANTS
    Clients = {c1, c2}
    Reqs = {r1, r2}
    Limit = 2
    WindowLength = 2
    LoginLimit = 2
    FailureWindow = 3
    Admins = {a, b}
    NoAdmin = NoAdmin
    MaxDraw = 0
    Nobody = Nobody
    MaxPresses = 4
SPECIFICATION MCSpec
SYMMETRY Symmetry
INVARIANTS
    NeverTwiceTheLimit
    GuessesBounded
    KeptApart
PROPERTY CodeStays
CHECK_DEADLOCK FALSE
