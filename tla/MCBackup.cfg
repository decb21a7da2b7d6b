CONSTANTS
    Ids = {b1}
    NoId = NoId
    Reqs = {r1, r2}
    MaxVersion = 2
    MaxWork = 5
SPECIFICATION Spec
SYMMETRY Symmetry
INVARIANTS
    ListedExists
    RoundTrip
    FailsForCause
    AdminsGoneForCause
CHECK_DEADLOCK FALSE
