CONSTANTS
    Admins = {a1, a2}
    NoAdmin = NoAdmin
    Reqs = {r1, r2}
    MaxDraw = 5
SPECIFICATION Spec
SYMMETRY Symmetry
INVARIANTS
    OldPasswordShut
    TotpProven
    SupersGoneOnlyByRace
CHECK_DEADLOCK FALSE
