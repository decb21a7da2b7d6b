CONSTANTS
    Tokens = {t1, t2}
    Admins = {a1}
    NoToken = NoToken
    NoAdmin = NoAdmin
    Reqs = {r1, r2}
    SessionTtl = 1
    MinTtl = 1
    KvMayFail = TRUE
    MaxTime = 2
SPECIFICATION Spec
SYMMETRY Symmetry
INVARIANTS
    GrantSound
    RevokedCachedOnlyByRace
    LateGrantOnlyByRace
CHECK_DEADLOCK FALSE
