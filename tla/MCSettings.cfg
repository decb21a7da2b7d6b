CONSTANTS
    Reqs = {r1, r2}
    Ttl = 1
    MaxDelay = 1
    MaxVersion = 2
    KvMayFail = TRUE
SPECIFICATION Spec
SYMMETRY Symmetry
INVARIANT StaleCopyOnlyByRace
PROPERTIES
    ImplementsAccess
    WritesStop
