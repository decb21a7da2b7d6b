CONSTANTS
    Users = {u1}
    Uuids = {c1, c2}
    NoUser = NoUser
    NoUuid = NoUuid
    Reqs = {r1, r2}
    EdgeTtl = 1
    PrimeTtl = 1
    MaxDelay = 0
    MaxLeft = 1
    BackupRows <- MCBackupRows
    KvMayFail = TRUE
SPECIFICATION Spec
SYMMETRY Symmetry
INVARIANT StaleYesOnlyByRace
PROPERTY ImplementsAccess
