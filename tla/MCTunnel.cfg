CONSTANTS
    MaxUp = 4
    MaxDown = 2
    Users = {u}
    Uuids = {c}
    NoUser = NoUser
    NoUuid = NoUuid
    Reqs = {r}
    EdgeTtl = 1
    PrimeTtl = 1
    MaxDelay = 0
    MaxLeft = 1
    BackupRows = {}
    KvMayFail = FALSE
SPECIFICATION MCSpec
INVARIANT CarriedAndBilled
PROPERTY ToldOfLeaving
CHECK_DEADLOCK FALSE
