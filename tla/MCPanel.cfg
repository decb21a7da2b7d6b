CONSTANTS
    Pages = {"user", "node", "settings", "telegram"}
    Nobody = Nobody
    Touched = {"name", "general", "enabled", "rest"}
    MaxLeft = 6
    MaxWork = 3
    Reqs = {}
    Ttl = 1
    MaxDelay = 0
    MaxVersion = 1
    KvMayFail = FALSE
SPECIFICATION MCSpec
 
PROPERTY TypedKept
CHECK_DEADLOCK FALSE
