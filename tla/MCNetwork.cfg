CONSTANTS
    Servers = {s1, s2}
    Warps = {w1}
    Filters = {f1}
    Backends = {b1}
    Rules = {l1}
    Chains = {c1}
    Nodes = {n1, n2}
    Outside = Outside
    NoServer = NoServer
    Kinds = {k1, k2}
    Values = {v1, v2}
    NoValue = NoValue
    Keep = Keep
    Editors = {r1, r2}
    Reqs = {}
    MaxWork = 5
    Scripts = {x1}
    Routes = {}
    Records = {}
    Paths = {p1}
    NoPath = NoPath
    Nothing = Nothing
    Drafts = {}
    Edits = {}
SPECIFICATION MCSpec
SYMMETRY Symmetry
CHECK_DEADLOCK FALSE
INVARIANTS
    PrimaryAsAsked
    BackendAsAsked
    RulesFit
    ChainsSound
