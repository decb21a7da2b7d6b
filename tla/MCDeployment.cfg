CONSTANTS
    Nodes = {n1, n2}
    Scripts = {x1, x2}
    Routes = {h1}
    Records = {d1}
    Paths = {p1, p2}
    NoPath = NoPath
    Nothing = Nothing
    Keep = Keep
    Reqs = {r1, r2}
    MaxWork = 4
    Drafts <- MCDrafts
    Edits <- MCEdits
SPECIFICATION Spec
SYMMETRY Symmetry
CHECK_DEADLOCK FALSE
INVARIANTS
    NodesValid
    ServedWorks
    RowsMatchCloud
