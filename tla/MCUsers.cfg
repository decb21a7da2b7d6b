CONSTANTS
    Users = {u1}
    Nodes = {n1, n2}
    NoUser = NoUser
    Reqs = {r1, r2}
    Days = 1
    MaxLeft = 2
    RevokeOnExpire = TRUE
SPECIFICATION Spec
SYMMETRY Symmetry
INVARIANTS
    OnlyNodesAskedFor
    OffForCause
    TimeAddsUp
    NewLinksWork
