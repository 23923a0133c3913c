CONSTANTS
    a = a
    b = b
    c = c
    o1 = o1
    w1 = w1
    w2 = w2
    Users = {a, b}
    Orgs = {o1}
    Workspaces = {w1, w2}
    OrgOf <- OneOrg
    PrimaryOwner <- OwnedByA
    Platform = Platform
    NoGroup = NoGroup
    NoUser = NoUser
    NoRow = NoRow
    Requests = {r1, r2}
    MaxRequests = 2
SYMMETRY Symmetry
SPECIFICATION Spec
INVARIANTS TypeOK AdminPresent
PROPERTIES OnlyFirstIsAdmin LastTopKept ManualKept
CHECK_DEADLOCK FALSE
