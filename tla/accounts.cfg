SPECIFICATION Spec
CONSTANTS
    NULL = NULL
    td = td
    t0 = t0
    t1 = t1
    t2 = t2
    root = root
    u1 = u1
    u2 = u2
    k1 = k1
    p1 = p1
    n0 = n0
    n1 = n1
    e0 = e0
    e1 = e1
    e2 = e2
    h1 = h1
    h2 = h2
    Tenants = {td, t0, t1, t2}
    Users = {root, u1, u2}
    Keys = {k1}
    Projects = {p1}
    Names = {n0, n1}
    Emails = {e0, e1, e2}
    Requests <- MCRequests
    Handlers = {h1, h2}
    Default = td
    Seeded = t0
    Root = root
    RootEmail = e0
    RootName = n0
SYMMETRY Symmetry
INVARIANTS
    TypeOK
    SetUpWhole
    RevokedIsRefused
PROPERTIES
    ProjectsAreTheirTenants
