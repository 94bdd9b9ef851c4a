SPECIFICATION Spec
CONSTANTS
    NULL = NULL
    a = a
    b = b
    p1 = p1
    p2 = p2
    i1 = i1
    i2 = i2
    i3 = i3
    n1 = n1
    n2 = n2
    h1 = h1
    h2 = h2
    Tenants = {a, b}
    Projects = {p1, p2}
    Ids = {i1, i2, i3}
    Names = {n1, n2}
    Claims <- MCClaims
    Requests <- MCRequests
    Handlers = {h1, h2}
SYMMETRY Symmetry
INVARIANTS
    TypeOK
    RegionsStayInProject
    StaleIsExplained
    LogIsTrue
PROPERTIES
    DataGoesWithItsRegion
    OnlyItsTenant
