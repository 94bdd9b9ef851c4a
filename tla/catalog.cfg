\* Two requests at a time on one slug that two projects want; four rows below it.
SPECIFICATION Spec
CONSTANTS
    NULL = NULL
    slug = slug
    p = p
    q = q
    tp = tp
    h1 = h1
    h2 = h2
    Slugs = {slug}
    Projects = {p, q}
    Tags = {tp}
    ProjectOf <- MCProjectOf
    Requests <- MCRequests
    Keys = {"1.0.0", "1.1.0"}
    First = "1.0.0"
    Handlers = {h1, h2}
    MaxRow = 4
SYMMETRY Symmetry
INVARIANTS
    TypeOK
    TagsStayInProject
    AbsenceIsTrue
    LogIsTrue
PROPERTIES
    PromptsAndAssetsStay
