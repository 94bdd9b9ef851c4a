\* A slug that goes from one project to another while a version is created.
SPECIFICATION Spec
CONSTANTS
    NULL = NULL
    slug = slug
    p = p
    q = q
    tp = tp
    h1 = h1
    h2 = h2
    Slugs = {slug}
    Projects = {p, q}
    Tags = {tp}
    ProjectOf <- MCProjectOf
    Requests <- MCNewVersions
    Keys = {"1.0.0", "1.1.0"}
    First = "1.0.0"
    Handlers = {h1, h2}
    MaxRow = 4
SYMMETRY Symmetry
PROPERTIES
    VersionsStay
