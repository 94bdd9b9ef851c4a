SPECIFICATION Spec
CONSTANTS
    NULL = NULL
    i1 = i1
    i2 = i2
    gen = gen
    n1 = n1
    x = x
    f = f
    m1 = m1
    m2 = m2
    k = k
    h1 = h1
    h2 = h2
    Ids = {i1, i2}
    Names = {gen, n1}
    Texts = {x}
    Files = {f}
    Models = {m1, m2}
    Global = {m1}
    ModelRows <- MCModelRows
    Keys = {k}
    KeysSet = {k}
    Requests <- MCRequests
    Handlers = {h1, h2}
    Generator = gen
SYMMETRY Symmetry
INVARIANTS
    SentIsCurrent
PROPERTIES
    BrokenStays
