\* Two requests, a prompt version and an asset version, an owner, an approver and failures.
SPECIFICATION Spec
CONSTANTS
    NULL = NULL
    p = p
    a = a
    owner = owner
    editor = editor
    h1 = h1
    h2 = h2
    Prompts = {p}
    Assets = {a}
    Users = {owner, editor}
    Owner = owner
    Approvers = {editor}
    Handlers = {h1, h2}
    Failing = {h1, h2}
SYMMETRY Symmetry
INVARIANTS
    TypeOK
    ListedIsApproved
    LogIsAccountable
PROPERTIES
    PublishedOnlyWaived
