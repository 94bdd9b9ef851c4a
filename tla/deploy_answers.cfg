\* One deployment under fairness, and rows of every kind that disappear meanwhile:
\* every request is answered, and what happened to its items is explained.
SPECIFICATION FairSpec
CONSTANTS
    NULL = NULL
    Deployments = {d1}
    Users = {alice, bob, carol}
    Environments = {dev, prod}
    Versions = {v1, v2}
    Models = {m1}
    Handlers = {h1, h2}
    Removable = {v1, bob, dev}
INVARIANTS
    FourEyes
    SnapshotsHold
    AllOrNothing
    NoDanglingReference
PROPERTIES
    RequestsReturn
