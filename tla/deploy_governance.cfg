\* Two deployments into two environments, two requests at a time.
SPECIFICATION Spec
CONSTANTS
    NULL = NULL
    Deployments = {d1, d2}
    Users = {alice, bob}
    Environments = {dev, prod}
    Versions = {v1}
    Models = {}
    Handlers = {h1, h2}
    Removable = {v1}
SYMMETRY SymmetryOfPlaces
INVARIANTS
    TypeOK
    ActiveWasApproved
    DeployedIsActive
PROPERTIES
    Governed
