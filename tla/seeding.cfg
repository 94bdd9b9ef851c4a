SPECIFICATION Spec
CONSTANTS
    NULL = NULL
    Prompts <- MCPrompts
    Assets <- MCAssets
    Shared = "system-base"
    MaxMishaps = 3
INVARIANTS
    TypeOK
    SeededIsWhole
    BaseIsAlone
    RerunIsPossible
