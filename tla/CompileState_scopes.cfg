\* Three scopes in each of two contexts, three blocks under one name.
CONSTANTS
    intrinsic = intrinsic
    Names <- MCNames
    MaxBlocks = 3
    MaxScopes = 2
    MaxContexts = 2
    MaxHold = 2

SPECIFICATION Spec
INVARIANTS
    TypeOK
    NoDangling
    CleanedOnce
    NewestFirst
\* The process ends.
CHECK_DEADLOCK FALSE
