\* Two names, one of them defined by the executable, in two nested contexts.
SPECIFICATION Spec
CONSTANTS
    x = x  y = y
    Names <- MCNames
    External <- MCExternal
    Objects <- MCObjects
    Units <- MCUnits
    MaxMade = 3
    MaxContexts = 2
    MaxScopes = 2
INVARIANTS TypeOK NoDanglingCode EndsInTime
PROPERTIES UsersEndFirst LinkedAsFound Meant
CHECK_DEADLOCK FALSE
