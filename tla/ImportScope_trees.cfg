\* Trees of a program and three files that import downwards, or in circles.
SPECIFICATION Spec
CONSTANTS
    Files = {"a", "b", "c"}
    Main = "main"
    Names <- MCNames
    Things <- MCThings
    Efforts <- MCEfforts
    NoThing = "nothing"
    Trees <- MCTrees
    Beneath <- MCBeneath
CHECK_DEADLOCK FALSE
INVARIANTS TypeOK OneActivation ExportsMean ScopesMean
PROPERTY FinishedFrozen
