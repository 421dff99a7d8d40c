\* One compiler on a triangle of imports; sources may change at any moment,
\* also while it runs.
SPECIFICATION Spec
CONSTANTS
    a = a  b = b  c = c
    Files = {a, b, c}
    Imports <- MCTriangle
    Programs <- MCSingles
    Faults = {"remove"}
    p1 = p1  p2 = p2
    Procs = {p1}
    MaxVer = 2
    MaxRuns = 2
    EditWhileRunning = TRUE
INVARIANTS OneVersion ImportSettles
PROPERTIES NoNeedlessCompile
CHECK_DEADLOCK FALSE
