\* Two compilers share a pair of files that import each other.
SPECIFICATION Spec
CONSTANTS
    a = a  b = b  c = c
    Files = {a, b}
    Imports <- MCPair
    Programs <- MCPrograms
    Faults = {"power"}
    p1 = p1  p2 = p2
    Procs = {p1, p2}
    MaxVer = 2
    MaxRuns = 3
    EditWhileRunning = FALSE
INVARIANTS TypeOK FreshImports HeaderAsserted
PROPERTIES StepsRunOut
CHECK_DEADLOCK FALSE
