\* Files that import each other: is a binary judged good a usable one?
SPECIFICATION Spec
CONSTANTS
    a = a  b = b  c = c
    Files = {a, b, c}
    Imports <- MCCircle
    Programs <- MCPrograms
    Faults = {"remove", "power"}
    p1 = p1  p2 = p2
    Procs = {p1}
    MaxVer = 2
    MaxRuns = 2
    EditWhileRunning = FALSE
INVARIANTS GoodIsUsable
CHECK_DEADLOCK FALSE
