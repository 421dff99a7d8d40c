\* Programs of up to three statements.
CONSTANTS
    Statements <- MCStatements
    Parameters <- MCParameters
    Symbols <- MCSymbols
    Objects <- MCObjects
    Apply <- MCApply
    EndOf <- MCEndOf
    int_type <- Int3
    intptr_t_type <- Int4
    IndexWidth = 3
    MaxStatements = 3

SPECIFICATION Spec
INVARIANTS
    TypeOK
    MeansItself
    TemporariesEnd
\* A program ends.
CHECK_DEADLOCK FALSE
