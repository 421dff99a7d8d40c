\* Every type to every type.
CONSTANTS
    Types <- MCTypes
    Given <- MCGiven

SPECIFICATION Spec
INVARIANTS
    TypeOK
    NumbersAsInC
    SameObject
    Unreferenced
    QuietNo
\* One call is adopted and answered.
CHECK_DEADLOCK FALSE
