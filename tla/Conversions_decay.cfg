\* What the comments say of an array and *void.
CONSTANTS
    Types <- MCTypes
    Given <- MCGiven

SPECIFICATION Spec
INVARIANTS
    ArraysDecay
CHECK_DEADLOCK FALSE
