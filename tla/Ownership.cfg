\* Three wrappers of two native objects, calls nested two deep.
SPECIFICATION Spec
CONSTANTS
    Wrappers = {w1, w2, w3}
    Handles = {h1, h2}
    Invalid = Invalid
    Null = Null
    MaxDepth = 2
SYMMETRY MCSymmetry
INVARIANTS
    DestroyedOnce
    OwnedOnce
PROPERTIES
    GivenAwayIsSafe
    OwnersPassLiving
CHECK_DEADLOCK FALSE
