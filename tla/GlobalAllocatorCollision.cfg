CONSTANTS
    Pages = {1, 2}
    Blocks = {b1, b2, b3, b4}
    MaxEmpty = 2
    NULL = NULL
SPECIFICATION Spec
SYMMETRY Symmetry
CHECK_DEADLOCK FALSE
INVARIANT AllocFindsABlock
