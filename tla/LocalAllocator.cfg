CONSTANTS
    Pages = {1, 2, 3}
    Blocks = {b1, b2, b3, b4}
    MaxEmpty = 2
    NULL = NULL
SPECIFICATION LSpec
CHECK_DEADLOCK FALSE
CONSTRAINTS BeforeCollision SpoiledBound BeforeStale LostBound
SYMMETRY Symmetry
INVARIANTS
    LocalBlocksAreSafe
    LocalPagesAreAccounted
    LocalFailsOnlyAfterFault
