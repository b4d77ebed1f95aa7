CONSTANTS
    Pages = {1, 2, 3}
    Blocks = {b1, b2, b3, b4}
    MaxEmpty = 2
    NULL = NULL
SPECIFICATION DSpec
CONSTRAINTS BeforeCollision SpoiledBound LostBound
SYMMETRY Symmetry
INVARIANTS
    OwnedBlocksAreSafe
    ListsHoldAllPages
    PagesAreCounted
    FailsOnlyAfterFault
PROPERTIES
    MergeKeepsBlocks
    LoopLeavesNoPair
