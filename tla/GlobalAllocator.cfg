CONSTANTS
    Pages = {1, 2, 3}
    Blocks = {b1, b2, b3, b4}
    MaxEmpty = 2
    NULL = NULL
SPECIFICATION Spec
CONSTRAINTS BeforeCollision SpoiledBound LostBound
SYMMETRY Symmetry
INVARIANTS
    TypeOK
    OwnedBlocksAreSafe
    ListsAreExact
    PagesAreCounted
    FailsOnlyAfterFault
    WalkMissesNoBlock
