CONSTANTS
    InitBlocks = 2
    MaxBlocks = 5
    AlignedBlocks = 6
    MaxSize = 6
    MaxBehind = 2
    WordBits = 2
    ByteBits = 2
    NULL = NULL
    ONE = ONE
    DATA = DATA
SPECIFICATION Spec
CHECK_DEADLOCK FALSE
CONSTRAINT BeforeSpoiling
INVARIANTS
    ListIsExact
    ReserveIsKept
    VectorSortsAlike
    WalkShowsOwnedBlocks
PROPERTY RelocationIsTold
