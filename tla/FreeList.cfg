CONSTANTS
    B = 5
    NULL = NULL
    ONE = ONE
    DATA = DATA
SPECIFICATION Spec
VIEW LiveState
CONSTRAINT BeforeSpoiling
INVARIANTS
    ListsAreSound
    WalkShowsUsedBlocks
PROPERTY ImplementsPool
