CONSTANTS
    NPages = 3
    B = 2
    NULL = NULL
SPECIFICATION Spec
CONSTRAINT BeforeFailure
INVARIANTS
    LastPageHasBlock
    BlocksAreAccounted
    LayoutFollowsLastPage
