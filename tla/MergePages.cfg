CONSTANTS
    B = 8
    NULL = NULL
    ONE = ONE
    DATA = DATA
SPECIFICATION Spec
CHECK_DEADLOCK FALSE
INVARIANTS
    NothingIsOverwritten
    ListIsWhatIsLeft
    MergeIsComplete
PROPERTY MergeEnds
