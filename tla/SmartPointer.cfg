SPECIFICATION Spec
CONSTANTS
    static = static  auto = auto  derived = derived
    b1 = b1  b2 = b2
    c1 = c1  c2 = c2
    Statics <- MCStatics
    Autos <- MCAutos
    Derived <- MCDerived
    Blocks <- MCBlocks
    Counters <- MCCounters
    AllocT = AllocT
    AllocX = AllocX
    StaticHandle = StaticHandle
    AutoHandle = AutoHandle
    CLIENT = CLIENT
    NULL = NULL
    CntMod = 8
SYMMETRY Symmetric
CHECK_DEADLOCK FALSE
INVARIANTS
    CountsAreTrue
    PoolsFollowHandles
PROPERTIES
    ImplementsOwnership
