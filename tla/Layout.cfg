CONSTANTS
    W = 12
    PageHeader = 40
    Overhead = 8
    Pointer = 8
    DefaultBlocks = 16
    BlockSizes <- MCBlockSizes
    BlockNumbers <- MCBlockNumbers
    Reserved <- MCReserved
SPECIFICATION LayoutSpec
CHECK_DEADLOCK FALSE
INVARIANTS
    PagesFillPowers
    ReservationsFit
    MagnitudeCoversPage
PROPERTY ReinitKeepsLayout
