CONSTANTS
    Pages = {1, 2, 3, 4, 5, 6, 7, 8, 9}
    FirstKey <- MCFirstKey
    LastKey <- MCLastKey
    Mix <- MCMix
    Initial = 1
SPECIFICATION Spec
INVARIANTS
    BucketsAreExact
    PagesAreCounted
PROPERTY ImplementsPageSet
