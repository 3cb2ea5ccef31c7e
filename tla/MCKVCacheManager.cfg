CONSTANTS
    Requests = {r1, r2}
    Cache = cache
    NumBlocks = 3
    BlockSize = 2
    MaxTokens = 5

SPECIFICATION Spec
SYMMETRY RequestSymmetry

INVARIANTS
    TypeOK
    RefCountIsHolders
    FreeIffUnreferenced
    StoredWithinUsed
    FreshBlocksAreOwned
PROPERTIES
    ImplementsOwnership
