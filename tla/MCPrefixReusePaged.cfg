CONSTANTS
    NumBlocks = 7
    BlockSize = 2
    MaxServed = 4
    MaxEvicted = 2
    Prompts <- PagedOrTooLong

SPECIFICATION Spec
CHECK_DEADLOCK FALSE

INVARIANTS
    TypeOK
    OneReferencePerCachedBlock
    ReusedDataIsRight
    MatchWasServed
    MatchIsLongest
PROPERTIES
    EvictionIsLocal
    RecentlyUsedStays
