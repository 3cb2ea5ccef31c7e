CONSTANTS
    NumBlocks = 3
    BlockSize = 2
    MaxServed = 3
    MaxEvicted = 0
    Prompts <- ForkedPrompts

SPECIFICATION Spec
CHECK_DEADLOCK FALSE

INVARIANTS
    NodesAreReferenced
