CONSTANTS
    Requests = {r1, r2, r3}
    Prompts <- SharedPrompts
    Vocabulary = {7}
    Blocks = {b1, b2, b3, b4}
    BlockSize = 2
    Offsets = {0, 1}
    MaxChunk = 2
    MaxNew = 3

SPECIFICATION Spec
SYMMETRY AnyOrder
CHECK_DEADLOCK FALSE

INVARIANTS
    TypeOK
    ReadsItsOwnTokens
    DecodesFromAllTokens
PROPERTIES
    NoKVIsOverwritten
