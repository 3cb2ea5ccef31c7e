SPECIFICATION Spec
CONSTANTS
  r1 = r1
  r2 = r2
  r3 = r3
  Requests = {r1, r2}
  Prompts <- DisjointPrompts
  Limits = {4}
  MaxBatch = 2
  MaxChunk = 2
  MaxStep = 3
  NumBlocks = 4
  BlockSize = 2
SYMMETRY AnyOrder
INVARIANTS BackendForgets
CHECK_DEADLOCK FALSE
