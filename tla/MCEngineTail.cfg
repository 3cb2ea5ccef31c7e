SPECIFICATION Spec
CONSTANTS
  r1 = r1
  r2 = r2
  r3 = r3
  Requests = {r1, r2}
  Prompts <- TailPrompts
  Limits = {2}
  MaxBatch = 2
  MaxChunk = 2
  MaxStep = 3
  NumBlocks = 6
  BlockSize = 2
SYMMETRY AnyOrder
INVARIANTS WriteTargetIsPrivate
CHECK_DEADLOCK FALSE
