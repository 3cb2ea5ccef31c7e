SPECIFICATION Spec
CONSTANTS
  r1 = r1
  r2 = r2
  r3 = r3
  Requests = {r1, r2, r3}
  Prompts <- PagedPrompts
  Limits = {1, 3}
  MaxBatch = 2
  MaxChunk = 2
  MaxStep = 3
  NumBlocks = 8
  BlockSize = 2
SYMMETRY AnyOrder
INVARIANTS TypeOK ListsAreSound HoldersAreCounted WriteTargetIsPrivate
PROPERTIES AnswersEveryone SettledOnce PrefillWithinBudget
CHECK_DEADLOCK FALSE
