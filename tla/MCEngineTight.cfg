SPECIFICATION CarefulSpec
CONSTANTS
  r1 = r1
  r2 = r2
  r3 = r3
  Requests = {r1, r2, r3}
  Prompts <- ForkingPrompts
  Limits = {1, 4}
  MaxBatch = 2
  MaxChunk = 2
  MaxStep = 3
  NumBlocks = 4
  BlockSize = 2
SYMMETRY AnyOrder
INVARIANTS HoldersAreCounted TableCoversTokens NothingReleasedTwice OutcomesAreCounted EachBlockIsFreeOrUsed
PROPERTIES AnswersTheAdmitted LostByReplacementOnly RefusedForWantOfBlocks
CHECK_DEADLOCK FALSE
