SPECIFICATION FairSpec
CONSTANTS
  r1 = r1
  r2 = r2
  r3 = r3
  Requests = {r1, r2, r3}
  Prompts <- TwoPages
  Limits = {3}
  MaxBatch = 2
  MaxChunk = 2
  MaxStep = 3
  NumBlocks = 3
  BlockSize = 2
PROPERTIES EveryoneIsAnswered QueueMovesOn
CHECK_DEADLOCK FALSE
