SPECIFICATION FairSpec
CONSTANTS
    Requests = {r1, r2, r3}
    Workers = {w1, w2}
    MaxBatch = 2
INVARIANTS
    TypeOK
    BatchesAddUp
    BatchedWorkIsFinished
PROPERTIES
    EveryoneIsServed
    ShutdownEnds
CHECK_DEADLOCK FALSE
