SPECIFICATION FairSpec
CONSTANTS
    q1 = q1
    q2 = q2
    f1 = f1
    f2 = f2
    f3 = f3
    NULL = NULL
    Queues <- MCQueues
    Frames <- MCFrames
    MaxFrames <- MCMaxFrames
INVARIANTS
    TypeOK
    ListsWellFormed
PROPERTIES
    EmptyEnds
    FifoSpec
