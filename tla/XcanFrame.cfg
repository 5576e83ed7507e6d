SPECIFICATION Spec
CONSTANTS
    f1 = f1
    f2 = f2
    f3 = f3
    f4 = f4
    p1 = p1
    p2 = p2
    p3 = p3
    NULL = NULL
    MaxCopies = 2
    Frames <- MCFrames
    Payloads <- MCPayloads
SYMMETRY Symmetry
CHECK_DEADLOCK FALSE
INVARIANTS
    TypeOK
    CountedUses
PROPERTIES
    DeepCopiesSafe
    OneStaleAtMost
