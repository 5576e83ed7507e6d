SPECIFICATION FairSpec
CONSTANTS
    d1 = d1
    d2 = d2
    NULL = NULL
    Devs <- MCDevs
    MaxDevices = 2
    TickScore = 3
    LoopScores = {2}
    SendResults <- MCContract
    MaxQueued = 2
    MaxAccepted = 2
INVARIANTS
    TypeOK
    NoDanglingDevice
    ScoreSpent
    SentOnce
PROPERTIES
    TickEnds
    FirstServed
