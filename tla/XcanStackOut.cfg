SPECIFICATION FairSpec
CONSTANTS
    d1 = d1
    d2 = d2
    NULL = NULL
    Devs <- MCDevs
    MaxDevices = 2
    TickScore = 3
    LoopScores = {}
    SendResults <- MCAlwaysSends
    MaxQueued = 1
    MaxAccepted = 1
PROPERTY TickSendsFrames
