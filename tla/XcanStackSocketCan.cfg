SPECIFICATION Spec
CONSTANTS
    d1 = d1
    d2 = d2
    NULL = NULL
    Devs <- MCDevs
    MaxDevices = 2
    TickScore = 3
    LoopScores = {2}
    SendResults <- MCSocketCAN
    MaxQueued = 1
    MaxAccepted = 2
INVARIANT SentOnce
