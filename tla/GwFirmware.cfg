SPECIFICATION FairSpec
CONSTANTS
    e1 = e1
    e2 = e2
    NONE = NONE
    Ecus <- MCEcus
    Packets = 2
    SecureUpdate = TRUE
    RandomBytes <- MCRandom
    FW_QUEUE_SIZE = 3
    Networks <- MCNetworks
    MaxReadErrors = 1
CHECK_DEADLOCK FALSE
INVARIANTS
    TypeOK
    CompleteIsInstalled
    ImageInOrder
PROPERTY UpdateReturns
