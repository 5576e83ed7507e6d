SPECIFICATION Spec
CONSTANTS
    e1 = e1
    e2 = e2
    NONE = NONE
    Ecus <- MCEcus
    Packets = 2
    SecureUpdate = TRUE
    RandomBytes <- MCRandom
    FW_QUEUE_SIZE = 3
    Networks <- MCOneUpdate
    MaxReadErrors = 0
CHECK_DEADLOCK FALSE
INVARIANT SuccessIsInstalled
