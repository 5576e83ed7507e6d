SPECIFICATION FairSpec
CONSTANTS
    NUM_OF_ECUS = 2
    GW_QUEUE_SIZE = 4
    BigEndian = TRUE
    StatusBytes <- MCWide
    AppRequests <- MCAll
    MaxRequests = 1
    MaxChanges = 1
    MaxLost = 1
INVARIANTS
    TypeOK
    OneLateRequest
PROPERTIES
    HeartbeatReaches
    StatusGetsKnown
