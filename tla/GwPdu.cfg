SPECIFICATION FairSpec
CONSTANTS
    PDU_QUEUE_SIZE = 2
    GW_QUEUE_SIZE = 1
    FW_QUEUE_SIZE = 1
    HeapSize <- MCHeapSize
    DestCount = 2
CHECK_DEADLOCK FALSE
INVARIANTS
    TypeOK
    BuffersAccounted
    FaultNeedsLeak
    RoutedByType
    DiscardUninterrupted
PROPERTIES
    RouterReturns
    QuietBusDrains
