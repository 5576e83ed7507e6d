SPECIFICATION Spec
CONSTANTS
    JunkCounters <- MCJunkCounters
    MaxFaults = 2
    MaxResets = 2
    MaxErases = 1
CHECK_DEADLOCK FALSE
INVARIANTS
    TypeOK
    CleanStartProvisions
    CleanEraseErases
PROPERTY StoreSpec
