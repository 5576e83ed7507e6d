SPECIFICATION FairSpec
CONSTANTS
    NUM_OF_ECUS = 2
    Versions <- MCVersions
    Firmware <- MCFirmware
    MaxErrors = 2
    MaxCrashes = 1
INVARIANTS
    TypeOK
    RestartRepairs
    EachFaultCostsOne
    LatestFound
PROPERTIES
    LoadGivesWritten
    LatestEnds
