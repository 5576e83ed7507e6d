SPECIFICATION FairSpec
CONSTANTS
    NUM_OF_ECUS = 2
    Versions <- MCVersions
    Firmware <- MCFirmware
    MaxErrors = 0
    MaxCrashes = 0
PROPERTY LoadAllReturns
